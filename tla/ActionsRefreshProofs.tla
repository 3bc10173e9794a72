------------------------- MODULE ActionsRefreshProofs -------------------------
(* What the page of actions shows, disables, keeps and stores, for any       *)
(* number of actions, covers, areas and requests under way.                  *)
EXTENDS ActionsRefresh, FiniteSetTheorems, TLAPS

\* A page has the fields of a page, whatever they hold.
IsPage(p) ==
  p = [checked |-> p.checked, disabled |-> p.disabled, refused |-> p.refused,
       kept |-> p.kept, banner |-> p.banner, typed |-> p.typed,
       chosen |-> p.chosen, live |-> p.live, pending |-> p.pending]

\* Its sets are of actions, and no refresh has disabled a protected one.
Sound(p) ==
  /\ IsPage(p)
  /\ p.checked \subseteq Actions /\ p.disabled \subseteq Actions
  /\ Protected(p) \intersect p.disabled \subseteq p.refused

\* Strengthening of NothingStuck: recovering from a failure skips protected
\* actions and leaves nothing behind, since no refresh disabled them.
StuckInv == Sound(page) /\ saved.on \subseteq Actions /\ NothingStuck

-----------------------------------------------------------------------------
(* What a page with some of its fields replaced is.                          *)

LEMMA Claimed ==
  ASSUME NEW p, IsPage(p), NEW live, NEW chosen,
         NEW q, q = [p EXCEPT !.live = live, !.chosen = chosen]
  PROVE  q = [checked |-> p.checked, disabled |-> p.disabled, refused |-> p.refused,
              kept |-> p.kept, banner |-> p.banner, typed |-> p.typed,
              chosen |-> chosen, live |-> live, pending |-> p.pending]
BY DEF IsPage

LEMMA TypedIn ==
  ASSUME NEW p, IsPage(p), NEW typed, NEW kept, NEW pending,
         NEW q, q = [p EXCEPT !.typed = typed, !.kept = kept, !.pending = pending]
  PROVE  q = [checked |-> p.checked, disabled |-> p.disabled, refused |-> p.refused,
              kept |-> kept, banner |-> p.banner, typed |-> typed,
              chosen |-> p.chosen, live |-> p.live, pending |-> pending]
BY DEF IsPage

-----------------------------------------------------------------------------
(* What the operators on a page do to its sets.                              *)

\* Reverting keeps protected actions and their values as they are.
LEMMA Reverting ==
  ASSUME NEW p, IsPage(p)
  PROVE  /\ IsPage(RevertUnconfirmed(p))
         /\ RevertUnconfirmed(p).kept = p.kept
         /\ RevertUnconfirmed(p).disabled = p.disabled
         /\ RevertUnconfirmed(p).refused = p.refused
         /\ RevertUnconfirmed(p).checked \subseteq p.checked
         /\ Protected(RevertUnconfirmed(p)) = Protected(p)
<1> DEFINE unconfirmed == {a \in (Quantity \intersect p.checked) \ Protected(p) : ValidTyped(p, a) = 0}
           lost == {a \in unconfirmed : p.chosen[a] = 0}
           typed == [a \in Actions |-> IF a \in unconfirmed THEN p.chosen[a] ELSE p.typed[a]]
           q == RevertUnconfirmed(p)
<1>1. q = [checked |-> p.checked \ lost, disabled |-> p.disabled, refused |-> p.refused,
           kept |-> p.kept, banner |-> p.banner, typed |-> typed,
           chosen |-> p.chosen, live |-> p.live, pending |-> p.pending]
  <2> HIDE DEF typed, lost
  <2>1. RevertUnconfirmed(p) = [p EXCEPT !.typed = typed, !.checked = p.checked \ lost]
    BY DEF RevertUnconfirmed, typed, lost
  <2> QED BY <2>1 DEF IsPage
<1> HIDE DEF q, typed, lost
<1>2. /\ IsPage(q) /\ q.kept = p.kept /\ q.disabled = p.disabled /\ q.refused = p.refused
      /\ q.checked = p.checked \ lost
  BY <1>1 DEF IsPage
<1>3. lost \intersect Protected(p) = {}
  BY DEF lost
<1>4. Protected(q) = Protected(p)
  BY <1>2, <1>3 DEF Protected
<1> QED BY <1>2, <1>4 DEF q

\* Disabling the others leaves every protected action enabled.
LEMMA Disabling ==
  ASSUME NEW p, IsPage(p), NEW t
  PROVE  /\ IsPage(DisableOthers(p, t))
         /\ DisableOthers(p, t).refused = p.refused
         /\ DisableOthers(p, t).kept = p.kept
         /\ DisableOthers(p, t).checked = p.checked
         /\ DisableOthers(p, t).disabled = p.disabled \union (Actions \ (Protected(p) \union {t}))
         /\ Protected(DisableOthers(p, t)) = Protected(p)
BY DEF IsPage, DisableOthers, Protected

LEMMA BannerUp ==
  ASSUME NEW p, IsPage(p), NEW b
  PROVE  LET q == [p EXCEPT !.banner = b]
         IN /\ IsPage(q) /\ q.refused = p.refused /\ q.disabled = p.disabled
            /\ q.kept = p.kept /\ q.checked = p.checked
            /\ Protected(q) = Protected(p)
BY DEF IsPage, Protected

\* Preparing a refresh disables no protected action and changes none of them.
LEMMA Preparing ==
  ASSUME NEW p, Sound(p), NEW t, NEW l
  PROVE  Sound(Prepared(p, t, l))
<1> DEFINE q == RevertUnconfirmed(p)
           b == [q EXCEPT !.banner = q.banner \union {t}]
<1>1. /\ IsPage(q) /\ q.kept = p.kept /\ q.disabled = p.disabled /\ q.refused = p.refused
      /\ q.checked \subseteq p.checked /\ Protected(q) = Protected(p)
  BY Reverting DEF Sound
<1>2. Sound(q)
  BY <1>1 DEF Sound
<1> HIDE DEF q
<1>3. /\ IsPage(b) /\ b.refused = q.refused /\ b.disabled = q.disabled /\ b.checked = q.checked
      /\ Protected(b) = Protected(q)
  BY <1>1, BannerUp
<1> HIDE DEF b
<1>4. /\ IsPage(DisableOthers(b, t))
      /\ DisableOthers(b, t).refused = b.refused
      /\ DisableOthers(b, t).checked = b.checked
      /\ DisableOthers(b, t).disabled = b.disabled \union (Actions \ (Protected(b) \union {t}))
      /\ Protected(DisableOthers(b, t)) = Protected(b)
  BY <1>3, Disabling
<1>5. Sound(DisableOthers(b, t))
  BY <1>2, <1>3, <1>4 DEF Sound
<1>6. Prepared(p, t, l) = IF t # None /\ l = MaxFollowUps THEN DisableOthers(b, t) ELSE q
  BY DEF Prepared, q, b
<1> QED BY <1>2, <1>5, <1>6

\* Marking disables what it shows as not compatible, and re-enables the others
\* of an answer.
LEMMA Marking ==
  ASSUME NEW p, IsPage(p), NEW gone, NEW free
  PROVE  LET q == Mark(p, gone, free)
         IN /\ IsPage(q) /\ q.kept = p.kept /\ q.checked = p.checked \ gone
            /\ q.disabled = (p.disabled \ free) \union gone
            /\ q.refused = (p.refused \ free) \union gone
<1> DEFINE chosen == [a \in Actions |-> IF a \in gone THEN 0 ELSE p.chosen[a]]
           typed == [a \in Actions |-> IF a \in gone THEN 0 ELSE p.typed[a]]
           disabled == (p.disabled \ free) \union gone
           refused == (p.refused \ free) \union gone
           q == Mark(p, gone, free)
<1>1. q = [p EXCEPT !.checked = p.checked \ gone, !.disabled = disabled, !.refused = refused,
                    !.chosen = chosen, !.typed = typed]
  BY DEF Mark
<1> HIDE DEF chosen, typed, disabled, refused, q
<1>2. q = [checked |-> p.checked \ gone, disabled |-> disabled, refused |-> refused,
           kept |-> p.kept, banner |-> p.banner, typed |-> typed,
           chosen |-> chosen, live |-> p.live, pending |-> p.pending]
  BY <1>1 DEF IsPage
<1>3. /\ IsPage(q) /\ q.disabled = disabled /\ q.refused = refused
      /\ q.checked = p.checked \ gone /\ q.kept = p.kept
  BY <1>2 DEF IsPage
<1> QED BY <1>3 DEF q, disabled, refused

\* An answer leaves disabled what it marks, and what it says nothing about.
LEMMA Applying ==
  ASSUME NEW p, Sound(p), NEW plan, NEW told \in Answers
  PROVE  /\ Sound(Apply(p, plan, told))
         /\ Apply(p, plan, told).disabled
              \subseteq Apply(p, plan, told).refused \union (Actions \ Heard(p, told))
<1> DEFINE own == (p.checked \intersect told.measured) \ Protected(p)
           held == [a \in Actions |->
                     IF a \notin own \/ (a \in Quantity /\ plan[a] = 0) THEN p.chosen[a]
                     ELSE plan[a] + (IF a \in Growers(p, plan, told) THEN Left(a, plan) ELSE 0)]
           live == [a \in Actions |-> IF a \in told.measured THEN Left(a, plan) ELSE p.live[a]]
           none == {a \in own \ Quantity : held[a] = 0}
           gone == {a \in told.measured \ p.checked :
                     \/ Left(a, plan) = 0
                     \/ a \in Quantity /\ Left(a, plan) < ValidTyped(p, a)} \union none
           r == [p EXCEPT !.live = live, !.chosen = held]
           heard == Heard(p, told)
<1>1. Apply(p, plan, told) = Mark(r, gone, heard \ gone)
  BY DEF Apply
<1>2. gone \subseteq Actions
  <2>1. told.measured \subseteq Actions
    BY AnswerAssumption
  <2> HIDE DEF held
  <2>2. none \subseteq Actions
    BY DEF Sound
  <2> HIDE DEF none
  <2> QED BY <2>1, <2>2
<1> HIDE DEF gone, live, held, heard
<1>3. r = [checked |-> p.checked, disabled |-> p.disabled, refused |-> p.refused,
           kept |-> p.kept, banner |-> p.banner, typed |-> p.typed,
           chosen |-> held, live |-> live, pending |-> p.pending]
  <2>1. IsPage(p)
    BY DEF Sound
  <2> QED BY <2>1, Claimed
<1>4. /\ IsPage(r) /\ r.disabled = p.disabled /\ r.refused = p.refused
      /\ r.checked = p.checked /\ r.kept = p.kept
  BY <1>3 DEF IsPage
<1> HIDE DEF r
<1> DEFINE q == Mark(r, gone, heard \ gone)
<1>5. /\ IsPage(q) /\ q.kept = p.kept /\ q.checked = p.checked \ gone
      /\ q.disabled = (p.disabled \ (heard \ gone)) \union gone
      /\ q.refused = (p.refused \ (heard \ gone)) \union gone
  BY <1>4, Marking
<1> HIDE DEF q
<1>6. p.checked \subseteq Actions /\ p.disabled \subseteq Actions
      /\ Protected(p) \intersect p.disabled \subseteq p.refused
  BY DEF Sound
<1>7. Protected(q) \subseteq Protected(p)
  BY <1>5 DEF Protected
<1>8. Sound(q)
  BY <1>2, <1>5, <1>6, <1>7 DEF Sound
<1>9. q.disabled \subseteq q.refused \union (Actions \ heard)
  BY <1>5, <1>6
<1> QED BY <1>1, <1>8, <1>9 DEF q, heard

LEMMA Recovering ==
  ASSUME NEW p, Sound(p)
  PROVE  Sound(Recover(p)) /\ Recover(p).disabled \subseteq Recover(p).refused
<1> DEFINE disabled == p.disabled \ (Actions \ Protected(p))
           refused == p.refused \ (Actions \ Protected(p))
<1>1. Recover(p) = [p EXCEPT !.disabled = disabled, !.refused = refused]
  BY DEF Recover
<1>2. disabled \subseteq refused /\ disabled \subseteq Actions
  BY DEF Sound
<1> HIDE DEF disabled, refused
<1>3. Recover(p) = [checked |-> p.checked, disabled |-> disabled, refused |-> refused,
                    kept |-> p.kept, banner |-> p.banner, typed |-> p.typed,
                    chosen |-> p.chosen, live |-> p.live, pending |-> p.pending]
  BY <1>1 DEF IsPage, Sound
<1>4. /\ IsPage(Recover(p)) /\ Recover(p).disabled = disabled /\ Recover(p).refused = refused
      /\ Recover(p).checked = p.checked
  BY <1>3 DEF IsPage
<1> QED BY <1>2, <1>4 DEF Sound

LEMMA BannerDown ==
  ASSUME NEW p, Sound(p), NEW t
  PROVE  /\ Sound(HideBanner(p, t))
         /\ HideBanner(p, t).refused = p.refused /\ HideBanner(p, t).disabled = p.disabled
<1>1. HideBanner(p, t) = [p EXCEPT !.banner = p.banner \ {t}]
  BY DEF HideBanner
<1>2. HideBanner(p, t) =
        [checked |-> p.checked, disabled |-> p.disabled, refused |-> p.refused,
         kept |-> p.kept, banner |-> p.banner \ {t}, typed |-> p.typed,
         chosen |-> p.chosen, live |-> p.live, pending |-> p.pending]
  BY <1>1 DEF IsPage, Sound
<1> QED BY <1>2 DEF IsPage, Sound, Protected

LEMMA Rendering ==
  ASSUME NEW on, on \subseteq Actions, NEW value, NEW rejected
  PROVE  Sound(Rendered(on, value, rejected)) /\ Rendered(on, value, rejected).disabled = {}
BY DEF IsPage, Sound, Rendered

-----------------------------------------------------------------------------
(* The invariant.                                                            *)

\* A refresh is awaited as soon as it is sent.
LEMMA Refreshing ==
  ASSUME NEW p, Sound(p), NEW t, NEW l, NEW others, Refresh(p, t, l, others)
  PROVE  Sound(page') /\ NothingStuck'
<1>1. page' = Prepared(p, t, l)
  BY DEF Refresh
<1>2. [trigger |-> t, left |-> l, plan |-> Plan(Prepared(p, t, l)), current |-> TRUE] \in inflight'
  BY DEF Refresh
<1>3. Awaiting'
  BY <1>2 DEF Awaiting
<1> QED BY <1>1, <1>3, Preparing DEF NothingStuck

LEMMA Loading ==
  ASSUME NEW on, on \subseteq Actions, NEW value, NEW rejected, Load(Rendered(on, value, rejected))
  PROVE  Sound(page') /\ NothingStuck'
<1> DEFINE p == Rendered(on, value, rejected)
<1>1. Sound(p) /\ p.disabled = {}
  BY Rendering
<1>2. IF Planned(p) # {} THEN Refresh(p, None, MaxFollowUps, {}) ELSE page' = p
  BY DEF Load
<1> HIDE DEF p
<1> QED BY <1>1, <1>2, Refreshing DEF NothingStuck

\* A page changed by the user without touching what is disabled.
LEMMA Changing ==
  ASSUME StuckInv, NEW p, NEW t, IsPage(p), p.checked \subseteq Actions,
         p.disabled = page.disabled, p.refused = page.refused, Protected(p) \subseteq Protected(page),
         saved' = saved, open' = open,
         \/ page' = p /\ inflight' = inflight /\ skipped' = skipped
         \/ Refresh(p, t, MaxFollowUps, inflight)
  PROVE  StuckInv'
<1>1. Sound(p)
  BY DEF StuckInv, Sound
<1>2. CASE page' = p /\ inflight' = inflight /\ skipped' = skipped
  BY <1>1, <1>2 DEF StuckInv, NothingStuck, Awaiting
<1>3. CASE Refresh(p, t, MaxFollowUps, inflight)
  BY <1>1, <1>3, Refreshing DEF StuckInv
<1> QED BY <1>2, <1>3

LEMMA Toggling ==
  ASSUME StuckInv, NEW a \in Actions, Toggle(a)
  PROVE  StuckInv'
<1> DEFINE isOn == a \notin page.checked
           checked == IF isOn THEN page.checked \union {a} ELSE page.checked \ {a}
           kept == page.kept \ {a}
           typed == [page.typed EXCEPT ![a] = IF isOn THEN @ ELSE 0]
           chosen == [page.chosen EXCEPT ![a] = IF isOn THEN @ ELSE 0]
           p == [page EXCEPT !.checked = checked, !.kept = kept,
                             !.typed = typed, !.chosen = chosen]
<1>1. /\ saved' = saved /\ open' = open
      /\ \/ page' = p /\ inflight' = inflight /\ skipped' = skipped
         \/ Refresh(p, a, MaxFollowUps, inflight)
  <2>1. p = [page EXCEPT !.checked = IF isOn THEN @ \union {a} ELSE @ \ {a},
                         !.kept = @ \ {a},
                         !.typed[a] = IF isOn THEN @ ELSE 0,
                         !.chosen[a] = IF isOn THEN @ ELSE 0]
    BY DEF StuckInv, Sound, IsPage
  <2> HIDE DEF p
  <2> QED BY <2>1 DEF Toggle
<1>2. checked \subseteq Actions /\ kept \intersect checked \subseteq Protected(page)
  BY DEF StuckInv, Sound, Protected
<1> HIDE DEF isOn, checked, kept, typed, chosen
<1>3. p = [checked |-> checked, disabled |-> page.disabled, refused |-> page.refused,
           kept |-> kept, banner |-> page.banner, typed |-> typed,
           chosen |-> chosen, live |-> page.live, pending |-> page.pending]
  <2>1. IsPage(page)
    BY DEF StuckInv, Sound
  <2>2. p = [page EXCEPT !.checked = checked, !.kept = kept, !.typed = typed, !.chosen = chosen]
    OBVIOUS
  <2> HIDE DEF p
  <2> QED BY <2>1, <2>2 DEF IsPage
<1>4. /\ IsPage(p) /\ p.disabled = page.disabled /\ p.refused = page.refused
      /\ p.checked = checked /\ p.kept = kept
  BY <1>3 DEF IsPage
<1> HIDE DEF p
<1>5. Protected(p) \subseteq Protected(page) /\ p.checked \subseteq Actions
  BY <1>2, <1>4 DEF Protected
<1> QED BY <1>1, <1>4, <1>5, Changing

LEMMA Typing ==
  ASSUME StuckInv, NEW a, NEW value, Type(a, value)
  PROVE  StuckInv'
<1> DEFINE typed == [page.typed EXCEPT ![a] = value]
           p == [page EXCEPT !.typed = typed, !.kept = page.kept \ {a}, !.pending = a]
<1>1. /\ saved' = saved /\ open' = open
      /\ page' = p /\ inflight' = inflight /\ skipped' = skipped
  BY DEF Type, StuckInv, Sound, IsPage
<1> HIDE DEF typed
<1>2. p = [checked |-> page.checked, disabled |-> page.disabled, refused |-> page.refused,
           kept |-> page.kept \ {a}, banner |-> page.banner, typed |-> typed,
           chosen |-> page.chosen, live |-> page.live, pending |-> a]
  <2>1. IsPage(page)
    BY DEF StuckInv, Sound
  <2> QED BY <2>1, TypedIn
<1>3. /\ IsPage(p) /\ p.disabled = page.disabled /\ p.refused = page.refused
      /\ p.checked \subseteq Actions /\ Protected(p) \subseteq Protected(page)
  BY <1>2 DEF IsPage, StuckInv, Sound, Protected
<1> HIDE DEF p
<1> QED BY <1>1, <1>3, Changing

LEMMA Flushing ==
  ASSUME StuckInv, Flush
  PROVE  StuckInv'
<1> DEFINE p == [page EXCEPT !.pending = None]
<1>1. /\ saved' = saved /\ open' = open
      /\ \/ page' = p /\ inflight' = inflight /\ skipped' = skipped
         \/ Refresh(p, page.pending, MaxFollowUps, inflight)
  BY DEF Flush
<1>2. p = [checked |-> page.checked, disabled |-> page.disabled, refused |-> page.refused,
           kept |-> page.kept, banner |-> page.banner, typed |-> page.typed,
           chosen |-> page.chosen, live |-> page.live, pending |-> None]
  BY DEF StuckInv, Sound, IsPage
<1>3. /\ IsPage(p) /\ p.disabled = page.disabled /\ p.refused = page.refused
      /\ p.checked \subseteq Actions /\ Protected(p) \subseteq Protected(page)
  BY <1>2 DEF IsPage, StuckInv, Sound, Protected
<1> HIDE DEF p
<1> QED BY <1>1, <1>3, Changing

LEMMA Answering ==
  ASSUME StuckInv, NEW r \in inflight, NEW told \in Answers, Answer(r, told)
  PROVE  StuckInv'
<1> DEFINE q == Apply(page, r.plan, told)
           d == IF r.trigger = None THEN q ELSE DisableOthers(q, r.trigger)
           left == Actions \ Heard(page, told)
<1>1. Sound(q) /\ q.disabled \subseteq q.refused \union left
  BY Applying DEF StuckInv
<1>2. /\ saved' = saved
      /\ \/ Refresh(d, r.trigger, r.left - 1, inflight \ {r})
         \/ page' = HideBanner(q, r.trigger) /\ skipped' = left
  BY DEF Answer
<1> HIDE DEF q, left
<1>3. Sound(d)
  BY <1>1, Disabling DEF Sound
<1> HIDE DEF d
<1>4. CASE Refresh(d, r.trigger, r.left - 1, inflight \ {r})
  BY <1>2, <1>3, <1>4, Refreshing DEF StuckInv
<1>5. CASE page' = HideBanner(q, r.trigger) /\ skipped' = left
  BY <1>1, <1>2, <1>5, BannerDown DEF StuckInv, NothingStuck
<1> QED BY <1>2, <1>4, <1>5

LEMMA Replying ==
  ASSUME StuckInv, Reply
  PROVE  StuckInv'
<1> PICK r \in inflight : Stale(r) \/ Fail(r) \/ \E told \in Answers : Answer(r, told)
  BY DEF Reply
<1>1. CASE Stale(r)
  BY <1>1 DEF Stale, StuckInv, NothingStuck, Awaiting
<1>2. CASE Fail(r)
  <2>1. page' = Recover(HideBanner(page, r.trigger)) /\ saved' = saved
    BY <1>2 DEF Fail
  <2>2. Sound(HideBanner(page, r.trigger))
    BY BannerDown DEF StuckInv
  <2> QED BY <2>1, <2>2, Recovering DEF StuckInv, NothingStuck
<1>3. ASSUME NEW told \in Answers, Answer(r, told) PROVE StuckInv'
  BY <1>3, Answering
<1> QED BY <1>1, <1>2, <1>3

LEMMA Redisplaying ==
  ASSUME StuckInv, Redisplay
  PROVE  StuckInv'
<1>1. saved' = saved /\ saved.on \subseteq Actions /\ Posted(page) \subseteq Actions
  BY DEF Redisplay, StuckInv, Sound, Posted
<1> HIDE DEF Posted
<1>2. Sound(page') /\ NothingStuck'
  BY <1>1, Loading DEF Redisplay
<1> QED BY <1>1, <1>2 DEF StuckInv

LEMMA Saving ==
  ASSUME StuckInv, NEW told, Save(told)
  PROVE  StuckInv'
<1>1. page' = page /\ open' = FALSE /\ saved' = [on |-> Posted(page), value |-> Entries(page, told)]
  BY DEF Save
<1>2. Posted(page) \subseteq Actions
  BY DEF StuckInv, Sound, Posted
<1> HIDE DEF Posted, Entries
<1> QED BY <1>1, <1>2 DEF StuckInv, NothingStuck

\* Whatever the user, the timer and the answers do, in whatever order, nothing
\* is left disabled without its reason once no answer is awaited, but for the
\* actions the last answer says nothing about.
THEOREM StuckCorrect == Spec => []NothingStuck
<1>1. Init => StuckInv
  <2> SUFFICES ASSUME Init PROVE StuckInv
    OBVIOUS
  <2>1. page = Rendered(saved.on, saved.value, FALSE) /\ saved \in Documents
    BY DEF Init
  <2>2. saved.on \subseteq Actions
    BY <2>1, DocumentAssumption DEF Selections
  <2> QED BY <2>1, <2>2, Rendering DEF StuckInv, NothingStuck
<1>2. StuckInv /\ [Next]_vars => StuckInv'
  <2> SUFFICES ASSUME StuckInv, [Next]_vars PROVE StuckInv'
    OBVIOUS
  <2>1. ASSUME NEW a \in Actions, Toggle(a) PROVE StuckInv'
    BY <2>1, Toggling
  <2>2. ASSUME NEW a \in Quantity, NEW value \in Typed, Type(a, value) PROVE StuckInv'
    BY <2>2, Typing
  <2>3. CASE Redisplay
    BY <2>3, Redisplaying
  <2>4. ASSUME NEW told, Save(told) PROVE StuckInv'
    BY <2>4, Saving
  <2>5. CASE Flush
    BY <2>5, Flushing
  <2>6. CASE Reply
    BY <2>6, Replying
  <2>7. CASE UNCHANGED vars
    BY <2>7 DEF vars, StuckInv, Sound, NothingStuck, Awaiting
  <2> QED BY <2>1, <2>2, <2>3, <2>4, <2>5, <2>6, <2>7 DEF Next, User
<1>3. StuckInv => NothingStuck
  BY DEF StuckInv
<1> QED BY <1>1, <1>2, <1>3, PTL DEF Spec
-----------------------------------------------------------------------------
(* Sums.  The library defines a sum by recursion over the subsets of a set.  *)
(* Each fact about it is proved for a smallest subset that would refute it.  *)

\* The sum over S as a function of the subsets: what a solution of the
\* equation that defines it is.
First(s) == CHOOSE x \in s : TRUE

Sums(f, S, g) ==
  g = [s \in SUBSET S |-> IF s = {} THEN 0 ELSE f[First(s)] + g[s \ {First(s)}]]

LEMMA SumIs ==
  ASSUME NEW f, NEW S
  PROVE  SumFunctionOnSet(f, S) = (CHOOSE g : Sums(f, S, g))[S]
BY DEF SumFunctionOnSet, FoldFunctionOnSet, MapThenFoldSet, Sums, First

LEMMA FirstIn == ASSUME NEW s, s # {} PROVE First(s) \in s
BY DEF First

\* Among the finite subsets of a set, each non-empty collection has a smallest.
LEMMA SmallestSubset ==
  ASSUME NEW S, IsFiniteSet(S), NEW T, T \subseteq SUBSET S, T # {}
  PROVE  \E s \in T : \A t \in T : t \subseteq s => t = s
<1> DEFINE R == StrictSubsetOrdering(S)
<1>1. IsWellFoundedOn(R, SUBSET S)
  BY FS_StrictSubsetOrderingWellFounded, FS_FiniteSubsetsOfFinite
<1>2. PICK s \in T : \A t \in T : ~ (<<t, s>> \in R)
  <2> HIDE DEF R
  <2> QED BY <1>1, WFMin
<1>3. \A t \in T : t \subseteq s => t = s
  BY <1>2 DEF StrictSubsetOrdering
<1> QED BY <1>3

\* The equation has one solution at most.
LEMMA SumsUnique ==
  ASSUME NEW f, NEW S, IsFiniteSet(S), NEW g, NEW h, Sums(f, S, g), Sums(f, S, h)
  PROVE  g = h
<1> DEFINE T == {s \in SUBSET S : g[s] # h[s]}
<1>1. CASE T = {}
  BY <1>1 DEF Sums
<1>2. CASE T # {}
  <2>1. PICK s \in T : \A t \in T : t \subseteq s => t = s
    <3>1. T \subseteq SUBSET S
      OBVIOUS
    <3> HIDE DEF T
    <3> QED BY <1>2, <3>1, SmallestSubset
  <2>2. /\ g[s] = IF s = {} THEN 0 ELSE f[First(s)] + g[s \ {First(s)}]
        /\ h[s] = IF s = {} THEN 0 ELSE f[First(s)] + h[s \ {First(s)}]
    BY DEF Sums
  <2>3. s # {}
    BY <2>2
  <2>4. s \ {First(s)} \in SUBSET S /\ s \ {First(s)} # s /\ s \ {First(s)} \subseteq s
    BY <2>3, FirstIn
  <2>5. g[s \ {First(s)}] = h[s \ {First(s)}]
    BY <2>1, <2>4
  <2> QED BY <2>2, <2>5
<1> QED BY <1>1, <1>2

\* The sum obeys the equation it is defined by.
LEMMA SumEquation ==
  ASSUME NEW f, NEW S, IsFiniteSet(S)
  PROVE  SumFunctionOnSet(f, S) =
           IF S = {} THEN 0 ELSE f[First(S)] + SumFunctionOnSet(f, S \ {First(S)})
<1> DEFINE Step(s) == IF s = {} THEN 0 ELSE f[First(s)] + SumFunctionOnSet(f, s \ {First(s)})
           T == {s \in SUBSET S : SumFunctionOnSet(f, s) # Step(s)}
<1>1. CASE T = {}
  BY <1>1
<1>2. CASE T # {}
  <2>1. PICK s \in T : \A t \in T : t \subseteq s => t = s
    <3>1. T \subseteq SUBSET S
      OBVIOUS
    <3> HIDE DEF T
    <3> QED BY <1>2, <3>1, SmallestSubset
  <2> DEFINE h == [t \in SUBSET s |-> IF t = s THEN Step(s) ELSE SumFunctionOnSet(f, t)]
  <2>2. ASSUME NEW t \in SUBSET s
        PROVE  h[t] = IF t = {} THEN 0 ELSE f[First(t)] + h[t \ {First(t)}]
    <3> HIDE DEF Step
    <3>1. h[t] = Step(t)
      BY <2>1
    <3>2. t # {} => t \ {First(t)} \in SUBSET s /\ t \ {First(t)} # s
      BY FirstIn
    <3>3. t # {} => h[t \ {First(t)}] = SumFunctionOnSet(f, t \ {First(t)})
      BY <3>2
    <3> HIDE DEF h
    <3> QED BY <3>1, <3>3 DEF Step
  <2>3. Sums(f, s, h)
    <3>1. h = [t \in SUBSET s |-> h[t]]
      OBVIOUS
    <3> HIDE DEF h
    <3> QED BY <2>2, <3>1 DEF Sums
  <2> DEFINE g == CHOOSE u : Sums(f, s, u)
  <2>4. Sums(f, s, g)
    <3> HIDE DEF h
    <3> QED BY <2>3
  <2>5. g = h
    <3>1. IsFiniteSet(s)
      BY FS_Subset
    <3> HIDE DEF g, h
    <3> QED BY <2>3, <2>4, <3>1, SumsUnique
  <2>6. SumFunctionOnSet(f, s) = h[s]
    BY <2>5, SumIs
  <2>7. h[s] = Step(s)
    OBVIOUS
  <2> QED BY <2>6, <2>7
<1> QED BY <1>1, <1>2

LEMMA SumOfNone ==
  ASSUME NEW f
  PROVE  SumFunctionOnSet(f, {}) = 0
BY SumEquation, FS_EmptySet

LEMMA SumNatural ==
  ASSUME NEW S, IsFiniteSet(S), NEW f, \A s \in S : f[s] \in Nat
  PROVE  SumFunctionOnSet(f, S) \in Nat
<1> DEFINE T == {s \in SUBSET S : SumFunctionOnSet(f, s) \notin Nat}
<1>1. CASE T # {}
  <2>1. PICK s \in T : \A t \in T : t \subseteq s => t = s
    <3>1. T \subseteq SUBSET S
      OBVIOUS
    <3> HIDE DEF T
    <3> QED BY <1>1, <3>1, SmallestSubset
  <2>2. SumFunctionOnSet(f, s) =
          IF s = {} THEN 0 ELSE f[First(s)] + SumFunctionOnSet(f, s \ {First(s)})
    BY SumEquation, FS_Subset
  <2>3. s # {} => First(s) \in s /\ s \ {First(s)} \in SUBSET S /\ s \ {First(s)} # s
    BY FirstIn
  <2>4. s # {} => f[First(s)] \in Nat /\ SumFunctionOnSet(f, s \ {First(s)}) \in Nat
    BY <2>1, <2>3
  <2> QED BY <2>2, <2>4
<1> QED BY <1>1

\* Any element may be taken out first.
LEMMA SumSplit ==
  ASSUME NEW S, IsFiniteSet(S), NEW f, \A s \in S : f[s] \in Nat, NEW a \in S
  PROVE  SumFunctionOnSet(f, S) = f[a] + SumFunctionOnSet(f, S \ {a})
<1> DEFINE Sum(s) == SumFunctionOnSet(f, s)
           T == {s \in SUBSET S : \E b \in s : Sum(s) # f[b] + Sum(s \ {b})}
<1>1. CASE T = {}
  BY <1>1
<1>2. CASE T # {}
  <2>1. PICK s \in T : \A t \in T : t \subseteq s => t = s
    <3>1. T \subseteq SUBSET S
      OBVIOUS
    <3> HIDE DEF T
    <3> QED BY <1>2, <3>1, SmallestSubset
  <2>2. PICK b \in s : Sum(s) # f[b] + Sum(s \ {b})
    BY <2>1
  <2> DEFINE c == First(s)
             r == s \ {b, c}
  <2>3. c \in s /\ s \subseteq S /\ IsFiniteSet(s)
    BY FirstIn, FS_Subset
  <2>4. Sum(s) = f[c] + Sum(s \ {c})
    BY <2>3, SumEquation
  <2>5. b # c
    BY <2>2, <2>4
  <2> HIDE DEF c, Sum
  <2>6. ASSUME NEW t, t \subseteq s, t # s, NEW d \in t
        PROVE  Sum(t) = f[d] + Sum(t \ {d})
    BY <2>1, <2>6
  <2>7. Sum(s \ {c}) = f[b] + Sum(r) /\ Sum(s \ {b}) = f[c] + Sum(r)
    <3>1. (s \ {c}) \ {b} = r /\ (s \ {b}) \ {c} = r /\ b \in s \ {c} /\ c \in s \ {b}
      BY <2>3, <2>5
    <3>2. s \ {c} # s /\ s \ {b} # s
      BY <2>3
    <3> HIDE DEF r
    <3>3. Sum(s \ {c}) = f[b] + Sum((s \ {c}) \ {b})
      BY <2>6, <3>1, <3>2
    <3>4. Sum(s \ {b}) = f[c] + Sum((s \ {b}) \ {c})
      BY <2>6, <3>1, <3>2
    <3> QED BY <3>1, <3>3, <3>4
  <2>8. f[b] \in Nat /\ f[c] \in Nat /\ Sum(r) \in Nat
    BY <2>3, SumNatural, FS_Subset DEF Sum
  <2> QED BY <2>2, <2>4, <2>7, <2>8
<1> QED BY <1>1, <1>2

LEMMA SumMonotone ==
  ASSUME NEW S, IsFiniteSet(S), NEW f, NEW g,
         \A s \in S : f[s] \in Nat /\ g[s] \in Nat /\ f[s] <= g[s]
  PROVE  SumFunctionOnSet(f, S) <= SumFunctionOnSet(g, S)
<1> DEFINE T == {s \in SUBSET S : ~ (SumFunctionOnSet(f, s) <= SumFunctionOnSet(g, s))}
<1>1. CASE T # {}
  <2>1. PICK s \in T : \A t \in T : t \subseteq s => t = s
    <3>1. T \subseteq SUBSET S
      OBVIOUS
    <3> HIDE DEF T
    <3> QED BY <1>1, <3>1, SmallestSubset
  <2> DEFINE c == First(s)
             r == s \ {c}
  <2>2. s # {}
    <3>1. SumFunctionOnSet(f, {}) = 0 /\ SumFunctionOnSet(g, {}) = 0
      BY SumOfNone
    <3>2. SumFunctionOnSet(f, {}) <= SumFunctionOnSet(g, {})
      BY <3>1
    <3> QED BY <2>1, <3>2
  <2>3. c \in s /\ s \subseteq S /\ IsFiniteSet(s) /\ r \subseteq S /\ IsFiniteSet(r) /\ r # s
    BY <2>2, FirstIn, FS_Subset
  <2> HIDE DEF c
  <2>4. SumFunctionOnSet(f, r) <= SumFunctionOnSet(g, r)
    BY <2>1, <2>3
  <2>5. SumFunctionOnSet(f, s) = f[c] + SumFunctionOnSet(f, r)
    BY <2>3, SumSplit
  <2>6. SumFunctionOnSet(g, s) = g[c] + SumFunctionOnSet(g, r)
    BY <2>3, SumSplit
  <2>7. /\ SumFunctionOnSet(f, r) \in Nat /\ SumFunctionOnSet(g, r) \in Nat
        /\ f[c] \in Nat /\ g[c] \in Nat /\ f[c] <= g[c]
    BY <2>3, SumNatural
  <2> HIDE DEF r
  <2>8. SumFunctionOnSet(f, s) <= SumFunctionOnSet(g, s)
    BY <2>4, <2>5, <2>6, <2>7
  <2> QED BY <2>8, <2>1
<1> QED BY <1>1

\* Functions equal on the set have the same sum: no two sets of summands differ.
LEMMA SumBounded ==
  ASSUME NEW S, IsFiniteSet(S), NEW f, NEW g, NEW x, NEW d \in Nat,
         \A s \in S : f[s] \in Nat /\ g[s] \in Nat /\ f[s] <= g[s] + (IF s = x THEN d ELSE 0)
  PROVE  SumFunctionOnSet(f, S) <= SumFunctionOnSet(g, S) + (IF x \in S THEN d ELSE 0)
<1>1. CASE x \notin S
  BY <1>1, SumMonotone, SumNatural
<1>2. CASE x \in S
  <2> DEFINE r == S \ {x}
  <2>1. IsFiniteSet(r) /\ r \subseteq S
    BY FS_Subset
  <2>2. SumFunctionOnSet(f, S) = f[x] + SumFunctionOnSet(f, r)
    BY <1>2, SumSplit
  <2>3. SumFunctionOnSet(g, S) = g[x] + SumFunctionOnSet(g, r)
    BY <1>2, SumSplit
  <2>4. SumFunctionOnSet(f, r) <= SumFunctionOnSet(g, r)
    BY <2>1, SumMonotone
  <2>5. /\ SumFunctionOnSet(f, r) \in Nat /\ SumFunctionOnSet(g, r) \in Nat
        /\ f[x] \in Nat /\ g[x] \in Nat /\ f[x] <= g[x] + d
    BY <1>2, <2>1, SumNatural
  <2> HIDE DEF r
  <2> QED BY <1>2, <2>2, <2>3, <2>4, <2>5
<1> QED BY <1>1, <1>2

-----------------------------------------------------------------------------
(* What is left under a plan.                                                *)

LEMMA ActionsFinite == IsFiniteSet(Actions) /\ Actions \subseteq Nat
BY FS_Interval, SizeAssumption DEF Actions

LEMMA CompetingFinite ==
  ASSUME NEW a \in Actions
  PROVE  /\ IsFiniteSet(Competing(a)) /\ Competing(a) \subseteq Actions /\ a \in Competing(a)
         /\ \A b \in Competing(a) : Competing(b) = Competing(a)
<1>1. Competing(a) \subseteq Actions /\ a \in Competing(a)
  BY DEF Competing
<1>2. \A b \in Competing(a) : Competing(b) = Competing(a)
  BY DEF Competing
<1> HIDE DEF Competing
<1> QED BY <1>1, <1>2, ActionsFinite, FS_Subset

LEMMA PositivePart ==
  ASSUME NEW x \in Int
  PROVE  Max({0, x}) = IF x > 0 THEN x ELSE 0
<1>1. ASSUME NEW y \in {0, x}, \A z \in {0, x} : y >= z
      PROVE  y = IF x > 0 THEN x ELSE 0
  BY <1>1
<1>2. \E y \in {0, x} : \A z \in {0, x} : y >= z
  <2>1. CASE x > 0
    BY <2>1
  <2>2. CASE ~ (x > 0)
    BY <2>2
  <2> QED BY <2>1, <2>2
<1> QED BY <1>1, <1>2 DEF Max

\* What is left is an area, and with the claim of the action itself no more
\* than there is.
LEMMA LeftBounds ==
  ASSUME NEW plan \in [Actions -> Nat], NEW a \in Actions
  PROVE  /\ SumFunctionOnSet(plan, Competing(a)) \in Nat
         /\ Left(a, plan) \in 0..Area
         /\ Left(a, plan) = IF Area > SumFunctionOnSet(plan, Competing(a))
                            THEN Area - SumFunctionOnSet(plan, Competing(a)) ELSE 0
         /\ plan[a] <= SumFunctionOnSet(plan, Competing(a))
         /\ Left(a, plan) > 0 => plan[a] + Left(a, plan) \in 0..Area
<1> DEFINE sum == SumFunctionOnSet(plan, Competing(a))
<1>1. /\ IsFiniteSet(Competing(a)) /\ Competing(a) \subseteq Actions /\ a \in Competing(a)
      /\ IsFiniteSet(Competing(a) \ {a})
  BY CompetingFinite, FS_Subset
<1>2. \A b \in Competing(a) : plan[b] \in Nat
  BY <1>1
<1>3. sum \in Nat
  BY <1>1, <1>2, SumNatural
<1>4. sum = plan[a] + SumFunctionOnSet(plan, Competing(a) \ {a})
  BY <1>1, <1>2, SumSplit
<1>5. SumFunctionOnSet(plan, Competing(a) \ {a}) \in Nat /\ plan[a] \in Nat
  BY <1>1, <1>2, SumNatural
<1>6. plan[a] <= sum
  BY <1>3, <1>4, <1>5
<1>7. Left(a, plan) = Max({0, Area - sum})
  BY DEF Left
<1> HIDE DEF sum
<1>8. Left(a, plan) = IF Area > sum THEN Area - sum ELSE 0
  BY <1>3, <1>7, PositivePart, SizeAssumption
<1> QED BY <1>3, <1>5, <1>6, <1>8, SizeAssumption DEF sum

\* Nothing claimed leaves everything.
LEMMA LeftOfAll ==
  ASSUME NEW plan \in [Actions -> Nat], \A a \in Actions : plan[a] = 0, NEW a \in Actions
  PROVE  Left(a, plan) = Area
<1> DEFINE S == Competing(a)
<1>1. IsFiniteSet(S) /\ S \subseteq Actions
  BY CompetingFinite
<1>2. \A s \in S : plan[s] = 0
  BY <1>1
<1> DEFINE T == {s \in SUBSET S : SumFunctionOnSet(plan, s) # 0}
<1>3. CASE T # {}
  <2>1. PICK s \in T : \A t \in T : t \subseteq s => t = s
    <3>1. T \subseteq SUBSET S
      OBVIOUS
    <3> HIDE DEF T, S
    <3> QED BY <1>1, <1>3, <3>1, SmallestSubset
  <2>2. s # {}
    BY <2>1, SumOfNone
  <2> DEFINE c == First(s)
             r == s \ {c}
  <2>3. c \in s /\ s \subseteq S /\ IsFiniteSet(s) /\ r \subseteq S /\ r # s
    BY <1>1, <2>2, FirstIn, FS_Subset
  <2> HIDE DEF c
  <2>4. SumFunctionOnSet(plan, r) = 0
    BY <2>1, <2>3
  <2>5. SumFunctionOnSet(plan, s) = plan[c] + SumFunctionOnSet(plan, r)
    BY <1>2, <2>3, SumSplit
  <2> QED BY <1>2, <2>1, <2>3, <2>4, <2>5
<1>4. CASE T = {}
  <2>1. SumFunctionOnSet(plan, S) = 0
    BY <1>4
  <2> QED BY <2>1, LeftBounds, SizeAssumption
<1> QED BY <1>3, <1>4

-----------------------------------------------------------------------------
(* The pages the operators leave, field by field.                            *)

Unconfirmed(p) == {a \in (Quantity \intersect p.checked) \ Protected(p) : ValidTyped(p, a) = 0}
Lost(p) == {a \in Unconfirmed(p) : p.chosen[a] = 0}

LEMMA Reverted ==
  ASSUME NEW p, IsPage(p)
  PROVE  RevertUnconfirmed(p) =
           [checked |-> p.checked \ Lost(p), disabled |-> p.disabled, refused |-> p.refused,
            kept |-> p.kept, banner |-> p.banner,
            typed |-> [a \in Actions |-> IF a \in Unconfirmed(p) THEN p.chosen[a] ELSE p.typed[a]],
            chosen |-> p.chosen, live |-> p.live, pending |-> p.pending]
<1> DEFINE typed == [a \in Actions |-> IF a \in Unconfirmed(p) THEN p.chosen[a] ELSE p.typed[a]]
           lost == Lost(p)
<1>1. RevertUnconfirmed(p) = [p EXCEPT !.typed = typed, !.checked = p.checked \ lost]
  BY DEF RevertUnconfirmed, Unconfirmed, Lost
<1> HIDE DEF typed, lost
<1>2. RevertUnconfirmed(p) =
        [checked |-> p.checked \ lost, disabled |-> p.disabled, refused |-> p.refused,
         kept |-> p.kept, banner |-> p.banner, typed |-> typed,
         chosen |-> p.chosen, live |-> p.live, pending |-> p.pending]
  BY <1>1 DEF IsPage
<1> QED BY <1>2 DEF typed, lost

Others(p, t) == Actions \ (Protected(p) \union {t})

LEMMA Disabled ==
  ASSUME NEW p, IsPage(p), NEW t
  PROVE  DisableOthers(p, t) =
           [checked |-> p.checked, disabled |-> p.disabled \union Others(p, t), refused |-> p.refused,
            kept |-> p.kept, banner |-> p.banner, typed |-> p.typed,
            chosen |-> p.chosen, live |-> p.live, pending |-> p.pending]
<1> DEFINE d == Others(p, t)
<1>1. DisableOthers(p, t) = [p EXCEPT !.disabled = p.disabled \union d]
  BY DEF DisableOthers, Others
<1> HIDE DEF d
<1>2. DisableOthers(p, t) =
        [checked |-> p.checked, disabled |-> p.disabled \union d, refused |-> p.refused,
         kept |-> p.kept, banner |-> p.banner, typed |-> p.typed,
         chosen |-> p.chosen, live |-> p.live, pending |-> p.pending]
  BY <1>1 DEF IsPage
<1> QED BY <1>2 DEF d

LEMMA Bannered ==
  ASSUME NEW p, IsPage(p), NEW b
  PROVE  [p EXCEPT !.banner = b] =
           [checked |-> p.checked, disabled |-> p.disabled, refused |-> p.refused,
            kept |-> p.kept, banner |-> b, typed |-> p.typed,
            chosen |-> p.chosen, live |-> p.live, pending |-> p.pending]
BY DEF IsPage

\* The claims an answer may change.
Own(p, told) == (p.checked \intersect told.measured) \ Protected(p)

\* What each action holds once an answer to a plan is applied, and the
\* actions the answer leaves unavailable.
Held(p, plan, told) ==
  [a \in Actions |->
     IF a \notin Own(p, told) \/ (a \in Quantity /\ plan[a] = 0) THEN p.chosen[a]
     ELSE plan[a] + (IF a \in Growers(p, plan, told) THEN Left(a, plan) ELSE 0)]

Gone(p, plan, told) ==
  {a \in told.measured \ p.checked :
     \/ Left(a, plan) = 0
     \/ a \in Quantity /\ Left(a, plan) < ValidTyped(p, a)}
  \union {a \in Own(p, told) \ Quantity : Held(p, plan, told)[a] = 0}

Freed(p, plan, told) == Heard(p, told) \ Gone(p, plan, told)

Shown(p, plan, told) ==
  [a \in Actions |-> IF a \in told.measured THEN Left(a, plan) ELSE p.live[a]]

LEMMA Applied ==
  ASSUME NEW p, IsPage(p), NEW plan, NEW told \in Answers
  PROVE  LET gone == Gone(p, plan, told)
             free == Freed(p, plan, told)
         IN /\ told.measured \subseteq Actions /\ gone \subseteq told.measured
            /\ gone \intersect p.checked \subseteq Own(p, told) \ Quantity
            /\ told.measured \ gone \subseteq free
            /\ Apply(p, plan, told) =
                 [checked |-> p.checked \ gone, disabled |-> (p.disabled \ free) \union gone,
                  refused |-> (p.refused \ free) \union gone,
                  kept |-> p.kept, banner |-> p.banner,
                  typed |-> [a \in Actions |-> IF a \in gone THEN 0 ELSE p.typed[a]],
                  chosen |-> [a \in Actions |-> IF a \in gone THEN 0 ELSE Held(p, plan, told)[a]],
                  live |-> Shown(p, plan, told), pending |-> p.pending]
<1> DEFINE gone == Gone(p, plan, told)
           free == Freed(p, plan, told)
           live == Shown(p, plan, told)
           held == Held(p, plan, told)
           r == [p EXCEPT !.live = live, !.chosen = held]
           typed == [a \in Actions |-> IF a \in gone THEN 0 ELSE p.typed[a]]
           chosen == [a \in Actions |-> IF a \in gone THEN 0 ELSE held[a]]
           refused == (p.refused \ free) \union gone
           disabled == (p.disabled \ free) \union gone
<1>1. told.measured \subseteq Actions
  BY AnswerAssumption
<1>2. /\ gone \subseteq told.measured
      /\ gone \intersect p.checked \subseteq Own(p, told) \ Quantity
      /\ told.measured \ gone \subseteq free
  BY DEF Gone, Own, Freed, Heard
<1>3. Apply(p, plan, told) = Mark(r, gone, free)
  BY DEF Apply, Gone, Held, Own, Freed, Shown
<1> HIDE DEF gone, free, live, held
<1>4. r = [checked |-> p.checked, disabled |-> p.disabled, refused |-> p.refused,
           kept |-> p.kept, banner |-> p.banner, typed |-> p.typed,
           chosen |-> held, live |-> live, pending |-> p.pending]
  BY Claimed
<1> HIDE DEF r
<1>5. Mark(r, gone, free) =
        [r EXCEPT !.checked = p.checked \ gone, !.disabled = disabled,
                  !.refused = refused, !.chosen = chosen, !.typed = typed]
  BY <1>4 DEF Mark
<1> HIDE DEF typed, chosen, refused, disabled
<1>6. Mark(r, gone, free) =
        [checked |-> p.checked \ gone, disabled |-> disabled, refused |-> refused,
         kept |-> p.kept, banner |-> p.banner, typed |-> typed,
         chosen |-> chosen, live |-> live, pending |-> p.pending]
  BY <1>4, <1>5
<1> QED BY <1>1, <1>2, <1>3, <1>6 DEF gone, free, live, held, typed, chosen, refused, disabled

LEMMA Recovered ==
  ASSUME NEW p, IsPage(p)
  PROVE  Recover(p) =
           [checked |-> p.checked, disabled |-> p.disabled \ (Actions \ Protected(p)),
            refused |-> p.refused \ (Actions \ Protected(p)),
            kept |-> p.kept, banner |-> p.banner, typed |-> p.typed,
            chosen |-> p.chosen, live |-> p.live, pending |-> p.pending]
<1> DEFINE free == Actions \ Protected(p)
<1>1. Recover(p) = [p EXCEPT !.disabled = p.disabled \ free, !.refused = p.refused \ free]
  BY DEF Recover
<1> HIDE DEF free
<1>2. Recover(p) =
        [checked |-> p.checked, disabled |-> p.disabled \ free, refused |-> p.refused \ free,
         kept |-> p.kept, banner |-> p.banner, typed |-> p.typed,
         chosen |-> p.chosen, live |-> p.live, pending |-> p.pending]
  BY <1>1 DEF IsPage
<1> QED BY <1>2 DEF free

-----------------------------------------------------------------------------
(* Type correctness.                                                         *)

LEMMA PageIs == ASSUME NEW p \in Pages PROVE IsPage(p)
BY DEF Pages, IsPage

LEMMA ClaimType ==
  ASSUME NEW p \in Pages, NEW a \in Actions
  PROVE  Claim(p, a) \in 0..Area /\ ValidTyped(p, a) \in 0..Area
BY SizeAssumption DEF Claim, ValidTyped, Pages, Quantities

LEMMA PlanType ==
  ASSUME NEW p \in Pages
  PROVE  Plan(p) \in Quantities
<1>1. \A a \in Actions : Claim(p, a) \in 0..Area
  BY ClaimType
<1> QED BY <1>1, SizeAssumption DEF Plan, Quantities

LEMMA RevertedType ==
  ASSUME NEW p \in Pages
  PROVE  RevertUnconfirmed(p) \in Pages
<1>1. [a \in Actions |-> IF a \in Unconfirmed(p) THEN p.chosen[a] ELSE p.typed[a]]
        \in [Actions -> 0..Area + 1]
  BY SizeAssumption DEF Pages, Quantities
<1>2. p.checked \ Lost(p) \subseteq Actions
  BY DEF Pages
<1> HIDE DEF Lost, Unconfirmed
<1> QED BY <1>1, <1>2, PageIs, Reverted DEF Pages

LEMMA DisabledType ==
  ASSUME NEW p \in Pages, NEW t
  PROVE  DisableOthers(p, t) \in Pages
<1>1. p.disabled \union Others(p, t) \subseteq Actions
  BY DEF Pages, Others
<1> HIDE DEF Others
<1> QED BY <1>1, PageIs, Disabled DEF Pages

LEMMA BannerType ==
  ASSUME NEW p \in Pages, NEW b \in SUBSET Actions
  PROVE  [p EXCEPT !.banner = b] \in Pages
BY DEF Pages

LEMMA HeldType ==
  ASSUME NEW p \in Pages, NEW plan \in Quantities, NEW told \in Answers
  PROVE  Held(p, plan, told) \in Quantities
<1> SUFFICES ASSUME NEW a \in Actions
             PROVE  (IF a \notin Own(p, told) \/ (a \in Quantity /\ plan[a] = 0) THEN p.chosen[a]
                     ELSE plan[a] + (IF a \in Growers(p, plan, told) THEN Left(a, plan) ELSE 0))
                    \in 0..Area
  BY DEF Held, Quantities
<1>1. /\ Left(a, plan) \in 0..Area
      /\ Left(a, plan) > 0 => plan[a] + Left(a, plan) \in 0..Area
  BY LeftBounds, SizeAssumption DEF Quantities
<1>2. p.chosen[a] \in 0..Area /\ plan[a] \in 0..Area
  BY DEF Pages, Quantities
<1> QED BY <1>1, <1>2, SizeAssumption

LEMMA AppliedType ==
  ASSUME NEW p \in Pages, NEW plan \in Quantities, NEW told \in Answers
  PROVE  Apply(p, plan, told) \in Pages
<1> DEFINE gone == Gone(p, plan, told)
           free == Freed(p, plan, told)
           held == Held(p, plan, told)
           live == Shown(p, plan, told)
           typed == [a \in Actions |-> IF a \in gone THEN 0 ELSE p.typed[a]]
           chosen == [a \in Actions |-> IF a \in gone THEN 0 ELSE held[a]]
<1>1. IsPage(p)
  BY PageIs
<1>2. gone \subseteq Actions
  BY <1>1, Applied
<1>3. typed \in [Actions -> 0..Area + 1]
  BY SizeAssumption DEF Pages
<1>4. chosen \in Quantities
  BY HeldType, SizeAssumption DEF Quantities
<1>5. live \in Quantities
  BY LeftBounds, SizeAssumption DEF Quantities, Shown, Pages
<1>6. Apply(p, plan, told) =
        [checked |-> p.checked \ gone, disabled |-> (p.disabled \ free) \union gone,
         refused |-> (p.refused \ free) \union gone,
         kept |-> p.kept, banner |-> p.banner, typed |-> typed,
         chosen |-> chosen, live |-> live, pending |-> p.pending]
  BY <1>1, Applied
<1> HIDE DEF gone, free, held, live, typed, chosen
<1> QED BY <1>2, <1>3, <1>4, <1>5, <1>6 DEF Pages

LEMMA RecoveredType ==
  ASSUME NEW p \in Pages
  PROVE  Recover(p) \in Pages
BY PageIs, Recovered DEF Pages

LEMMA RenderedType ==
  ASSUME NEW on \in SUBSET Actions, NEW value \in [Actions -> 0..Area + 1], NEW rejected
  PROVE  Rendered(on, value, rejected) \in Pages
<1>1. [a \in Actions |-> IF a \in on \intersect Quantity THEN value[a] ELSE 0]
        \in [Actions -> 0..Area + 1]
  BY SizeAssumption
<1>2. [a \in Actions |-> IF a \in on /\ value[a] <= Area THEN value[a] ELSE 0] \in Quantities
  BY SizeAssumption DEF Quantities
<1>3. [a \in Actions |-> Area] \in Quantities
  BY SizeAssumption DEF Quantities
<1>4. (IF rejected THEN on ELSE {}) \subseteq Actions
  OBVIOUS
<1> QED BY <1>1, <1>2, <1>3, <1>4 DEF Rendered, Pages

LEMMA PreparedType ==
  ASSUME NEW p \in Pages, NEW t \in Actions \union {None}, NEW l
  PROVE  Prepared(p, t, l) \in Pages
<1> DEFINE q == RevertUnconfirmed(p)
           b == [q EXCEPT !.banner = q.banner \union {t}]
<1>1. q \in Pages
  BY RevertedType
<1> HIDE DEF q
<1>2. t # None => b \in Pages
  <2>1. t # None => q.banner \union {t} \in SUBSET Actions
    BY <1>1 DEF Pages
  <2> QED BY <1>1, <2>1, BannerType
<1> HIDE DEF b
<1>3. t # None => DisableOthers(b, t) \in Pages
  BY <1>2, DisabledType
<1>4. Prepared(p, t, l) = IF t # None /\ l = MaxFollowUps THEN DisableOthers(b, t) ELSE q
  BY DEF Prepared, q, b
<1> QED BY <1>1, <1>3, <1>4

LEMMA RefreshType ==
  ASSUME NEW p \in Pages, NEW t \in Actions \union {None}, NEW l \in 0..MaxFollowUps,
         NEW others, Refresh(p, t, l, others)
  PROVE  /\ page' \in Pages /\ inflight' \subseteq Requests
         /\ synced' \subseteq Actions /\ skipped' \subseteq Actions
<1> DEFINE sent == Prepared(p, t, l)
           plan == Plan(sent)
           zero == [a \in Actions |-> 0]
<1>1. sent \in Pages
  BY PreparedType
<1> HIDE DEF sent
<1>2. plan \in Quantities /\ zero \in Quantities
  BY <1>1, PlanType, SizeAssumption DEF Quantities
<1>3. /\ page' = sent /\ synced' = {} /\ skipped' = {}
      /\ inflight' = Outdated(others)
           \union {[trigger |-> t, left |-> l, plan |-> plan, current |-> TRUE]}
  BY DEF Refresh, sent
<1>4. \A r \in Outdated(others) : r = [trigger |-> None, left |-> 0, plan |-> zero, current |-> FALSE]
  BY DEF Outdated
<1> HIDE DEF plan, zero
<1>5. [trigger |-> None, left |-> 0, plan |-> zero, current |-> FALSE] \in Requests
  BY <1>2, SizeAssumption DEF Requests
<1>6. [trigger |-> t, left |-> l, plan |-> plan, current |-> TRUE] \in Requests
  BY <1>2 DEF Requests
<1> QED BY <1>1, <1>3, <1>4, <1>5, <1>6

LEMMA LoadType ==
  ASSUME NEW on \in SUBSET Actions, NEW value \in [Actions -> 0..Area + 1], NEW rejected,
         Load(Rendered(on, value, rejected))
  PROVE  /\ page' \in Pages /\ inflight' \subseteq Requests
         /\ synced' \subseteq Actions /\ skipped' \subseteq Actions
<1> DEFINE p == Rendered(on, value, rejected)
<1>1. p \in Pages
  BY RenderedType
<1>2. \/ Refresh(p, None, MaxFollowUps, {})
      \/ page' = p /\ inflight' = {} /\ synced' = Actions /\ skipped' = {}
  BY DEF Load
<1> HIDE DEF p
<1>3. MaxFollowUps \in 0..MaxFollowUps
  BY SizeAssumption
<1> QED BY <1>1, <1>2, <1>3, RefreshType

\* What the form posts, as the page shows it again or as it is stored.
LEMMA PostedType ==
  ASSUME TypeOK
  PROVE  /\ Posted(page) \in SUBSET Actions
         /\ PostedPlan(page) \in [Actions -> 0..Area + 1]
         /\ saved.on \in SUBSET Actions /\ saved.value \in Quantities
         /\ Quantities \subseteq [Actions -> 0..Area + 1]
BY SizeAssumption DEF TypeOK, Pages, Posted, PostedPlan, FieldValue, Quantities, Selections

LEMMA TogglePage ==
  ASSUME page \in Pages, NEW a \in Actions
  PROVE  LET isOn == a \notin page.checked
         IN [page EXCEPT !.checked = IF isOn THEN @ \union {a} ELSE @ \ {a},
                         !.kept = @ \ {a},
                         !.typed[a] = IF isOn THEN @ ELSE 0,
                         !.chosen[a] = IF isOn THEN @ ELSE 0] =
            [checked |-> IF isOn THEN page.checked \union {a} ELSE page.checked \ {a},
             disabled |-> page.disabled, refused |-> page.refused,
             kept |-> page.kept \ {a}, banner |-> page.banner,
             typed |-> [page.typed EXCEPT ![a] = IF isOn THEN @ ELSE 0],
             chosen |-> [page.chosen EXCEPT ![a] = IF isOn THEN @ ELSE 0],
             live |-> page.live, pending |-> page.pending]
<1> DEFINE isOn == a \notin page.checked
           typed == [page.typed EXCEPT ![a] = IF isOn THEN @ ELSE 0]
           chosen == [page.chosen EXCEPT ![a] = IF isOn THEN @ ELSE 0]
           checked == IF isOn THEN page.checked \union {a} ELSE page.checked \ {a}
           p == [page EXCEPT !.checked = checked, !.kept = page.kept \ {a},
                             !.typed = typed, !.chosen = chosen]
<1>1. IsPage(page)
  BY PageIs
<1>2. p = [page EXCEPT !.checked = IF isOn THEN @ \union {a} ELSE @ \ {a},
                       !.kept = @ \ {a},
                       !.typed[a] = IF isOn THEN @ ELSE 0,
                       !.chosen[a] = IF isOn THEN @ ELSE 0]
  BY <1>1 DEF IsPage
<1> HIDE DEF typed, chosen, checked
<1>3. p = [checked |-> checked, disabled |-> page.disabled, refused |-> page.refused,
           kept |-> page.kept \ {a}, banner |-> page.banner, typed |-> typed,
           chosen |-> chosen, live |-> page.live, pending |-> page.pending]
  <2>1. p = [page EXCEPT !.checked = checked, !.kept = page.kept \ {a},
                         !.typed = typed, !.chosen = chosen]
    OBVIOUS
  <2> HIDE DEF p
  <2> QED BY <1>1, <2>1 DEF IsPage
<1> HIDE DEF p
<1> QED BY <1>2, <1>3 DEF typed, chosen, checked

LEMMA TypedPage ==
  ASSUME page \in Pages, NEW a, NEW value
  PROVE  [page EXCEPT !.typed[a] = value, !.kept = @ \ {a}, !.pending = a] =
           [checked |-> page.checked, disabled |-> page.disabled, refused |-> page.refused,
            kept |-> page.kept \ {a}, banner |-> page.banner,
            typed |-> [page.typed EXCEPT ![a] = value],
            chosen |-> page.chosen, live |-> page.live, pending |-> a]
<1> DEFINE typed == [page.typed EXCEPT ![a] = value]
           p == [page EXCEPT !.typed = typed, !.kept = page.kept \ {a}, !.pending = a]
<1>1. IsPage(page)
  BY PageIs
<1>2. p = [page EXCEPT !.typed[a] = value, !.kept = @ \ {a}, !.pending = a]
  BY <1>1 DEF IsPage
<1> HIDE DEF typed
<1>3. p = [checked |-> page.checked, disabled |-> page.disabled, refused |-> page.refused,
           kept |-> page.kept \ {a}, banner |-> page.banner, typed |-> typed,
           chosen |-> page.chosen, live |-> page.live, pending |-> a]
  BY <1>1, TypedIn
<1> HIDE DEF p
<1> QED BY <1>2, <1>3 DEF typed

LEMMA FlushPage ==
  ASSUME page \in Pages
  PROVE  [page EXCEPT !.pending = None] =
           [checked |-> page.checked, disabled |-> page.disabled, refused |-> page.refused,
            kept |-> page.kept, banner |-> page.banner, typed |-> page.typed,
            chosen |-> page.chosen, live |-> page.live, pending |-> None]
BY PageIs DEF IsPage

LEMMA TypeToggle ==
  ASSUME TypeOK, NEW a \in Actions, Toggle(a)
  PROVE  TypeOK'
<1> DEFINE isOn == a \notin page.checked
           typed == [page.typed EXCEPT ![a] = IF isOn THEN @ ELSE 0]
           chosen == [page.chosen EXCEPT ![a] = IF isOn THEN @ ELSE 0]
           checked == IF isOn THEN page.checked \union {a} ELSE page.checked \ {a}
           p == [checked |-> checked, disabled |-> page.disabled, refused |-> page.refused,
                 kept |-> page.kept \ {a}, banner |-> page.banner, typed |-> typed,
                 chosen |-> chosen, live |-> page.live, pending |-> page.pending]
<1>1. typed \in [Actions -> 0..Area + 1] /\ chosen \in Quantities /\ checked \subseteq Actions
  BY SizeAssumption DEF TypeOK, Pages, Quantities
<1>2. /\ saved' = saved /\ open' = open
      /\ \/ page' = p /\ inflight' = inflight /\ synced' = synced /\ skipped' = skipped
         \/ Refresh(p, a, MaxFollowUps, inflight)
  BY TogglePage DEF Toggle, TypeOK
<1>3. p \in Pages
  <2> HIDE DEF typed, chosen, checked, isOn
  <2> QED BY <1>1 DEF TypeOK, Pages
<1> HIDE DEF p
<1>4. MaxFollowUps \in 0..MaxFollowUps
  BY SizeAssumption
<1> QED BY <1>2, <1>3, <1>4, RefreshType DEF TypeOK

LEMMA TypeType ==
  ASSUME TypeOK, NEW a \in Quantity, NEW value \in Typed, Type(a, value)
  PROVE  TypeOK'
<1> DEFINE typed == [page.typed EXCEPT ![a] = value]
           p == [checked |-> page.checked, disabled |-> page.disabled, refused |-> page.refused,
                 kept |-> page.kept \ {a}, banner |-> page.banner, typed |-> typed,
                 chosen |-> page.chosen, live |-> page.live, pending |-> a]
<1>1. typed \in [Actions -> 0..Area + 1] /\ a \in Actions
  BY ActionAssumption DEF TypeOK, Pages
<1>2. page' = p /\ UNCHANGED <<inflight, synced, skipped, saved, open>>
  BY TypedPage DEF Type, TypeOK
<1>3. p \in Pages
  <2> HIDE DEF typed
  <2> QED BY <1>1 DEF TypeOK, Pages
<1> QED BY <1>2, <1>3 DEF TypeOK

LEMMA TypeFlush ==
  ASSUME TypeOK, Flush
  PROVE  TypeOK'
<1> DEFINE p == [checked |-> page.checked, disabled |-> page.disabled, refused |-> page.refused,
                 kept |-> page.kept, banner |-> page.banner, typed |-> page.typed,
                 chosen |-> page.chosen, live |-> page.live, pending |-> None]
<1>1. /\ saved' = saved /\ open' = open
      /\ \/ page' = p /\ inflight' = inflight /\ synced' = synced /\ skipped' = skipped
         \/ Refresh(p, page.pending, MaxFollowUps, inflight)
  BY FlushPage DEF Flush, TypeOK
<1>2. p \in Pages /\ page.pending \in Actions \union {None}
  BY DEF TypeOK, Pages
<1> HIDE DEF p
<1>3. MaxFollowUps \in 0..MaxFollowUps
  BY SizeAssumption
<1> QED BY <1>1, <1>2, <1>3, RefreshType DEF TypeOK

LEMMA HideBannerType ==
  ASSUME NEW p \in Pages, NEW t
  PROVE  HideBanner(p, t) \in Pages
<1>1. p.banner \ {t} \in SUBSET Actions
  BY DEF Pages
<1> QED BY <1>1, BannerType DEF HideBanner

LEMMA TypeAnswer ==
  ASSUME TypeOK, NEW r \in inflight, NEW told \in Answers, Answer(r, told)
  PROVE  TypeOK'
<1> DEFINE q == Apply(page, r.plan, told)
           d == IF r.trigger = None THEN q ELSE DisableOthers(q, r.trigger)
<1>1. page \in Pages /\ r \in Requests
  BY DEF TypeOK
<1>2. /\ r.plan \in Quantities /\ r.trigger \in Actions \union {None} /\ r.left \in 0..MaxFollowUps
      /\ r.left > 0 => r.left - 1 \in 0..MaxFollowUps
  BY <1>1, SizeAssumption DEF Requests
<1>3. q \in Pages
  BY <1>1, <1>2, AppliedType
<1>4. told.measured \subseteq Actions
  BY AnswerAssumption
<1>5. /\ saved' = saved /\ open' = open
      /\ \/ r.left > 0 /\ Refresh(d, r.trigger, r.left - 1, inflight \ {r})
         \/ /\ page' = HideBanner(q, r.trigger) /\ inflight' = inflight \ {r}
            /\ synced' \subseteq Actions /\ skipped' \subseteq Actions
  BY <1>4 DEF Answer
<1> HIDE DEF q
<1>6. d \in Pages
  BY <1>3, DisabledType
<1> HIDE DEF d
<1>7. CASE r.left > 0 /\ Refresh(d, r.trigger, r.left - 1, inflight \ {r})
  BY <1>2, <1>5, <1>6, <1>7, RefreshType DEF TypeOK
<1>8. CASE /\ page' = HideBanner(q, r.trigger) /\ inflight' = inflight \ {r}
           /\ synced' \subseteq Actions /\ skipped' \subseteq Actions
  BY <1>3, <1>5, <1>8, HideBannerType DEF TypeOK
<1> QED BY <1>5, <1>7, <1>8

LEMMA TypeReply ==
  ASSUME TypeOK, Reply
  PROVE  TypeOK'
<1> PICK r \in inflight : Stale(r) \/ Fail(r) \/ \E told \in Answers : Answer(r, told)
  BY DEF Reply
<1>1. CASE Stale(r)
  BY <1>1 DEF Stale, TypeOK
<1>2. CASE Fail(r)
  BY <1>2, HideBannerType, RecoveredType DEF Fail, TypeOK
<1> QED BY <1>1, <1>2, TypeAnswer

LEMMA TypeRedisplay ==
  ASSUME TypeOK, Redisplay
  PROVE  TypeOK'
<1> DEFINE mixed == [a \in Actions |-> IF a \in Quantity THEN page.typed[a] ELSE saved.value[a]]
<1>1. mixed \in [Actions -> 0..Area + 1]
  BY PostedType, SizeAssumption DEF TypeOK, Pages
<1>2. /\ saved' = saved /\ open' = open
      /\ \/ Load(Rendered(saved.on, saved.value, TRUE))
         \/ Load(Rendered(Posted(page), mixed, TRUE))
         \/ Load(Rendered(Posted(page), PostedPlan(page), TRUE))
  BY DEF Redisplay
<1> HIDE DEF mixed
<1>3. /\ page' \in Pages /\ inflight' \subseteq Requests
      /\ synced' \subseteq Actions /\ skipped' \subseteq Actions
  BY <1>1, <1>2, PostedType, LoadType
<1> QED BY <1>2, <1>3 DEF TypeOK

\* A selection that fits has quantities of the parcel.
LEMMA EntriesType ==
  ASSUME TypeOK, NEW told, Fits(Entries(page, told))
  PROVE  Entries(page, told) \in Quantities
<1> DEFINE entries == Entries(page, told)
<1>1. PostedPlan(page) \in [Actions -> Nat]
  BY PostedType, SizeAssumption
<1>2. \A a \in Actions : Entry(page, a, told) \in Nat
  <2> SUFFICES ASSUME NEW a \in Actions PROVE Entry(page, a, told) \in Nat
    OBVIOUS
  <2>1. Left(a, PostedPlan(page)) \in Nat /\ PostedPlan(page)[a] \in Nat
    BY <1>1, LeftBounds, SizeAssumption
  <2>2. page.typed[a] \in Nat /\ Area \in Nat
    BY SizeAssumption DEF TypeOK, Pages
  <2> QED BY <2>1, <2>2 DEF Entry
<1>3. entries \in [Actions -> Nat]
  <2> HIDE DEF Entry
  <2> QED BY <1>2 DEF Entries
<1> HIDE DEF entries
<1>4. ASSUME NEW a \in Actions PROVE entries[a] \in 0..Area
  <2>1. SumFunctionOnSet(entries, Competing(a)) <= Area
    BY DEF Fits, entries
  <2>2. entries[a] <= SumFunctionOnSet(entries, Competing(a))
        /\ SumFunctionOnSet(entries, Competing(a)) \in Nat
    BY <1>3, LeftBounds
  <2> QED BY <1>3, <2>1, <2>2, SizeAssumption
<1> QED BY <1>3, <1>4 DEF Quantities, entries

LEMMA TypeSave ==
  ASSUME TypeOK, NEW told, Save(told)
  PROVE  TypeOK'
<1>1. /\ saved' = [on |-> Posted(page), value |-> Entries(page, told)]
      /\ open' = FALSE /\ inflight' = {} /\ page' = page /\ synced' = synced /\ skipped' = skipped
      /\ Fits(Entries(page, told))
  BY DEF Save
<1>2. saved' \in Selections
  BY <1>1, EntriesType, PostedType DEF Selections
<1> QED BY <1>1, <1>2 DEF TypeOK

\* The page, its requests and what is stored hold what they may hold.
THEOREM TypeCorrect == Spec => []TypeOK
<1>1. Init => TypeOK
  <2> SUFFICES ASSUME Init PROVE TypeOK
    OBVIOUS
  <2> DEFINE p == Rendered(saved.on, saved.value, FALSE)
  <2>1. saved \in Selections /\ open = TRUE
    BY DocumentAssumption DEF Init
  <2>2. saved.on \in SUBSET Actions /\ saved.value \in [Actions -> 0..Area + 1]
    BY <2>1, SizeAssumption DEF Selections, Quantities
  <2>3. p \in Pages
    BY <2>2, RenderedType
  <2>4. /\ page = p /\ synced \subseteq Actions /\ skipped = {}
        /\ \/ inflight = {}
           \/ inflight = {[trigger |-> None, left |-> MaxFollowUps, plan |-> Plan(p), current |-> TRUE]}
    BY DEF Init
  <2> HIDE DEF p
  <2>5. Plan(p) \in Quantities /\ MaxFollowUps \in 0..MaxFollowUps
    BY <2>3, PlanType, SizeAssumption
  <2>6. [trigger |-> None, left |-> MaxFollowUps, plan |-> Plan(p), current |-> TRUE] \in Requests
    BY <2>5 DEF Requests
  <2> QED BY <2>1, <2>3, <2>4, <2>6 DEF TypeOK
<1>2. TypeOK /\ [Next]_vars => TypeOK'
  <2> SUFFICES ASSUME TypeOK, [Next]_vars PROVE TypeOK'
    OBVIOUS
  <2>1. ASSUME NEW a \in Actions, Toggle(a) PROVE TypeOK'
    BY <2>1, TypeToggle
  <2>2. ASSUME NEW a \in Quantity, NEW value \in Typed, Type(a, value) PROVE TypeOK'
    BY <2>2, TypeType
  <2>3. CASE Redisplay
    BY <2>3, TypeRedisplay
  <2>4. ASSUME NEW told, Save(told) PROVE TypeOK'
    BY <2>4, TypeSave
  <2>5. CASE Flush
    BY <2>5, TypeFlush
  <2>6. CASE Reply
    BY <2>6, TypeReply
  <2>7. CASE UNCHANGED vars
    BY <2>7 DEF vars, TypeOK
  <2> QED BY <2>1, <2>2, <2>3, <2>4, <2>5, <2>6, <2>7 DEF Next, User
<1> QED BY <1>1, <1>2, PTL DEF Spec

-----------------------------------------------------------------------------
(* What the page holds is tied to the plan of the answer it awaits, or of    *)
(* the last one it applied.                                                  *)

\* Nothing is held for an action that is not checked, and a protected
\* quantity is held as it is typed.
Consistent(p) ==
  /\ \A a \in Actions \ p.checked : p.chosen[a] = 0 /\ p.typed[a] = 0
  /\ \A a \in Protected(p) \intersect Quantity : p.chosen[a] = ValidTyped(p, a)

\* The page may differ from the plan by a quantity being typed, one typed and
\* given up, and a claim that was never established.
Reflects(p, plan) ==
  /\ \A a \in Actions \ p.checked : plan[a] = 0
  /\ \A a \in p.checked \ (Quantity \union p.kept) : plan[a] = Claim(p, a)
  /\ \A a \in Protected(p) \ Quantity : p.chosen[a] > 0 => plan[a] = p.chosen[a]
  /\ \A a \in Protected(p) \intersect Quantity : plan[a] = p.chosen[a]
  /\ \A a \in (p.checked \intersect Quantity) \ p.kept :
       /\ plan[a] = 0 => p.chosen[a] = 0
       /\ a # p.pending => ValidTyped(p, a) \in {0, plan[a]}

\* The page after an answer to the plan that gave areas for the actions of M
\* and let nothing grow.
Rests(p, plan, M) ==
  /\ Reflects(p, plan)
  /\ p.checked \intersect M \intersect p.disabled = {}
  /\ \A a \in M : p.live[a] = Left(a, plan)
  /\ \A a \in p.checked \intersect Quantity \intersect M : p.chosen[a] = plan[a]
  /\ \A a \in (p.checked \intersect M) \ (Quantity \union p.kept) : p.chosen[a] > 0

SettledInv ==
  /\ Consistent(page)
  /\ \A r \in inflight : r.current =>
       /\ synced = {} /\ Reflects(page, r.plan)
       /\ \A s \in inflight : s.current => s = r
  /\ synced # {} => \E plan \in Quantities : Rests(page, plan, synced)

\* A consistent page reflects its own plan.
LEMMA Reflecting ==
  ASSUME NEW p \in Pages, Consistent(p)
  PROVE  Reflects(p, Plan(p))
<1>1. /\ p.checked \subseteq Actions /\ p.chosen \in [Actions -> 0..Area]
      /\ p.typed \in [Actions -> 0..Area + 1] /\ p.live \in [Actions -> 0..Area]
  BY DEF Pages, Quantities
<1>2. \A a \in Actions : Plan(p)[a] = IF a \in p.checked THEN Claim(p, a) ELSE 0
  BY DEF Plan
<1>3. \A a \in Actions : ValidTyped(p, a) \in 0..Area /\ p.chosen[a] \in 0..Area
  BY <1>1, ClaimType
<1>4. \A a \in p.checked \intersect Quantity :
        Plan(p)[a] = IF ValidTyped(p, a) > 0 THEN ValidTyped(p, a) ELSE p.chosen[a]
  BY <1>1, <1>2 DEF Claim
<1>5. \A a \in p.checked \ Quantity :
        Plan(p)[a] = IF p.chosen[a] > 0 THEN p.chosen[a] ELSE p.live[a]
  BY <1>1, <1>2 DEF Claim
<1> HIDE DEF Plan
<1>6. \A a \in Protected(p) \ Quantity : p.chosen[a] > 0 => Plan(p)[a] = p.chosen[a]
  BY <1>5 DEF Protected
<1>7. \A a \in Protected(p) \intersect Quantity : Plan(p)[a] = p.chosen[a]
  BY <1>1, <1>3, <1>4, SizeAssumption DEF Consistent, Protected
<1>8. \A a \in (p.checked \intersect Quantity) \ p.kept :
        /\ Plan(p)[a] = 0 => p.chosen[a] = 0
        /\ a # p.pending => ValidTyped(p, a) \in {0, Plan(p)[a]}
  BY <1>1, <1>3, <1>4, SizeAssumption
<1> QED BY <1>1, <1>2, <1>6, <1>7, <1>8 DEF Reflects

\* What depends on neither messages nor, but for Rests, what is disabled.
Alike(p, q) ==
  /\ p.checked = q.checked /\ p.kept = q.kept /\ p.typed = q.typed
  /\ p.chosen = q.chosen /\ p.live = q.live /\ p.pending = q.pending

LEMMA AlikeAgree ==
  ASSUME NEW p, NEW q, Alike(p, q)
  PROVE  /\ Protected(q) = Protected(p)
         /\ \A a : ValidTyped(q, a) = ValidTyped(p, a) /\ Claim(q, a) = Claim(p, a)
         /\ Plan(q) = Plan(p)
<1>1. Protected(q) = Protected(p)
  BY DEF Alike, Protected
<1>2. \A a : ValidTyped(q, a) = ValidTyped(p, a)
  BY DEF Alike, ValidTyped
<1>3. \A a : Claim(q, a) = Claim(p, a)
  BY <1>2 DEF Alike, Claim
<1>4. Plan(q) = Plan(p)
  BY <1>3 DEF Alike, Plan
<1> QED BY <1>1, <1>2, <1>3, <1>4

LEMMA AlikeSettled ==
  ASSUME NEW p, NEW q, Alike(p, q)
  PROVE  /\ Consistent(p) => Consistent(q)
         /\ \A plan : Reflects(p, plan) => Reflects(q, plan)
         /\ q.disabled = p.disabled => \A plan, M : Rests(p, plan, M) => Rests(q, plan, M)
<1>1. Consistent(p) => Consistent(q)
  BY AlikeAgree DEF Alike, Consistent
<1>2. \A plan : Reflects(p, plan) => Reflects(q, plan)
  BY AlikeAgree DEF Alike, Reflects
<1>3. q.disabled = p.disabled => \A plan, M : Rests(p, plan, M) => Rests(q, plan, M)
  BY <1>2 DEF Alike, Rests
<1> QED BY <1>1, <1>2, <1>3

LEMMA RevertedConsistent ==
  ASSUME NEW p \in Pages, Consistent(p)
  PROVE  Consistent(RevertUnconfirmed(p))
<1> DEFINE q == RevertUnconfirmed(p)
<1>1. /\ q.checked = p.checked \ Lost(p) /\ q.kept = p.kept /\ q.chosen = p.chosen
      /\ q.typed = [a \in Actions |-> IF a \in Unconfirmed(p) THEN p.chosen[a] ELSE p.typed[a]]
  BY PageIs, Reverted
<1>2. Protected(q) = Protected(p) /\ p.checked \subseteq Actions
  BY PageIs, Reverting DEF Pages
<1> HIDE DEF q
<1>3. Protected(p) \intersect Unconfirmed(p) = {} /\ Protected(p) \subseteq Actions
  BY <1>2 DEF Unconfirmed, Protected
<1>4. \A a \in Protected(p) : ValidTyped(q, a) = ValidTyped(p, a)
  BY <1>1, <1>3 DEF ValidTyped
<1>5. ASSUME NEW a \in Actions \ q.checked
      PROVE  q.chosen[a] = 0 /\ q.typed[a] = 0
  BY <1>1, <1>5 DEF Consistent, Lost
<1> QED BY <1>1, <1>2, <1>4, <1>5 DEF Consistent, q

\* What preparing a refresh leaves differs by messages and what is disabled.
LEMMA PreparedAlike ==
  ASSUME NEW p \in Pages, NEW t, NEW l
  PROVE  Alike(RevertUnconfirmed(p), Prepared(p, t, l))
<1> DEFINE q == RevertUnconfirmed(p)
           b == [q EXCEPT !.banner = q.banner \union {t}]
<1>1. IsPage(q)
  BY PageIs, RevertedType
<1> HIDE DEF q
<1>2. IsPage(b) /\ Alike(q, b)
  BY <1>1, Bannered DEF IsPage, Alike
<1> HIDE DEF b
<1>3. Alike(q, DisableOthers(b, t))
  BY <1>2, Disabled DEF Alike
<1>4. Alike(q, q)
  BY DEF Alike
<1>5. Prepared(p, t, l) = IF t # None /\ l = MaxFollowUps THEN DisableOthers(b, t) ELSE q
  BY DEF Prepared, q, b
<1> QED BY <1>3, <1>4, <1>5 DEF q

\* A refresh ties the page to the request it sends, the only one that counts.
LEMMA SettledRefresh ==
  ASSUME NEW p \in Pages, Consistent(p), NEW t \in Actions \union {None}, NEW l, NEW others,
         Refresh(p, t, l, others)
  PROVE  SettledInv'
<1> DEFINE sent == Prepared(p, t, l)
           r == [trigger |-> t, left |-> l, plan |-> Plan(sent), current |-> TRUE]
<1>1. page' = sent /\ synced' = {} /\ inflight' = Outdated(others) \union {r}
  BY DEF Refresh
<1>2. sent \in Pages /\ Consistent(sent)
  BY PreparedType, RevertedConsistent, PreparedAlike, AlikeSettled
<1>3. Reflects(sent, Plan(sent))
  BY <1>2, Reflecting
<1>4. r.current /\ r.plan = Plan(sent)
  OBVIOUS
<1>5. \A s \in Outdated(others) : ~s.current
  BY DEF Outdated
<1> HIDE DEF sent, r
<1>6. \A s \in inflight' : s.current => s = r
  BY <1>1, <1>5
<1>7. \A s \in inflight' : s.current =>
        /\ synced' = {} /\ Reflects(page', s.plan)
        /\ \A u \in inflight' : u.current => u = s
  BY <1>1, <1>3, <1>4, <1>6
<1>8. Consistent(page')
  BY <1>1, <1>2
<1> QED BY <1>1, <1>7, <1>8 DEF SettledInv

\* The page as rendered is consistent, and when nothing is planned on it, it
\* is at rest: everything is left.
LEMMA RenderedSettled ==
  ASSUME NEW on \in SUBSET Actions, NEW value \in [Actions -> 0..Area + 1], NEW rejected,
         NEW p, p = Rendered(on, value, rejected)
  PROVE  /\ Consistent(p)
         /\ Planned(p) = {} => \E plan \in Quantities : Rests(p, plan, Actions)
<1> DEFINE none == [a \in Actions |-> 0]
<1>1. p \in Pages
  BY RenderedType
<1>2. /\ p.checked = on /\ p.disabled = {} /\ p.kept \subseteq on
      /\ p.typed = [a \in Actions |-> IF a \in on \intersect Quantity THEN value[a] ELSE 0]
      /\ p.chosen = [a \in Actions |-> IF a \in on /\ value[a] <= Area THEN value[a] ELSE 0]
      /\ p.live = [a \in Actions |-> Area]
  BY DEF Rendered
<1>3. Consistent(p)
  <2>1. ASSUME NEW a \in Actions \ p.checked PROVE p.chosen[a] = 0 /\ p.typed[a] = 0
    BY <1>2, <2>1
  <2>2. ASSUME NEW a \in Protected(p) \intersect Quantity PROVE p.chosen[a] = ValidTyped(p, a)
    <3>1. a \in Actions /\ a \in on /\ value[a] \in 0..Area + 1
      BY <1>2 DEF Protected
    <3>2. p.typed[a] = value[a] /\ p.chosen[a] = IF value[a] <= Area THEN value[a] ELSE 0
      BY <1>2, <3>1
    <3> QED BY <3>1, <3>2, SizeAssumption DEF ValidTyped
  <2> QED BY <2>1, <2>2 DEF Consistent
<1>4. ASSUME Planned(p) = {} PROVE \E plan \in Quantities : Rests(p, plan, Actions)
  <2>1. none \in Quantities /\ none \in [Actions -> Nat] /\ \A a \in Actions : none[a] = 0
    BY SizeAssumption DEF Quantities
  <2> HIDE DEF none
  <2>2. \A a \in p.checked : a \in Quantity /\ Claim(p, a) = 0
    <3> SUFFICES ASSUME NEW a \in p.checked PROVE a \in Quantity /\ Claim(p, a) = 0
      OBVIOUS
    <3>1. a \in Quantity /\ ~ (Claim(p, a) > 0)
      BY <1>4 DEF Planned
    <3>2. Claim(p, a) \in 0..Area
      BY <1>1, <1>2, ClaimType
    <3> QED BY <3>1, <3>2, SizeAssumption
  <2>3. \A a \in p.checked : ValidTyped(p, a) = 0 /\ p.chosen[a] = 0
    <3> SUFFICES ASSUME NEW a \in p.checked PROVE ValidTyped(p, a) = 0 /\ p.chosen[a] = 0
      OBVIOUS
    <3>1. /\ ValidTyped(p, a) \in 0..Area
          /\ Claim(p, a) = IF ValidTyped(p, a) > 0 THEN ValidTyped(p, a) ELSE p.chosen[a]
      BY <1>1, <1>2, <2>2, ClaimType DEF Claim
    <3> QED BY <2>2, <3>1, SizeAssumption
  <2>4. Reflects(p, none)
    BY <1>2, <2>1, <2>2, <2>3 DEF Reflects, Protected
  <2>5. \A a \in Actions : p.live[a] = Left(a, none)
    BY <1>2, <2>1, LeftOfAll
  <2>6. Rests(p, none, Actions)
    BY <1>2, <2>1, <2>2, <2>3, <2>4, <2>5 DEF Rests
  <2> QED BY <2>1, <2>6
<1> QED BY <1>3, <1>4

LEMMA SettledLoad ==
  ASSUME NEW on \in SUBSET Actions, NEW value \in [Actions -> 0..Area + 1], NEW rejected,
         Load(Rendered(on, value, rejected))
  PROVE  SettledInv'
<1> DEFINE p == Rendered(on, value, rejected)
<1>1. p \in Pages
  BY RenderedType
<1>2. Consistent(p) /\ (Planned(p) = {} => \E plan \in Quantities : Rests(p, plan, Actions))
  BY RenderedSettled
<1>3. \/ Refresh(p, None, MaxFollowUps, {})
      \/ Planned(p) = {} /\ page' = p /\ inflight' = {} /\ synced' = Actions
  BY DEF Load
<1> HIDE DEF p
<1>4. CASE Refresh(p, None, MaxFollowUps, {})
  BY <1>1, <1>2, <1>4, SettledRefresh
<1>5. CASE Planned(p) = {} /\ page' = p /\ inflight' = {} /\ synced' = Actions
  BY <1>2, <1>5 DEF SettledInv
<1> QED BY <1>3, <1>4, <1>5

\* An answer keeps what protected actions and typed quantities show.
LEMMA AppliedConsistent ==
  ASSUME NEW p \in Pages, Consistent(p), NEW plan \in Quantities, NEW told \in Answers
  PROVE  Consistent(Apply(p, plan, told))
<1> DEFINE q == Apply(p, plan, told)
           gone == Gone(p, plan, told)
           held == Held(p, plan, told)
           own == Own(p, told)
<1>1. IsPage(p) /\ p.checked \subseteq Actions
  BY PageIs DEF Pages
<1>2. /\ gone \subseteq Actions /\ gone \intersect p.checked \subseteq own \ Quantity
      /\ q.checked = p.checked \ gone /\ q.kept = p.kept
      /\ q.typed = [a \in Actions |-> IF a \in gone THEN 0 ELSE p.typed[a]]
      /\ q.chosen = [a \in Actions |-> IF a \in gone THEN 0 ELSE held[a]]
  BY <1>1, Applied
<1>3. \A a \in Actions \ own : held[a] = p.chosen[a]
  BY DEF Held
<1>4. own \subseteq p.checked \ Protected(p)
  BY DEF Own
<1> HIDE DEF q, gone, held, own
<1>5. ASSUME NEW a \in Actions \ q.checked PROVE q.chosen[a] = 0 /\ q.typed[a] = 0
  BY <1>2, <1>3, <1>4, <1>5 DEF Consistent
<1>6. ASSUME NEW a \in Protected(q) \intersect Quantity PROVE q.chosen[a] = ValidTyped(q, a)
  <2>1. a \in Protected(p) /\ a \in Actions /\ a \notin gone /\ a \notin own
    BY <1>1, <1>2, <1>4 DEF Protected
  <2>2. q.chosen[a] = p.chosen[a] /\ q.typed[a] = p.typed[a]
    BY <1>2, <1>3, <2>1
  <2> QED BY <2>1, <2>2 DEF Consistent, ValidTyped
<1> QED BY <1>5, <1>6 DEF Consistent, q

\* An answer that lets nothing grow leaves the page at rest, as far as it goes.
LEMMA AppliedRests ==
  ASSUME NEW p \in Pages, Consistent(p), NEW plan \in Quantities, Reflects(p, plan),
         NEW told \in Answers, Growers(p, plan, told) = {}
  PROVE  Rests(Apply(p, plan, told), plan, told.measured)
<1> DEFINE q == Apply(p, plan, told)
           gone == Gone(p, plan, told)
           free == Freed(p, plan, told)
           held == Held(p, plan, told)
           own == Own(p, told)
           M == told.measured
<1>1. IsPage(p) /\ p.checked \subseteq Actions
  BY PageIs DEF Pages
<1>2. /\ M \subseteq Actions /\ gone \subseteq M /\ M \ gone \subseteq free
      /\ gone \intersect p.checked \subseteq own \ Quantity
      /\ q.checked = p.checked \ gone /\ q.kept = p.kept
      /\ q.disabled = (p.disabled \ free) \union gone
      /\ q.typed = [a \in Actions |-> IF a \in gone THEN 0 ELSE p.typed[a]]
      /\ q.chosen = [a \in Actions |-> IF a \in gone THEN 0 ELSE held[a]]
      /\ q.live = Shown(p, plan, told) /\ q.pending = p.pending
  BY <1>1, Applied
<1>3. \A a \in own \ Quantity : held[a] = 0 <=> a \in gone
  BY DEF Gone, Own
<1>4. own = (p.checked \intersect M) \ Protected(p)
  BY DEF Own
<1>5. \A a \in Actions : q.live[a] = IF a \in M THEN Left(a, plan) ELSE p.live[a]
  BY <1>2 DEF Shown
<1> HIDE DEF q, gone, free, own, M
<1>6. \A a \in Actions : plan[a] \in 0..Area /\ p.chosen[a] \in 0..Area
  BY DEF Quantities, Pages
<1>7. \A a \in Actions :
        held[a] = IF a \notin own \/ (a \in Quantity /\ plan[a] = 0) THEN p.chosen[a] ELSE plan[a]
  BY <1>6, SizeAssumption DEF Held, own
<1> HIDE DEF held
<1>8. \A a \in gone \intersect p.checked : plan[a] = 0
  BY <1>1, <1>2, <1>3, <1>7
<1>9. \A a \in Actions \ q.checked : plan[a] = 0
  BY <1>2, <1>8 DEF Reflects
<1>10. ASSUME NEW a \in (q.checked \intersect M) \ (Quantity \union q.kept)
       PROVE  q.chosen[a] = plan[a] /\ q.chosen[a] > 0
  <2>1. a \in own \ Quantity /\ a \in Actions /\ a \notin gone
    BY <1>1, <1>2, <1>4 DEF Protected
  <2>2. held[a] # 0 /\ held[a] = plan[a]
    BY <1>3, <1>7, <2>1
  <2> QED BY <1>2, <1>6, <2>1, <2>2, SizeAssumption
<1>11. ASSUME NEW a \in q.checked \ (Quantity \union q.kept)
       PROVE  plan[a] = Claim(q, a)
  <2>1. CASE a \in M
    BY <1>10, <2>1 DEF Claim
  <2>2. CASE a \notin M
    <3>1. a \in Actions /\ a \notin gone /\ a \notin own
          /\ a \in p.checked \ (Quantity \union p.kept)
      BY <1>1, <1>2, <1>4, <2>2
    <3>2. q.chosen[a] = p.chosen[a] /\ q.live[a] = p.live[a]
      BY <1>2, <1>5, <1>7, <2>2, <3>1
    <3> QED BY <3>1, <3>2 DEF Claim, Reflects
  <2> QED BY <2>1, <2>2
<1>12. ASSUME NEW a \in Protected(q)
       PROVE  /\ a \in Protected(p) /\ a \in Actions
              /\ q.chosen[a] = p.chosen[a] /\ q.typed[a] = p.typed[a]
  <2>1. a \in Protected(p) /\ a \in Actions /\ a \notin gone /\ a \notin own
    BY <1>1, <1>2, <1>4 DEF Protected
  <2> QED BY <1>2, <1>7, <2>1
<1>13. ASSUME NEW a \in (q.checked \intersect Quantity) \ q.kept
       PROVE  /\ a \in M => q.chosen[a] = plan[a]
              /\ plan[a] = 0 => q.chosen[a] = 0
              /\ a # q.pending => ValidTyped(q, a) \in {0, plan[a]}
  <2>1. /\ a \in Actions /\ a \notin gone /\ a \in (p.checked \intersect Quantity) \ p.kept
        /\ a \in M => a \in own
    BY <1>1, <1>2, <1>4 DEF Protected
  <2>2. plan[a] = 0 => p.chosen[a] = 0
    BY <2>1 DEF Reflects
  <2>3. q.chosen[a] = held[a]
    BY <1>2, <2>1
  <2>4. ValidTyped(q, a) = ValidTyped(p, a)
    BY <1>2, <2>1 DEF ValidTyped
  <2>5. a # p.pending => ValidTyped(p, a) \in {0, plan[a]}
    BY <2>1 DEF Reflects
  <2> QED BY <1>2, <1>7, <2>1, <2>2, <2>3, <2>4, <2>5
<1>14. Reflects(q, plan)
  BY <1>9, <1>11, <1>12, <1>13 DEF Reflects
<1>15. \A a \in q.checked \intersect Quantity \intersect M : q.chosen[a] = plan[a]
  BY <1>12, <1>13 DEF Reflects, Protected
<1>16. q.checked \intersect M \intersect q.disabled = {}
  BY <1>2
<1>17. \A a \in M : q.live[a] = Left(a, plan)
  BY <1>2, <1>5
<1> QED BY <1>10, <1>14, <1>15, <1>16, <1>17 DEF Rests, q, M

\* A page that goes on reflecting whatever plan it reflected.
LEMMA SettledChange ==
  ASSUME SettledInv, NEW p, Consistent(p),
         \A plan \in Quantities : Reflects(page, plan) => Reflects(p, plan),
         \A plan \in Quantities : Rests(page, plan, synced) => Rests(p, plan, synced),
         inflight \subseteq Requests, page' = p, inflight' = inflight, synced' = synced
  PROVE  SettledInv'
<1>1. \A r \in inflight : r.plan \in Quantities
  BY DEF Requests
<1> QED BY <1>1 DEF SettledInv

LEMMA SettledToggle ==
  ASSUME TypeOK, SettledInv, NEW a \in Actions, Toggle(a)
  PROVE  SettledInv'
<1> DEFINE isOn == a \notin page.checked
           typed == [page.typed EXCEPT ![a] = IF isOn THEN @ ELSE 0]
           chosen == [page.chosen EXCEPT ![a] = IF isOn THEN @ ELSE 0]
           checked == IF isOn THEN page.checked \union {a} ELSE page.checked \ {a}
           p == [checked |-> checked, disabled |-> page.disabled, refused |-> page.refused,
                 kept |-> page.kept \ {a}, banner |-> page.banner, typed |-> typed,
                 chosen |-> chosen, live |-> page.live, pending |-> page.pending]
<1>0. page \in Pages
  BY DEF TypeOK
<1>1. \/ /\ isOn /\ a \in Quantity /\ ValidTyped(p, a) = 0
         /\ page' = p /\ inflight' = inflight /\ synced' = synced
      \/ Refresh(p, a, MaxFollowUps, inflight)
  BY <1>0, TogglePage DEF Toggle
<1>2. a \notin page.disabled
  BY DEF Toggle
<1>3. /\ page.typed \in [Actions -> 0..Area + 1] /\ page.chosen \in [Actions -> 0..Area]
      /\ page.checked \subseteq Actions
  BY <1>0 DEF Pages, Quantities
<1>4. /\ typed \in [Actions -> 0..Area + 1] /\ chosen \in [Actions -> 0..Area]
      /\ checked \subseteq Actions
      /\ \A b \in Actions : b # a => typed[b] = page.typed[b] /\ chosen[b] = page.chosen[b]
      /\ \A b \in Actions : b # a => (b \in checked <=> b \in page.checked)
      /\ isOn => typed = page.typed /\ chosen = page.chosen /\ checked = page.checked \union {a}
      /\ ~isOn => typed[a] = 0 /\ chosen[a] = 0
      /\ isOn <=> a \in checked
  BY <1>3, SizeAssumption
<1> HIDE DEF typed, chosen, checked
<1>5. p \in Pages
  BY <1>0, <1>4 DEF Pages, Quantities
<1>6. /\ p.checked = checked /\ p.disabled = page.disabled /\ p.kept = page.kept \ {a}
      /\ p.typed = typed /\ p.chosen = chosen /\ p.live = page.live /\ p.pending = page.pending
  OBVIOUS
<1> HIDE DEF p
<1>7. \A b \in Actions : b # a =>
        /\ ValidTyped(p, b) = ValidTyped(page, b) /\ Claim(p, b) = Claim(page, b)
  <2>1. \A b \in Actions : b # a => ValidTyped(p, b) = ValidTyped(page, b)
    BY <1>4, <1>6 DEF ValidTyped
  <2> QED BY <1>4, <1>6, <2>1 DEF Claim
<1>8. Consistent(p)
  <2>1. ASSUME NEW b \in Actions \ p.checked PROVE p.chosen[b] = 0 /\ p.typed[b] = 0
    BY <1>4, <1>6, <2>1 DEF SettledInv, Consistent
  <2>2. ASSUME NEW b \in Protected(p) \intersect Quantity PROVE p.chosen[b] = ValidTyped(p, b)
    <3>1. b # a /\ b \in Actions /\ b \in Protected(page)
      BY <1>4, <1>6 DEF Protected
    <3> QED BY <1>4, <1>6, <1>7, <3>1 DEF SettledInv, Consistent
  <2> QED BY <2>1, <2>2 DEF Consistent
<1>9. CASE Refresh(p, a, MaxFollowUps, inflight)
  BY <1>5, <1>8, <1>9, SettledRefresh
<1>10. CASE /\ isOn /\ a \in Quantity /\ ValidTyped(p, a) = 0
            /\ page' = p /\ inflight' = inflight /\ synced' = synced
  <2>1. p.chosen[a] = 0
    BY <1>4, <1>6, <1>10 DEF SettledInv, Consistent
  <2>2. ASSUME NEW plan \in Quantities, Reflects(page, plan)
        PROVE  Reflects(p, plan) /\ plan[a] = 0
    <3>1. plan[a] = 0
      BY <1>10, <2>2 DEF Reflects
    <3>2. /\ Actions \ p.checked \subseteq Actions \ page.checked
          /\ p.checked \ (Quantity \union p.kept) \subseteq page.checked \ (Quantity \union page.kept)
          /\ \A b \in p.checked \ (Quantity \union p.kept) : b # a /\ b \in Actions
          /\ Protected(p) \subseteq Protected(page)
          /\ \A b \in Protected(p) : b # a /\ b \in Actions
          /\ \A b \in (p.checked \intersect Quantity) \ p.kept :
               b # a => b \in (page.checked \intersect Quantity) \ page.kept /\ b \in Actions
      BY <1>4, <1>6, <1>10 DEF Protected
    <3>3. \A b \in (p.checked \intersect Quantity) \ p.kept :
            /\ plan[b] = 0 => p.chosen[b] = 0
            /\ b # p.pending => ValidTyped(p, b) \in {0, plan[b]}
      BY <1>4, <1>6, <1>7, <1>10, <2>1, <2>2, <3>2 DEF Reflects
    <3> QED BY <1>4, <1>6, <1>7, <2>2, <3>1, <3>2, <3>3 DEF Reflects
  <2>3. ASSUME NEW plan \in Quantities, Rests(page, plan, synced)
        PROVE  Rests(p, plan, synced)
    <3>1. Reflects(p, plan) /\ plan[a] = 0
      BY <2>2, <2>3 DEF Rests
    <3>2. p.checked \intersect synced \intersect p.disabled = {}
      BY <1>2, <1>4, <1>6, <1>10, <2>3 DEF Rests
    <3>3. \A b \in p.checked \intersect Quantity \intersect synced : p.chosen[b] = plan[b]
      BY <1>4, <1>6, <1>10, <2>1, <2>3, <3>1 DEF Rests
    <3>4. \A b \in (p.checked \intersect synced) \ (Quantity \union p.kept) : p.chosen[b] > 0
      BY <1>4, <1>6, <1>10, <2>3 DEF Rests
    <3>5. \A b \in synced : p.live[b] = Left(b, plan)
      BY <1>6, <2>3 DEF Rests
    <3> QED BY <3>1, <3>2, <3>3, <3>4, <3>5 DEF Rests
  <2>4. inflight \subseteq Requests
    BY DEF TypeOK
  <2> QED BY <1>8, <1>10, <2>2, <2>3, <2>4, SettledChange
<1> QED BY <1>1, <1>9, <1>10

LEMMA SettledType ==
  ASSUME TypeOK, SettledInv, NEW a \in Quantity, NEW value \in Typed, Type(a, value)
  PROVE  SettledInv'
<1> DEFINE typed == [page.typed EXCEPT ![a] = value]
           p == [checked |-> page.checked, disabled |-> page.disabled, refused |-> page.refused,
                 kept |-> page.kept \ {a}, banner |-> page.banner, typed |-> typed,
                 chosen |-> page.chosen, live |-> page.live, pending |-> a]
<1>0. page \in Pages /\ inflight \subseteq Requests
  BY DEF TypeOK
<1>1. /\ page' = p /\ inflight' = inflight /\ synced' = synced
      /\ a \in page.checked /\ page.pending \in {None, a}
  BY <1>0, TypedPage DEF Type
<1>2. a \in Actions /\ page.typed \in [Actions -> 0..Area + 1] /\ page.checked \subseteq Actions
  BY <1>0, ActionAssumption DEF Pages
<1>3. \A b \in Actions : b # a => typed[b] = page.typed[b]
  BY <1>2
<1> HIDE DEF typed
<1>4. /\ p.checked = page.checked /\ p.disabled = page.disabled /\ p.kept = page.kept \ {a}
      /\ p.typed = typed /\ p.chosen = page.chosen /\ p.live = page.live /\ p.pending = a
  OBVIOUS
<1> HIDE DEF p
<1>5. \A b \in Actions : b # a => ValidTyped(p, b) = ValidTyped(page, b)
  BY <1>3, <1>4 DEF ValidTyped
<1>6. \A b \in Actions \ Quantity : Claim(p, b) = Claim(page, b)
  BY <1>4 DEF Claim
<1>8. \A b \in Actions : b # a => b # page.pending
  BY <1>1, SizeAssumption DEF Actions, None
<1>9. Consistent(p)
  <2>1. \A b \in Actions \ p.checked : p.chosen[b] = 0 /\ p.typed[b] = 0
    BY <1>1, <1>3, <1>4 DEF SettledInv, Consistent
  <2>2. ASSUME NEW b \in Protected(p) \intersect Quantity PROVE p.chosen[b] = ValidTyped(p, b)
    <3>1. b # a /\ b \in Actions /\ b \in Protected(page)
      BY <1>2, <1>4 DEF Protected
    <3> QED BY <1>4, <1>5, <3>1 DEF SettledInv, Consistent
  <2> QED BY <2>1, <2>2 DEF Consistent
<1>10. ASSUME NEW plan \in Quantities, Reflects(page, plan)
       PROVE  Reflects(p, plan)
  <2>1. Protected(p) = Protected(page) \ {a}
    BY <1>4 DEF Protected
  <2>2. \A b \in p.checked \ (Quantity \union p.kept) : plan[b] = Claim(p, b)
    BY <1>2, <1>4, <1>6, <1>10 DEF Reflects
  <2>3. plan[a] = 0 => p.chosen[a] = 0
    BY <1>1, <1>2, <1>4, <1>10 DEF Reflects, Protected
  <2>4. \A b \in (p.checked \intersect Quantity) \ p.kept :
          /\ plan[b] = 0 => p.chosen[b] = 0
          /\ b # p.pending => ValidTyped(p, b) \in {0, plan[b]}
    BY <1>2, <1>4, <1>5, <1>8, <1>10, <2>3 DEF Reflects
  <2> QED BY <1>4, <1>10, <2>1, <2>2, <2>4 DEF Reflects
<1>11. ASSUME NEW plan \in Quantities, Rests(page, plan, synced)
       PROVE  Rests(p, plan, synced)
  BY <1>1, <1>4, <1>10, <1>11 DEF Rests
<1> QED BY <1>0, <1>1, <1>9, <1>10, <1>11, SettledChange

LEMMA SettledFlush ==
  ASSUME TypeOK, SettledInv, Flush
  PROVE  SettledInv'
<1> DEFINE p == [checked |-> page.checked, disabled |-> page.disabled, refused |-> page.refused,
                 kept |-> page.kept, banner |-> page.banner, typed |-> page.typed,
                 chosen |-> page.chosen, live |-> page.live, pending |-> None]
<1>0. page \in Pages /\ inflight \subseteq Requests
  BY DEF TypeOK
<1>1. \/ /\ ~ (ValidTyped(page, page.pending) > 0)
         /\ page' = p /\ inflight' = inflight /\ synced' = synced
      \/ Refresh(p, page.pending, MaxFollowUps, inflight)
  BY <1>0, FlushPage DEF Flush
<1>2. p \in Pages /\ page.pending \in Actions /\ page.checked \subseteq Actions
  BY <1>0 DEF Pages, Flush
<1>3. /\ p.checked = page.checked /\ p.disabled = page.disabled /\ p.kept = page.kept
      /\ p.typed = page.typed /\ p.chosen = page.chosen /\ p.live = page.live /\ p.pending = None
  OBVIOUS
<1> HIDE DEF p
<1>4. /\ Protected(p) = Protected(page)
      /\ \A b : ValidTyped(p, b) = ValidTyped(page, b)
  BY <1>3 DEF Protected, ValidTyped
<1>5. \A b : Claim(p, b) = Claim(page, b)
  BY <1>3, <1>4 DEF Claim
<1>6. Consistent(p)
  BY <1>3, <1>4 DEF SettledInv, Consistent
<1>7. CASE Refresh(p, page.pending, MaxFollowUps, inflight)
  BY <1>2, <1>6, <1>7, SettledRefresh
<1>8. CASE /\ ~ (ValidTyped(page, page.pending) > 0)
           /\ page' = p /\ inflight' = inflight /\ synced' = synced
  <2>1. ValidTyped(page, page.pending) = 0
    <3>1. ValidTyped(page, page.pending) \in 0..Area
      BY <1>0, <1>2, ClaimType
    <3> QED BY <1>8, <3>1, SizeAssumption
  <2>2. ASSUME NEW plan \in Quantities, Reflects(page, plan)
        PROVE  Reflects(p, plan)
    BY <1>3, <1>4, <1>5, <2>1, <2>2 DEF Reflects
  <2>3. ASSUME NEW plan \in Quantities, Rests(page, plan, synced)
        PROVE  Rests(p, plan, synced)
    BY <1>3, <2>2, <2>3 DEF Rests
  <2> QED BY <1>0, <1>6, <1>8, <2>2, <2>3, SettledChange
<1> QED BY <1>1, <1>7, <1>8

LEMMA HiddenAlike ==
  ASSUME NEW p \in Pages, NEW t
  PROVE  Alike(p, HideBanner(p, t)) /\ HideBanner(p, t).disabled = p.disabled
BY PageIs, Bannered DEF HideBanner, Alike

LEMMA SettledAnswer ==
  ASSUME TypeOK, SettledInv, NEW r \in inflight, NEW told \in Answers, Answer(r, told)
  PROVE  SettledInv'
<1> DEFINE q == Apply(page, r.plan, told)
           d == IF r.trigger = None THEN q ELSE DisableOthers(q, r.trigger)
           h == HideBanner(q, r.trigger)
           M == told.measured
           grew == Growers(page, r.plan, told) # {}
<1>1. page \in Pages /\ r \in Requests
  BY DEF TypeOK
<1>2. /\ r.plan \in Quantities /\ r.trigger \in Actions \union {None}
      /\ r.current /\ Reflects(page, r.plan) /\ Consistent(page)
      /\ \A s \in inflight \ {r} : ~s.current
  BY <1>1 DEF Answer, SettledInv, Requests
<1>3. q \in Pages /\ Consistent(q)
  BY <1>1, <1>2, AppliedType, AppliedConsistent
<1>4. ~grew => Rests(q, r.plan, M)
  BY <1>1, <1>2, AppliedRests
<1>5. \/ Refresh(d, r.trigger, r.left - 1, inflight \ {r})
      \/ /\ page' = h /\ inflight' = inflight \ {r}
         /\ synced' = IF grew THEN {} ELSE M
  BY DEF Answer
<1> HIDE DEF q, M, grew
<1>6. d \in Pages /\ Consistent(d)
  <2>1. Alike(q, DisableOthers(q, r.trigger))
    BY <1>3, PageIs, Disabled DEF Alike
  <2> QED BY <1>3, <2>1, DisabledType, AlikeSettled
<1>7. Consistent(h) /\ (~grew => Rests(h, r.plan, M))
  BY <1>3, <1>4, HiddenAlike, AlikeSettled
<1> HIDE DEF d, h
<1>8. CASE Refresh(d, r.trigger, r.left - 1, inflight \ {r})
  BY <1>2, <1>6, <1>8, SettledRefresh
<1>9. CASE /\ page' = h /\ inflight' = inflight \ {r}
           /\ synced' = IF grew THEN {} ELSE M
  BY <1>2, <1>7, <1>9 DEF SettledInv
<1> QED BY <1>5, <1>8, <1>9

LEMMA SettledReply ==
  ASSUME TypeOK, SettledInv, Reply
  PROVE  SettledInv'
<1> PICK r \in inflight : Stale(r) \/ Fail(r) \/ \E told \in Answers : Answer(r, told)
  BY DEF Reply
<1>1. page \in Pages
  BY DEF TypeOK
<1>2. CASE Stale(r)
  BY <1>2 DEF Stale, SettledInv
<1>3. CASE Fail(r)
  <2> DEFINE h == HideBanner(page, r.trigger)
  <2>1. /\ page' = Recover(h) /\ inflight' = inflight \ {r} /\ synced' = synced /\ r.current
    BY <1>3 DEF Fail
  <2>2. h \in Pages /\ Consistent(h)
    BY <1>1, HideBannerType, HiddenAlike, AlikeSettled DEF SettledInv
  <2> HIDE DEF h
  <2>3. Alike(h, Recover(h))
    BY <2>2, PageIs, Recovered DEF Alike
  <2>4. Consistent(Recover(h))
    BY <2>2, <2>3, AlikeSettled
  <2>5. synced = {} /\ \A s \in inflight \ {r} : ~s.current
    BY <2>1 DEF SettledInv
  <2> QED BY <2>1, <2>4, <2>5 DEF SettledInv
<1> QED BY <1>2, <1>3, SettledAnswer

LEMMA SettledRedisplay ==
  ASSUME TypeOK, Redisplay
  PROVE  SettledInv'
<1> DEFINE mixed == [a \in Actions |-> IF a \in Quantity THEN page.typed[a] ELSE saved.value[a]]
<1>1. mixed \in [Actions -> 0..Area + 1]
  BY PostedType, SizeAssumption DEF TypeOK, Pages
<1>2. \/ Load(Rendered(saved.on, saved.value, TRUE))
      \/ Load(Rendered(Posted(page), mixed, TRUE))
      \/ Load(Rendered(Posted(page), PostedPlan(page), TRUE))
  BY DEF Redisplay
<1> HIDE DEF mixed
<1> QED BY <1>1, <1>2, PostedType, SettledLoad

LEMMA SettledStep ==
  ASSUME TypeOK, SettledInv, [Next]_vars
  PROVE  SettledInv'
<1>1. ASSUME NEW a \in Actions, Toggle(a) PROVE SettledInv'
  BY <1>1, SettledToggle
<1>2. ASSUME NEW a \in Quantity, NEW value \in Typed, Type(a, value) PROVE SettledInv'
  BY <1>2, SettledType
<1>3. CASE Redisplay
  BY <1>3, SettledRedisplay
<1>4. ASSUME NEW told, Save(told) PROVE SettledInv'
  <2>1. page' = page /\ synced' = synced /\ inflight' = {}
    BY <1>4 DEF Save
  <2> QED BY <2>1 DEF SettledInv
<1>5. CASE Flush
  BY <1>5, SettledFlush
<1>6. CASE Reply
  BY <1>6, SettledReply
<1>7. CASE UNCHANGED vars
  BY <1>7 DEF vars, SettledInv
<1> QED BY <1>1, <1>2, <1>3, <1>4, <1>5, <1>6, <1>7 DEF Next, User

LEMMA SettledCorrect == Spec => []SettledInv
<1>1. Init => SettledInv
  <2> SUFFICES ASSUME Init PROVE SettledInv
    OBVIOUS
  <2> DEFINE p == Rendered(saved.on, saved.value, FALSE)
             r == [trigger |-> None, left |-> MaxFollowUps, plan |-> Plan(p), current |-> TRUE]
  <2>1. saved.on \in SUBSET Actions /\ saved.value \in [Actions -> 0..Area + 1]
    BY DocumentAssumption, SizeAssumption DEF Init, Selections, Quantities
  <2>2. \/ Planned(p) = {} /\ page = p /\ inflight = {} /\ synced = Actions
        \/ page = p /\ inflight = {r} /\ synced = {}
    BY DEF Init
  <2>3. p \in Pages /\ Consistent(p) /\ (Planned(p) = {} => \E plan \in Quantities : Rests(p, plan, Actions))
    BY <2>1, RenderedType, RenderedSettled
  <2> HIDE DEF p
  <2>4. Reflects(p, r.plan)
    BY <2>3, Reflecting
  <2> HIDE DEF r
  <2> QED BY <2>2, <2>3, <2>4 DEF SettledInv
<1> QED BY <1>1, SettledStep, TypeCorrect, PTL DEF Spec

-----------------------------------------------------------------------------
(* What the page shows at rest.                                              *)

\* Once the quantity being typed is done with, a page at rest claims what the
\* last answer was for, if that answer confirmed the quantities given up.
LEMMA RestingPlan ==
  ASSUME NEW p \in Pages, Consistent(p), NEW plan \in Quantities, NEW M, Rests(p, plan, M),
         p.pending = None, \A a \in Protected(p) \ Quantity : p.chosen[a] > 0,
         \A a \in (Quantity \intersect p.checked) \ M : ValidTyped(p, a) # 0
  PROVE  Plan(p) = plan
<1>1. ASSUME NEW a \in Actions
      PROVE  plan[a] = IF a \in p.checked THEN Claim(p, a) ELSE 0
  <2>1. a # p.pending
    BY SizeAssumption DEF Actions, None
  <2>2. CASE a \notin p.checked
    BY <2>2 DEF Rests, Reflects
  <2>3. CASE a \in p.checked \ (Quantity \union p.kept)
    BY <2>3 DEF Rests, Reflects
  <2>4. CASE a \in Protected(p) \ Quantity
    BY <2>4 DEF Rests, Reflects, Claim, Protected
  <2>5. CASE a \in p.checked \intersect Quantity
    <3>1. ValidTyped(p, a) \in {0, plan[a]} /\ (a \in M => p.chosen[a] = plan[a])
      BY <2>1, <2>5 DEF Rests, Reflects, Consistent, Protected
    <3>2. plan[a] \in 0..Area /\ ValidTyped(p, a) \in 0..Area
      BY ClaimType DEF Quantities
    <3> QED BY <2>5, <3>1, <3>2, SizeAssumption DEF Claim
  <2> QED BY <2>2, <2>3, <2>4, <2>5 DEF Protected
<1> QED BY <1>1 DEF Plan, Quantities

\* At rest after an answer, the actions it gave an area for show what is left
\* under the claims the page holds, whatever was clicked, typed, answered or
\* lost before.
THEOREM ShowsCorrect == Spec => []ShowsWhatIsLeft
<1>1. TypeOK /\ SettledInv => ShowsWhatIsLeft
  <2> SUFFICES ASSUME TypeOK, SettledInv, AtRest, Established, GivenUp \subseteq synced,
                      NEW a \in synced
               PROVE  page.live[a] = Left(a, Plan(page))
    BY DEF ShowsWhatIsLeft
  <2>1. PICK plan \in Quantities : Rests(page, plan, synced)
    BY DEF SettledInv
  <2>2. \A b \in (Quantity \intersect page.checked) \ synced : ValidTyped(page, b) # 0
    BY DEF GivenUp
  <2>3. Plan(page) = plan
    BY <2>1, <2>2, RestingPlan DEF AtRest, Established, SettledInv, TypeOK
  <2> QED BY <2>1, <2>3 DEF Rests
<1> QED BY <1>1, TypeCorrect, SettledCorrect, PTL

\* What is stored from a page at rest, none of its actions shown again, is
\* what it showed, when its answer and the server's spoke of each of them.
THEOREM SavedCorrect == Spec => SavedAsShown
<1>1. TypeOK /\ SettledInv =>
        \A told \in Answers :
          Save(told) /\ AtRest /\ page.kept = {} /\ page.checked \subseteq synced \intersect told.listed
            => saved' = [on |-> page.checked, value |-> Plan(page)]
  <2> SUFFICES ASSUME TypeOK, SettledInv, NEW told \in Answers, Save(told), page.kept = {},
                      page.checked \subseteq synced, page.checked \subseteq told.listed
               PROVE  saved' = [on |-> page.checked, value |-> Plan(page)]
    OBVIOUS
  <2> DEFINE entries == Entries(page, told)
  <2>1. /\ page.checked \intersect page.disabled = {}
        /\ \A a \in page.checked \ Quantity : page.chosen[a] > 0
    <3>1. CASE synced = {}
      BY <3>1
    <3>2. CASE synced # {}
      BY <3>2 DEF SettledInv, Rests
    <3> QED BY <3>1, <3>2
  <2>2. Posted(page) = page.checked /\ page.checked \subseteq Actions
    BY <2>1 DEF Posted, TypeOK, Pages
  <2>3. /\ saved' = [on |-> page.checked, value |-> entries]
        /\ Unquantified(page) = {} /\ Fits(entries)
    BY <2>2 DEF Save
  <2>4. entries \in Quantities
    BY <2>3, EntriesType
  <2>5. \A a \in Actions :
          entries[a] = IF a \in page.checked THEN Entry(page, a, told) ELSE 0
    BY <2>2 DEF Entries
  <2> HIDE DEF entries
  <2>6. ASSUME NEW a \in page.checked \intersect Quantity PROVE entries[a] = Claim(page, a)
    <3>1. a \in Actions /\ entries[a] = page.typed[a] /\ entries[a] \in 0..Area
      BY <2>2, <2>4, <2>5 DEF Entry, Quantities
    <3>2. page.typed[a] # 0
      BY <2>2, <2>3 DEF Unquantified
    <3> QED BY <3>1, <3>2, SizeAssumption DEF Claim, ValidTyped
  <2>7. ASSUME NEW a \in page.checked \ Quantity PROVE entries[a] = Claim(page, a)
    <3>1. a \in Actions /\ page.chosen[a] > 0 /\ a \in told.listed
      BY <2>1, <2>2
    <3>2. PostedPlan(page)[a] = page.chosen[a]
      BY <2>2, <3>1 DEF PostedPlan, FieldValue
    <3> QED BY <2>5, <3>1, <3>2 DEF Entry, Claim
  <2>8. entries = Plan(page)
    BY <2>4, <2>5, <2>6, <2>7 DEF Plan, Quantities
  <2> QED BY <2>3, <2>8
<1> QED BY <1>1, TypeCorrect, SettledCorrect, PTL DEF SavedAsShown

-----------------------------------------------------------------------------
(* Claims that fitted go on fitting.                                         *)

\* Reverting raises no claim.
LEMMA RevertedPlan ==
  ASSUME NEW p \in Pages, NEW a \in Actions
  PROVE  Plan(RevertUnconfirmed(p))[a] <= Plan(p)[a]
<1> DEFINE q == RevertUnconfirmed(p)
<1> SUFFICES Plan(q)[a] <= Plan(p)[a]
  OBVIOUS
<1>1. /\ q.checked = p.checked \ Lost(p) /\ q.chosen = p.chosen /\ q.live = p.live
      /\ q.typed = [b \in Actions |-> IF b \in Unconfirmed(p) THEN p.chosen[b] ELSE p.typed[b]]
  BY PageIs, Reverted
<1>2. q \in Pages
  BY RevertedType
<1> HIDE DEF q
<1>3. /\ Claim(p, a) \in 0..Area /\ ValidTyped(p, a) \in 0..Area /\ p.chosen[a] \in 0..Area
      /\ Claim(q, a) \in 0..Area
  BY <1>2, ClaimType DEF Pages, Quantities
<1>4. Plan(p)[a] = IF a \in p.checked THEN Claim(p, a) ELSE 0
  BY DEF Plan
<1>5. Plan(q)[a] = IF a \in q.checked THEN Claim(q, a) ELSE 0
  BY DEF Plan
<1>6. CASE a \in Unconfirmed(p)
  <2>1. a \in Quantity /\ a \in p.checked /\ ValidTyped(p, a) = 0 /\ q.typed[a] = p.chosen[a]
    BY <1>1, <1>6 DEF Unconfirmed
  <2>2. Claim(p, a) = p.chosen[a]
    BY <2>1 DEF Claim
  <2>3. Claim(q, a) = p.chosen[a]
    BY <1>1, <1>3, <2>1, SizeAssumption DEF Claim, ValidTyped
  <2> QED BY <1>3, <1>4, <1>5, <2>1, <2>2, <2>3, SizeAssumption
<1>7. CASE a \notin Unconfirmed(p)
  <2>1. ValidTyped(q, a) = ValidTyped(p, a) /\ (a \in q.checked <=> a \in p.checked)
    BY <1>1, <1>7 DEF ValidTyped, Lost
  <2>2. Claim(q, a) = Claim(p, a)
    BY <1>1, <2>1 DEF Claim
  <2> QED BY <1>3, <1>4, <1>5, <2>1, <2>2, SizeAssumption
<1> QED BY <1>6, <1>7

\* An answer raises no claim but that of the action that grows.
LEMMA AppliedPlan ==
  ASSUME NEW p \in Pages, Consistent(p), NEW plan \in Quantities, Reflects(p, plan),
         p.pending = None, \A b \in Protected(p) \ Quantity : p.chosen[b] > 0,
         NEW told \in Answers,
         \A b \in (Quantity \intersect p.checked) \ told.measured : ValidTyped(p, b) # 0,
         NEW a \in Actions
  PROVE  Plan(Apply(p, plan, told))[a]
           <= plan[a] + (IF a \in Growers(p, plan, told) THEN Left(a, plan) ELSE 0)
<1> DEFINE q == Apply(p, plan, told)
           gone == Gone(p, plan, told)
           held == Held(p, plan, told)
           own == Own(p, told)
           M == told.measured
           more == IF a \in Growers(p, plan, told) THEN Left(a, plan) ELSE 0
<1>1. IsPage(p)
  BY PageIs
<1>2. /\ gone \intersect p.checked \subseteq own \ Quantity
      /\ q.checked = p.checked \ gone
      /\ q.typed = [b \in Actions |-> IF b \in gone THEN 0 ELSE p.typed[b]]
      /\ q.chosen = [b \in Actions |-> IF b \in gone THEN 0 ELSE held[b]]
      /\ q.live = Shown(p, plan, told)
  BY <1>1, Applied
<1>3. \A b \in own \ Quantity : held[b] = 0 => b \in gone
  BY DEF Gone
<1>4. own = (p.checked \intersect M) \ Protected(p)
  BY DEF Own
<1>5. a \notin M => q.live[a] = p.live[a]
  BY <1>2 DEF Shown
<1>6. held[a] = IF a \notin own \/ (a \in Quantity /\ plan[a] = 0) THEN p.chosen[a] ELSE plan[a] + more
  BY DEF Held
<1> HIDE DEF gone, q, held, own, M
<1>7. /\ plan[a] \in 0..Area /\ Left(a, plan) \in 0..Area
      /\ p.chosen[a] \in 0..Area /\ ValidTyped(p, a) \in 0..Area
  BY LeftBounds, ClaimType, SizeAssumption DEF Quantities, Pages
<1>8. more \in 0..Area
  BY <1>7, SizeAssumption
<1> HIDE DEF more
<1>9. Plan(q)[a] = IF a \in q.checked THEN Claim(q, a) ELSE 0
  BY DEF Plan
<1>10. ASSUME a \in q.checked PROVE Claim(q, a) <= plan[a] + more
  <2>1. /\ a \in p.checked /\ a \notin gone
        /\ q.chosen[a] = held[a] /\ q.typed[a] = p.typed[a]
    BY <1>2, <1>10
  <2>2. ValidTyped(q, a) = ValidTyped(p, a)
    BY <2>1 DEF ValidTyped
  <2>3. a # p.pending
    BY SizeAssumption DEF Actions, None
  <2>4. CASE a \in own \ Quantity
    BY <1>3, <1>6, <1>7, <1>8, <2>1, <2>4, SizeAssumption DEF Claim
  <2>5. CASE a \in own \intersect Quantity
    <3>1. /\ plan[a] = 0 => p.chosen[a] = 0
          /\ ValidTyped(p, a) \in {0, plan[a]}
      BY <1>4, <2>3, <2>5 DEF Reflects, Protected
    <3>2. Claim(q, a) = IF ValidTyped(p, a) > 0 THEN ValidTyped(p, a) ELSE held[a]
      BY <2>1, <2>2, <2>5 DEF Claim
    <3> QED BY <1>6, <1>7, <1>8, <2>5, <3>1, <3>2, SizeAssumption
  <2>6. CASE a \in Protected(p) \ Quantity
    <3>1. plan[a] = p.chosen[a] /\ p.chosen[a] > 0 /\ a \notin own
      BY <1>4, <2>6 DEF Reflects
    <3> QED BY <1>6, <1>7, <1>8, <2>1, <2>6, <3>1, SizeAssumption DEF Claim
  <2>7. CASE a \in Protected(p) \intersect Quantity
    <3>1. plan[a] = p.chosen[a] /\ p.chosen[a] = ValidTyped(p, a) /\ a \notin own
      BY <1>4, <2>7 DEF Reflects, Consistent
    <3>2. Claim(q, a) = IF ValidTyped(p, a) > 0 THEN ValidTyped(p, a) ELSE held[a]
      BY <2>1, <2>2, <2>7 DEF Claim
    <3> QED BY <1>6, <1>7, <1>8, <3>1, <3>2, SizeAssumption
  <2>8. CASE a \in p.checked \ (M \union Protected(p) \union Quantity)
    <3>1. /\ a \notin own /\ q.chosen[a] = p.chosen[a] /\ q.live[a] = p.live[a]
          /\ a \in p.checked \ (Quantity \union p.kept)
      BY <1>4, <1>5, <1>6, <2>1, <2>8 DEF Protected
    <3>2. Claim(q, a) = Claim(p, a) /\ Claim(p, a) = plan[a]
      BY <3>1 DEF Claim, Reflects
    <3> QED BY <1>7, <1>8, <3>2, SizeAssumption
  <2>9. CASE a \in (p.checked \intersect Quantity) \ (M \union Protected(p))
    <3>1. ValidTyped(p, a) = plan[a] /\ ValidTyped(p, a) # 0
      BY <2>3, <2>9 DEF Reflects, Protected, M
    <3>2. Claim(q, a) = plan[a]
      BY <1>7, <2>2, <2>9, <3>1, SizeAssumption DEF Claim
    <3> QED BY <1>7, <1>8, <3>2, SizeAssumption
  <2> QED BY <1>4, <2>1, <2>4, <2>5, <2>6, <2>7, <2>8, <2>9
<1> QED BY <1>7, <1>8, <1>9, <1>10, SizeAssumption DEF more, q

\* Claims that exceed a plan that fits by what is left for one action fit.
LEMMA StillFits ==
  ASSUME NEW plan \in Quantities, Fits(plan), NEW claims \in [Actions -> Nat], NEW p, NEW told,
         \A a \in Actions :
           claims[a] <= plan[a] + (IF a \in Growers(p, plan, told) THEN Left(a, plan) ELSE 0)
  PROVE  Fits(claims)
<1> SUFFICES ASSUME NEW a \in Actions
             PROVE  SumFunctionOnSet(claims, Competing(a)) <= Area
  BY DEF Fits
<1> DEFINE S == Competing(a)
           g == Min(Growable(p, plan, told))
           d == IF g \in Actions THEN Left(g, plan) ELSE 0
<1>1. /\ IsFiniteSet(S) /\ S \subseteq Actions
      /\ \A b \in S : Competing(b) = S
  BY CompetingFinite
<1>2. Growers(p, plan, told) \subseteq {g}
  BY DEF Growers
<1>3. plan \in [Actions -> Nat]
  BY SizeAssumption DEF Quantities
<1>4. \A b \in Actions : Left(b, plan) \in Nat
  BY <1>3, LeftBounds, SizeAssumption
<1> HIDE DEF g
<1>5. d \in Nat
  BY <1>4
<1>6. \A b \in S : claims[b] \in Nat /\ plan[b] \in Nat /\ claims[b] <= plan[b] + (IF b = g THEN d ELSE 0)
  <2> SUFFICES ASSUME NEW b \in S
               PROVE  claims[b] \in Nat /\ plan[b] \in Nat
                      /\ claims[b] <= plan[b] + (IF b = g THEN d ELSE 0)
    OBVIOUS
  <2>1. b \in Actions /\ claims[b] \in Nat /\ plan[b] \in Nat /\ Left(b, plan) \in Nat
    BY <1>1, <1>3, <1>4
  <2> QED BY <1>2, <2>1
<1>7. SumFunctionOnSet(claims, S) <= SumFunctionOnSet(plan, S) + (IF g \in S THEN d ELSE 0)
  <2> HIDE DEF S, d
  <2> QED BY <1>1, <1>5, <1>6, SumBounded
<1>8. SumFunctionOnSet(plan, S) \in Nat /\ SumFunctionOnSet(plan, S) <= Area
  BY <1>3, LeftBounds DEF Fits
<1>9. SumFunctionOnSet(claims, S) \in Nat
  BY LeftBounds
<1>10. g \in S => d = IF Area > SumFunctionOnSet(plan, S) THEN Area - SumFunctionOnSet(plan, S) ELSE 0
  BY <1>1, <1>3, LeftBounds
<1> HIDE DEF S, d
<1> QED BY <1>5, <1>7, <1>8, <1>9, <1>10, SizeAssumption DEF S

\* An answer never makes claims that fitted exceed the land.
THEOREM GrowthCorrect == Spec => GrowthFits
<1>1. TypeOK /\ SettledInv =>
        \A r \in inflight, told \in Answers :
          Answer(r, told) /\ Fits(r.plan) /\ page.pending = None /\ Established
            /\ GivenUp \subseteq told.measured
            => Fits(Plan(page)')
  <2> SUFFICES ASSUME TypeOK, SettledInv, NEW r \in inflight, NEW told \in Answers,
                      Answer(r, told), Fits(r.plan),
                      page.pending = None, Established, GivenUp \subseteq told.measured
               PROVE  Fits(Plan(page'))
    OBVIOUS
  <2> DEFINE q == Apply(page, r.plan, told)
             d == IF r.trigger = None THEN q ELSE DisableOthers(q, r.trigger)
             h == HideBanner(q, r.trigger)
  <2>1. /\ page \in Pages /\ Consistent(page) /\ r.plan \in Quantities /\ Reflects(page, r.plan)
        /\ r.trigger \in Actions \union {None} /\ \A a \in Protected(page) \ Quantity : page.chosen[a] > 0
        /\ \A a \in (Quantity \intersect page.checked) \ told.measured : ValidTyped(page, a) # 0
    BY DEF TypeOK, SettledInv, Requests, Answer, Established, GivenUp
  <2>2. q \in Pages
    BY <2>1, AppliedType
  <2>3. \A a \in Actions :
          Plan(q)[a] <= r.plan[a] + (IF a \in Growers(page, r.plan, told) THEN Left(a, r.plan) ELSE 0)
    BY <2>1, AppliedPlan
  <2>4. \/ page' = Prepared(d, r.trigger, r.left - 1)
        \/ page' = h
    BY DEF Answer, Refresh
  <2> HIDE DEF q
  <2>5. d \in Pages /\ Plan(d) = Plan(q)
    <3>1. Alike(q, DisableOthers(q, r.trigger))
      BY <2>2, PageIs, Disabled DEF Alike
    <3> QED BY <2>2, <3>1, DisabledType, AlikeAgree
  <2>6. h \in Pages /\ Plan(h) = Plan(q)
    BY <2>2, HideBannerType, HiddenAlike, AlikeAgree
  <2> HIDE DEF d, h
  <2>7. page' \in Pages /\ \A a \in Actions : Plan(page')[a] <= Plan(q)[a]
    <3>1. CASE page' = h
      <4>1. Plan(q) \in [Actions -> 0..Area]
        BY <2>2, PlanType DEF Quantities
      <4> QED BY <2>6, <3>1, <4>1, SizeAssumption
    <3>2. CASE page' = Prepared(d, r.trigger, r.left - 1)
      <4>1. Plan(page') = Plan(RevertUnconfirmed(d))
        BY <2>5, <3>2, PreparedAlike, AlikeAgree
      <4>2. page' \in Pages
        BY <2>1, <2>5, <3>2, PreparedType
      <4> QED BY <2>5, <4>1, <4>2, RevertedPlan
    <3> QED BY <2>4, <3>1, <3>2
  <2>8. Plan(page') \in Quantities /\ Plan(q) \in Quantities
    BY <2>2, <2>7, PlanType
  <2>9. \A a \in Actions :
          Plan(page')[a] <= r.plan[a] + (IF a \in Growers(page, r.plan, told) THEN Left(a, r.plan) ELSE 0)
    <3> SUFFICES ASSUME NEW a \in Actions
                 PROVE  Plan(page')[a] <= r.plan[a] + (IF a \in Growers(page, r.plan, told) THEN Left(a, r.plan) ELSE 0)
      OBVIOUS
    <3>1. /\ Plan(page')[a] \in Nat /\ Plan(q)[a] \in Nat /\ r.plan[a] \in Nat /\ Left(a, r.plan) \in Nat
      BY <2>1, <2>8, LeftBounds, SizeAssumption DEF Quantities
    <3> QED BY <2>3, <2>7, <3>1
  <2>10. Plan(page') \in [Actions -> Nat]
    BY <2>8, SizeAssumption DEF Quantities
  <2> QED BY <2>1, <2>9, <2>10, StillFits
<1> QED BY <1>1, TypeCorrect, SettledCorrect, PTL DEF GrowthFits

-----------------------------------------------------------------------------
(* What was shown again with its rejected value.                             *)

\* Every protected action stays checked with the values it has.
Keeps(p, q) ==
  /\ q.kept = p.kept
  /\ \A a \in Protected(p) :
       a \in q.checked /\ q.typed[a] = p.typed[a] /\ q.chosen[a] = p.chosen[a]

LEMMA KeepsAgain ==
  ASSUME NEW p, NEW q, NEW s, Keeps(p, q), Keeps(q, s)
  PROVE  Keeps(p, s)
BY DEF Keeps, Protected

LEMMA AlikeKeeps ==
  ASSUME NEW p, NEW q, Alike(p, q)
  PROVE  Keeps(p, q)
BY DEF Alike, Keeps, Protected

LEMMA PreparedKeeps ==
  ASSUME NEW p \in Pages, NEW t, NEW l
  PROVE  Keeps(p, Prepared(p, t, l))
<1> DEFINE q == RevertUnconfirmed(p)
<1>1. /\ q.checked = p.checked \ Lost(p) /\ q.kept = p.kept /\ q.chosen = p.chosen
      /\ q.typed = [a \in Actions |-> IF a \in Unconfirmed(p) THEN p.chosen[a] ELSE p.typed[a]]
  BY PageIs, Reverted
<1>2. \A a \in Protected(p) : a \in Actions /\ a \in p.checked /\ a \notin Unconfirmed(p)
  BY DEF Protected, Unconfirmed, Pages
<1> HIDE DEF q
<1>3. Keeps(p, q)
  BY <1>1, <1>2 DEF Keeps, Lost
<1> QED BY <1>3, PreparedAlike, AlikeKeeps, KeepsAgain DEF q

LEMMA AppliedKeeps ==
  ASSUME NEW p \in Pages, NEW plan, NEW told \in Answers
  PROVE  Keeps(p, Apply(p, plan, told))
<1> DEFINE q == Apply(p, plan, told)
           gone == Gone(p, plan, told)
           held == Held(p, plan, told)
<1>1. IsPage(p) /\ p.checked \subseteq Actions
  BY PageIs DEF Pages
<1>2. /\ gone \intersect p.checked \subseteq Own(p, told) \ Quantity
      /\ q.checked = p.checked \ gone /\ q.kept = p.kept
      /\ q.typed = [a \in Actions |-> IF a \in gone THEN 0 ELSE p.typed[a]]
      /\ q.chosen = [a \in Actions |-> IF a \in gone THEN 0 ELSE held[a]]
  BY <1>1, Applied
<1>3. \A a \in Protected(p) : a \in Actions /\ a \in p.checked /\ a \notin Own(p, told)
  BY <1>1 DEF Protected, Own
<1>4. \A a \in Actions \ Own(p, told) : held[a] = p.chosen[a]
  BY DEF Held
<1> HIDE DEF q, gone, held
<1> QED BY <1>2, <1>3, <1>4 DEF Keeps, q

\* No answer, timer or click touches a protected action but the user's own
\* change of it.
THEOREM KeptCorrect == Spec => KeptUntouched
<1>1. TypeOK =>
        (Reply \/ Flush \/ (\E a \in Actions : Toggle(a)) =>
           \A a \in Protected(page) \intersect page'.kept :
             /\ a \in page'.checked
             /\ page'.typed[a] = page.typed[a]
             /\ page'.chosen[a] = page.chosen[a])
  <2> SUFFICES ASSUME TypeOK, Reply \/ Flush \/ (\E a \in Actions : Toggle(a)),
                      NEW k \in Protected(page), k \in page'.kept
               PROVE  /\ k \in page'.checked
                      /\ page'.typed[k] = page.typed[k]
                      /\ page'.chosen[k] = page.chosen[k]
    OBVIOUS
  <2>1. page \in Pages /\ inflight \subseteq Requests
    BY DEF TypeOK
  <2>2. Keeps(page, page') => k \in page'.checked /\ page'.typed[k] = page.typed[k]
                               /\ page'.chosen[k] = page.chosen[k]
    BY DEF Keeps
  <2>3. CASE Reply
    <3> PICK r \in inflight : Stale(r) \/ Fail(r) \/ \E told \in Answers : Answer(r, told)
      BY <2>3 DEF Reply
    <3>1. CASE Stale(r)
      BY <2>2, <3>1 DEF Stale, Keeps, Protected
    <3>2. CASE Fail(r)
      <4>1. page' = Recover(HideBanner(page, r.trigger)) /\ HideBanner(page, r.trigger) \in Pages
        BY <2>1, <3>2, HideBannerType DEF Fail
      <4>2. Alike(HideBanner(page, r.trigger), page')
        BY <4>1, PageIs, Recovered DEF Alike
      <4> QED BY <2>1, <2>2, <4>2, HiddenAlike, AlikeKeeps, KeepsAgain
    <3>3. ASSUME NEW told \in Answers, Answer(r, told) PROVE Keeps(page, page')
      <4> DEFINE q == Apply(page, r.plan, told)
                 d == IF r.trigger = None THEN q ELSE DisableOthers(q, r.trigger)
      <4>1. Keeps(page, q) /\ q \in Pages
        BY <2>1, AppliedKeeps, AppliedType DEF Requests
      <4>2. \/ page' = Prepared(d, r.trigger, r.left - 1)
            \/ page' = HideBanner(q, r.trigger)
        BY <3>3 DEF Answer, Refresh
      <4> HIDE DEF q
      <4>3. Alike(q, d) /\ d \in Pages
        <5>1. Alike(q, q) /\ Alike(q, DisableOthers(q, r.trigger))
          BY <4>1, PageIs, Disabled DEF Alike
        <5> QED BY <4>1, <5>1, DisabledType
      <4> HIDE DEF d
      <4>4. CASE page' = Prepared(d, r.trigger, r.left - 1)
        BY <4>1, <4>3, <4>4, PreparedKeeps, AlikeKeeps, KeepsAgain
      <4>5. CASE page' = HideBanner(q, r.trigger)
        BY <4>1, <4>5, HiddenAlike, AlikeKeeps, KeepsAgain
      <4> QED BY <4>2, <4>4, <4>5
    <3> QED BY <2>2, <3>1, <3>2, <3>3
  <2>4. CASE Flush
    <3> DEFINE p == [checked |-> page.checked, disabled |-> page.disabled, refused |-> page.refused,
                     kept |-> page.kept, banner |-> page.banner, typed |-> page.typed,
                     chosen |-> page.chosen, live |-> page.live, pending |-> None]
    <3>1. page' = page \/ page' = p \/ \E t, l : page' = Prepared(p, t, l)
      BY <2>1, <2>4, FlushPage DEF Flush, Refresh
    <3>2. p \in Pages
      BY <2>1 DEF Pages
    <3>3. Keeps(page, p) /\ Keeps(page, page)
      BY DEF Keeps, Protected
    <3> HIDE DEF p
    <3> QED BY <2>2, <3>1, <3>2, <3>3, PreparedKeeps, KeepsAgain
  <2>5. ASSUME NEW a \in Actions, Toggle(a)
        PROVE  /\ k \in page'.checked
               /\ page'.typed[k] = page.typed[k]
               /\ page'.chosen[k] = page.chosen[k]
    <3> DEFINE isOn == a \notin page.checked
               typed == [page.typed EXCEPT ![a] = IF isOn THEN @ ELSE 0]
               chosen == [page.chosen EXCEPT ![a] = IF isOn THEN @ ELSE 0]
               checked == IF isOn THEN page.checked \union {a} ELSE page.checked \ {a}
               p == [checked |-> checked, disabled |-> page.disabled, refused |-> page.refused,
                     kept |-> page.kept \ {a}, banner |-> page.banner, typed |-> typed,
                     chosen |-> chosen, live |-> page.live, pending |-> page.pending]
    <3>1. page' = p \/ page' = Prepared(p, a, MaxFollowUps)
      BY <2>1, <2>5, TogglePage DEF Toggle, Refresh
    <3>2. /\ typed \in [Actions -> 0..Area + 1] /\ chosen \in Quantities /\ checked \subseteq Actions
          /\ k \in Actions /\ k \in page.checked /\ k \in page.kept
          /\ k # a => k \in checked /\ typed[k] = page.typed[k] /\ chosen[k] = page.chosen[k]
      BY <2>1, SizeAssumption DEF Pages, Quantities, Protected
    <3> HIDE DEF typed, chosen, checked
    <3>3. p \in Pages /\ p.kept = page.kept \ {a} /\ p.checked = checked
          /\ p.typed = typed /\ p.chosen = chosen
      BY <2>1, <3>2 DEF Pages
    <3> HIDE DEF p
    <3>4. Keeps(p, page')
      <4>1. Keeps(p, p)
        BY DEF Keeps, Protected
      <4> QED BY <3>1, <3>3, <4>1, PreparedKeeps
    <3>5. k # a /\ k \in Protected(p)
      BY <3>2, <3>3, <3>4 DEF Keeps, Protected
    <3> QED BY <3>2, <3>3, <3>4, <3>5 DEF Keeps
  <2> QED BY <2>3, <2>4, <2>5
<1> QED BY <1>1, TypeCorrect, PTL DEF KeptUntouched
=============================================================================
