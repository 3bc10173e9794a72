--------------------------- MODULE NavigationProofs ---------------------------
(***************************************************************************)
(* Every request leads to a place there is, a change of the status leads   *)
(* its user to the page it is for, and only users who may change the       *)
(* application, for any grants that keep to the assumptions of Navigation, *)
(* any tabs, sessions and permissions.                                     *)
(***************************************************************************)
EXTENDS Navigation, WellFoundedInduction, TLAPS

-----------------------------------------------------------------------------
(* The first and the last of some pages, and the rule that applies.          *)

\* A set of numbers has a least one, which Min names.
LEMMA Least ==
  ASSUME NEW S, S \subseteq Nat, S # {}
  PROVE  Min(S) \in S /\ \A y \in S : Min(S) <= y
<1> DEFINE R == {ss \in Nat \X Nat : ss[1] < ss[2]}
<1>1. IsWellFoundedOn(R, Nat)
  BY NatLessThanWellFounded DEF OpToRel
<1>2. PICK x \in S : \A y \in S : ~ (<<y, x>> \in R)
  <2> HIDE DEF R
  <2> QED BY <1>1, WFMin
<1>3. \A y \in S : x <= y
  <2> SUFFICES ASSUME NEW y \in S PROVE x <= y
    OBVIOUS
  <2>1. <<y, x>> \in Nat \X Nat /\ <<y, x>>[1] = y /\ <<y, x>>[2] = x
    OBVIOUS
  <2> QED BY <1>2, <2>1
<1> QED BY <1>3 DEF Min

\* Among things with a number some have the least, and where the numbers are
\* bounded some have the greatest.
LEMMA Extremes ==
  ASSUME NEW S, S # {}, NEW bound \in Nat, NEW rank \in [S -> 0..bound]
  PROVE  /\ \E p \in S : \A q \in S : rank[p] <= rank[q]
         /\ \E p \in S : \A q \in S : rank[q] <= rank[p]
<1> DEFINE ranks == {n \in Nat : \E p \in S : n = rank[p]}
           rests == {n \in Nat : \E p \in S : n = bound - rank[p]}
<1>1. PICK p \in S : TRUE
  OBVIOUS
<1>2. \A q \in S : rank[q] \in ranks /\ bound - rank[q] \in rests /\ rank[q] \in 0..bound
  OBVIOUS
<1>3. ranks \subseteq Nat /\ ranks # {} /\ rests \subseteq Nat /\ rests # {}
  BY <1>1, <1>2
<1>4. PICK q \in S : Min(ranks) = rank[q]
  <2>1. Min(ranks) \in ranks
    <3> HIDE DEF ranks
    <3> QED BY <1>3, Least
  <2> QED BY <2>1
<1>5. \A n \in ranks : Min(ranks) <= n
  <2> HIDE DEF ranks
  <2> QED BY <1>3, Least
<1>6. PICK r \in S : Min(rests) = bound - rank[r]
  <2>1. Min(rests) \in rests
    <3> HIDE DEF rests
    <3> QED BY <1>3, Least
  <2> QED BY <2>1
<1>7. \A n \in rests : Min(rests) <= n
  <2> HIDE DEF rests
  <2> QED BY <1>3, Least
<1> HIDE DEF ranks, rests
<1>8. \A s \in S : rank[q] <= rank[s]
  BY <1>2, <1>4, <1>5
<1>9. \A s \in S : rank[s] <= rank[r]
  <2> SUFFICES ASSUME NEW s \in S PROVE rank[s] <= rank[r]
    OBVIOUS
  <2>1. bound - rank[r] <= bound - rank[s]
    BY <1>2, <1>6, <1>7
  <2> QED BY <1>2, <2>1
<1> QED BY <1>8, <1>9

\* The pages of a grant, each at its position.
LEMMA JourneyIs ==
  ASSUME grant \in Grants
  PROVE  /\ DOMAIN grant.journey = 1..Len(grant.journey) /\ Len(grant.journey) \in Nat \ {0}
         /\ ToSet(grant.journey) \subseteq Pages \ {"update-details"}
         /\ StartPage \in ToSet(grant.journey)
         /\ \A p \in ToSet(grant.journey) :
              /\ Position(p) \in 1..Len(grant.journey)
              /\ grant.journey[Position(p)] = p
<1> DEFINE j == grant.journey
<1>1. j \in Seq(Pages \ {"update-details"}) /\ "summary" \in ToSet(j)
  BY GrantsAssumption
<1> HIDE DEF j
<1>2. /\ DOMAIN j = 1..Len(j) /\ Len(j) \in Nat
      /\ \A i \in 1..Len(j) : j[i] \in Pages \ {"update-details"}
  BY <1>1
<1>3. ToSet(j) \subseteq Pages \ {"update-details"} /\ Len(j) # 0
  BY <1>1, <1>2 DEF ToSet
<1>4. Head(j) = j[1] /\ j[1] \in ToSet(j)
  BY <1>1, <1>2, <1>3 DEF ToSet
<1>5. \A p \in ToSet(j) : \E i \in DOMAIN j : j[i] = p
  BY DEF ToSet
<1> QED BY <1>2, <1>3, <1>4, <1>5 DEF j, Position, StartPage

\* What the engine compares pages by.
LEMMA RankIs ==
  ASSUME grant \in Grants, NEW d, NEW p \in Pages, OnPath(d, p)
  PROVE  Rank(p) \in 0..2 * Len(grant.journey) + 1
<1>1. "check-details" \in ToSet(grant.journey)
  BY GrantsAssumption
<1>2. CASE p = "update-details"
  <2>1. Position("check-details") \in 1..Len(grant.journey) /\ Len(grant.journey) \in Nat
    BY <1>1, JourneyIs
  <2> HIDE DEF Position
  <2> QED BY <1>2, <2>1 DEF Rank
<1>3. CASE p # "update-details"
  <2>1. Position(p) \in 1..Len(grant.journey) /\ Len(grant.journey) \in Nat
    BY <1>3, JourneyIs DEF OnPath
  <2> HIDE DEF Position
  <2> QED BY <1>3, <2>1 DEF Rank
<1> QED BY <1>2, <1>3

\* First and LastOf name one of the pages they are given.
LEMMA EndsOf ==
  ASSUME grant \in Grants, NEW d, NEW pages, pages # {}, pages \subseteq {p \in Pages : OnPath(d, p)}
  PROVE  /\ First(pages) \in pages
         /\ LastOf(pages) \in pages /\ \A q \in pages : Rank(q) <= Rank(LastOf(pages))
<1> DEFINE rank == [p \in pages |-> Rank(p)]
           bound == 2 * Len(grant.journey) + 1
<1>1. rank \in [pages -> 0..bound] /\ bound \in Nat
  BY RankIs, JourneyIs
<1>2. \A p \in pages : rank[p] = Rank(p)
  OBVIOUS
<1> HIDE DEF rank, bound
<1>3. /\ \E p \in pages : \A q \in pages : rank[p] <= rank[q]
      /\ \E p \in pages : \A q \in pages : rank[q] <= rank[p]
  BY <1>1, Extremes
<1> QED BY <1>2, <1>3 DEF First, LastOf

\* Some rule always applies.
LEMMA RuleApplies ==
  ASSUME grant \in Grants, NEW from, NEW reported
  PROVE  \E i \in DOMAIN grant.rules : MapStatusToUrl(from, reported, grant.rules) = grant.rules[i]
<1> DEFINE rules == grant.rules
           all == {i \in DOMAIN rules : Matches(rules[i], from, reported)}
<1>1. all \subseteq Nat /\ all # {}
  BY RulesAssumption DEF Matches
<1> HIDE DEF rules
<1>2. Min(all) \in all /\ \A j \in all : Min(all) <= j
  <2> HIDE DEF all
  <2> QED BY <1>1, Least
<1>3. \E i \in DOMAIN rules : /\ Matches(rules[i], from, reported)
                              /\ \A j \in DOMAIN rules : Matches(rules[j], from, reported) => i <= j
  BY <1>2
<1> HIDE DEF all
<1> QED BY <1>3 DEF MapStatusToUrl, rules

LEMMA RuleIs ==
  ASSUME grant \in Grants, NEW from, NEW reported
  PROVE  LET rule == MapStatusToUrl(from, reported, grant.rules)
         IN /\ rule.to \in Status \ {"PURGED"}
            /\ rule.path \in ToSet(grant.journey) \union Outside
            /\ rule.path = "confirmation" => rule.to = "SUBMITTED"
            /\ rule.path \in Places
<1>1. PICK i \in DOMAIN grant.rules : MapStatusToUrl(from, reported, grant.rules) = grant.rules[i]
  BY RuleApplies
<1> QED BY <1>1, JourneyIs, RulesAssumption DEF Places, Elsewhere

-----------------------------------------------------------------------------
(* Every request leads to a place there is.                                  *)

\* The engine answers with a page, on the path where it decides itself.
LEMMA ReachIs ==
  ASSUME grant \in Grants, NEW p \in Pages
  PROVE  /\ Reach(p) \in Pages
         /\ p \notin {"confirmation", "update-details"} => OnPath(doc, Reach(p))
<1> DEFINE way == {q \in Pages : OnPath(doc, q) /\ (OnPath(doc, p) => Rank(q) <= Rank(p))}
           stops == {q \in way : Stops(q)}
<1>1. way # {}
  <2>1. CASE OnPath(doc, p)
    <3>1. Rank(p) <= Rank(p)
      BY <2>1, RankIs
    <3> QED BY <2>1, <3>1
  <2>2. CASE ~OnPath(doc, p)
    <3>1. StartPage \in Pages /\ OnPath(doc, StartPage)
      BY JourneyIs DEF OnPath
    <3> QED BY <2>2, <3>1
  <2> QED BY <2>1, <2>2
<1>2. way \subseteq {q \in Pages : OnPath(doc, q)} /\ stops \subseteq way
  OBVIOUS
<1>3. Reach(p) = IF p = "confirmation" \/ (p = "update-details" /\ doc.pending) THEN p
                 ELSE IF stops # {} THEN First(stops) ELSE LastOf(way)
  BY DEF Reach
<1> HIDE DEF way, stops
<1>4. stops # {} => First(stops) \in stops
  BY <1>2, EndsOf
<1>5. LastOf(way) \in way
  BY <1>1, <1>2, EndsOf
<1> QED BY <1>2, <1>3, <1>4, <1>5 DEF Pages

\* A page that is answered leads on.
LEMMA NextIs ==
  ASSUME grant \in Grants, NEW d, NEW p \in {"check-details", "question"}, p \in ToSet(grant.journey)
  PROVE  NextPage(d, p) \in Pages
<1> DEFINE last == Last(grant.journey)
           later == {q \in Pages : OnPath(d, q) /\ Rank(q) > Rank(p)}
<1>1. /\ last \in ToSet(grant.journey) /\ last \in Pages /\ last # "update-details" /\ last # p
      /\ last = grant.journey[Len(grant.journey)]
  <2>1. Len(grant.journey) \in DOMAIN grant.journey /\ last = grant.journey[Len(grant.journey)]
    BY JourneyIs DEF Last
  <2>2. last \in ToSet(grant.journey)
    BY <2>1 DEF ToSet
  <2> QED BY <2>1, <2>2, JourneyIs, GrantsAssumption
<1>2. /\ Position(last) \in 1..Len(grant.journey) /\ grant.journey[Position(last)] = last
      /\ Position(p) \in 1..Len(grant.journey) /\ grant.journey[Position(p)] = p
      /\ Len(grant.journey) \in Nat /\ DOMAIN grant.journey = 1..Len(grant.journey)
  BY <1>1, JourneyIs
<1> HIDE DEF last, Position
<1>3. Position(last) = Len(grant.journey)
  BY <1>1, <1>2, GrantsAssumption DEF IsInjective
<1>4. Position(p) # Len(grant.journey)
  BY <1>1, <1>2
<1>5. Rank(last) > Rank(p)
  BY <1>1, <1>2, <1>3, <1>4 DEF Rank
<1>6. last \in later
  BY <1>1, <1>5 DEF OnPath
<1> HIDE DEF later
<1>7. First(later) \in later
  BY <1>6, EndsOf DEF later
<1> QED BY <1>7 DEF NextPage, later

\* Where a guard, the gate or the claim journey lead.
LEMMA DestinationsAre ==
  ASSUME grant \in Grants, NEW p
  PROVE  /\ Destination \in Places \union {None}
         /\ BeforeSubmission(p) \in Places \union {None}
         /\ ClaimStart(p) \in Places \union {None}
<1>1. Destination \in Places \union {None}
  BY GrantsAssumption DEF Destination
<1>2. Failing(p) # {} => grant.guards[Min(Failing(p))].to \in Places
  <2>1. Failing(p) \subseteq DOMAIN grant.guards /\ DOMAIN grant.guards \subseteq Nat
    BY GrantsAssumption DEF Failing
  <2>2. Failing(p) # {} => Min(Failing(p)) \in Failing(p)
    BY <2>1, Least
  <2> QED BY <2>1, <2>2, GrantsAssumption
<1> QED BY <1>1, <1>2, RuleIs DEF BeforeSubmission, ClaimStart

\* A tab shows a place or asks for one.
LEMMA PlaceType ==
  ASSUME TypeOK, NEW t \in Tabs, NEW p \in Places,
         \/ Redirect(t, p) \/ Place(t, Shows(p))
         \/ \E method \in {"get", "post"}, site \in {"same-origin", "none"} : Place(t, Asks(p, method, site))
  PROVE  tabs' \in [Tabs -> Requests]
<1>1. tabs[t].fetchSite \in {"same-origin", "none"}
  BY DEF TypeOK, Requests
<1>2. Shows(p) \in Requests
  BY DEF Shows, Requests
<1>3. \A method \in {"get", "post"}, site \in {"same-origin", "none"} : Asks(p, method, site) \in Requests
  BY DEF Asks, Requests
<1>4. \E request \in Requests : tabs' = [tabs EXCEPT ![t] = request]
  BY <1>1, <1>2, <1>3 DEF Redirect, Place
<1> QED BY <1>4 DEF TypeOK

\* What the status GAS reports makes of the document.
LEMMA PersistedIs ==
  ASSUME doc \in Documents, NEW status \in Status
  PROVE  /\ Persisted(status) \in Documents /\ Persisted(status).status = status
         /\ Answers(Persisted(status)) \in {Answers(doc), Answers(Empty)}
         /\ status = "CLEARED" => Answers(Persisted(status)) = Answers(Empty)
BY DEF Persisted, Empty, Documents, Status, Answers

\* A request that the pipeline lets through.
LEMMA ContinueType ==
  ASSUME TypeOK, NEW t \in Tabs, tabs[t].at \in Pages, NEW kept \in Documents, Continue(t, kept)
  PROVE  doc' \in Documents /\ gas' \in grant.statuses \union {"UNKNOWN"} /\ tabs' \in [Tabs -> Requests]
<1> DEFINE p == tabs[t].at
           refusal == Refusal(Session[t], p)
<1>1. grant \in Grants /\ doc \in Documents /\ gas \in grant.statuses \union {"UNKNOWN"}
  BY DEF TypeOK
<1>2. /\ Reach(p) \in Pages
      /\ Reach(p) = p /\ p \in {"check-details", "question"} => p \in ToSet(grant.journey)
  BY <1>1, ReachIs DEF OnPath
<1>3. Pages \subseteq Places /\ {"forbidden", "cannot-submit", "sfd", "confirmation", "update-details"} \subseteq Places
  BY DEF Places, Elsewhere, Outside, Pages
<1>4. refusal \in {None, "forbidden", "cannot-submit"}
  BY DEF Refusal, None
<1>5. \/ /\ doc' = kept /\ gas' = gas /\ Redirect(t, Reach(p))
      \/ /\ refusal # None /\ doc' = kept /\ gas' = gas /\ Place(t, Shows(refusal))
      \/ /\ doc' = kept /\ gas' = gas /\ Place(t, Shows(p))
      \/ ConfirmDetails(t) /\ Reach(p) = p
      \/ Answer(t) /\ Reach(p) = p
      \/ Submit(t, kept)
  BY DEF Continue
<1> HIDE DEF refusal
<1>6. CASE doc' = kept /\ gas' = gas /\ Redirect(t, Reach(p))
  BY <1>1, <1>2, <1>3, <1>6, PlaceType
<1>7. CASE refusal # None /\ doc' = kept /\ gas' = gas /\ Place(t, Shows(refusal))
  BY <1>1, <1>3, <1>4, <1>7, PlaceType
<1>8. CASE doc' = kept /\ gas' = gas /\ Place(t, Shows(p))
  BY <1>1, <1>3, <1>8, PlaceType
<1>9. CASE ConfirmDetails(t) /\ Reach(p) = p
  <2>1. NextPage([doc EXCEPT !.confirmed = "yes"], "check-details") \in Pages
    BY <1>1, <1>2, <1>9, NextIs DEF ConfirmDetails
  <2>2. tabs' \in [Tabs -> Requests]
    BY <1>3, <1>9, <2>1, PlaceType DEF ConfirmDetails, Pages
  <2>3. doc' \in Documents /\ gas' = gas
    BY <1>1, <1>9 DEF ConfirmDetails, Documents
  <2> QED BY <1>1, <2>2, <2>3
<1>10. CASE Answer(t) /\ Reach(p) = p
  <2>1. NextPage(doc, "question") \in Pages
    BY <1>1, <1>2, <1>10, NextIs DEF Answer
  <2>2. tabs' \in [Tabs -> Requests]
    BY <1>3, <1>10, <2>1, PlaceType DEF Answer
  <2>3. doc' \in Documents /\ gas' = gas
    BY <1>1, <1>10 DEF Answer, Documents
  <2> QED BY <1>1, <2>2, <2>3
<1>11. CASE Submit(t, kept)
  <2>1. tabs' \in [Tabs -> Requests]
    BY <1>3, <1>11, PlaceType DEF Submit, Pages
  <2>2. doc' \in Documents /\ gas' \in {gas, "UNKNOWN"}
    BY <1>1, <1>11 DEF Submit, Documents, Status
  <2> QED BY <1>1, <2>1, <2>2
<1> QED BY <1>5, <1>6, <1>7, <1>8, <1>9, <1>10, <1>11

\* The bookkeeping of a request served.
LEMMA BooksType ==
  ASSUME TypeOK, NEW t \in Tabs
  PROVE  /\ ConsumeMarker(t) => marker' \in [Sessions -> Places \union {None}]
         /\ StillDue(t) => due' \in [tab : Tabs \union {None}, to : Places \union {None}]
         /\ \A p \in Places \union {None} :
              marker' = [marker EXCEPT ![Session[t]] = p] => marker' \in [Sessions -> Places \union {None}]
         /\ NothingDue \in [tab : Tabs \union {None}, to : Places \union {None}]
BY DEF TypeOK, ConsumeMarker, StillDue, NothingDue, Sessions

\* GAS is asked of what was submitted only.
LEMMA AskedOf ==
  ASSUME doc \in Documents, NEW s, NEW r, Stage(s, r) = "ask"
  PROVE  /\ doc.status \in {"SUBMITTED", "REOPENED"} /\ marker[s] # r.at
         /\ r.at = "confirmation" => doc.status = "SUBMITTED"
BY DEF Documents, Status, Stage, ClaimStatuses, DraftStatuses

LEMMA TypeServe ==
  ASSUME TypeOK, NEW t \in Tabs, Serve(t)
  PROVE  TypeOK'
<1>0. /\ grant \in Grants /\ doc \in Documents /\ gas \in grant.statuses \union {"UNKNOWN"}
      /\ Empty \in Documents
  BY DEF TypeOK, Documents, Empty, Status
<1>1. CASE Root(t)
  <2>1. StartPage \in Places /\ Destination \in Places \union {None}
    BY <1>0, JourneyIs, DestinationsAre DEF Places
  <2>2. tabs' \in [Tabs -> Requests]
    BY <1>1, <2>1, PlaceType DEF Root
  <2> QED BY <1>1, <2>2, BooksType DEF Root, TypeOK
<1>2. CASE DeletedPage(t)
  <2>1. {"application-deleted", "root"} \subseteq Places
    BY DEF Places, Elsewhere
  <2>2. tabs' \in [Tabs -> Requests]
    BY <1>2, <2>1, PlaceType DEF DeletedPage
  <2>3. doc' \in Documents
    BY <1>0, <1>2 DEF DeletedPage, Documents, Status
  <2> QED BY <1>2, <2>2, <2>3, BooksType DEF DeletedPage, TypeOK
<1>3. CASE Decide(t)
  <2> DEFINE p == tabs[t].at
             stage == Stage(Session[t], tabs[t])
             to == CASE stage = "claim" -> ClaimStart(p) [] stage = "before" -> BeforeSubmission(p)
                     [] stage = "deleted" -> "application-deleted" [] OTHER -> None
  <2>1. /\ p \in Pages
        /\ IF stage = "forbidden" THEN Place(t, Shows("forbidden")) /\ UNCHANGED <<doc, gas>>
           ELSE IF to # None THEN Redirect(t, to) /\ UNCHANGED <<doc, gas>>
           ELSE Continue(t, doc)
        /\ IF stage \in {"deleted", "forbidden"} THEN UNCHANGED marker ELSE ConsumeMarker(t)
        /\ StillDue(t) /\ grant' = grant
    BY <1>3 DEF Decide
  <2>2. {"application-deleted", "forbidden"} \subseteq Places
    BY DEF Places, Elsewhere
  <2> HIDE DEF stage
  <2>3. to \in Places \union {None}
    BY <1>0, <2>2, DestinationsAre
  <2> HIDE DEF to
  <2>4. doc' \in Documents /\ gas' \in grant.statuses \union {"UNKNOWN"} /\ tabs' \in [Tabs -> Requests]
    <3>1. CASE stage = "forbidden"
      BY <1>0, <2>1, <2>2, <3>1, PlaceType
    <3>2. CASE stage # "forbidden" /\ to # None
      BY <1>0, <2>1, <2>3, <3>2, PlaceType
    <3>3. CASE stage # "forbidden" /\ to = None
      BY <1>0, <2>1, <3>3, ContinueType
    <3> QED BY <3>1, <3>2, <3>3
  <2>5. marker' \in [Sessions -> Places \union {None}]
    BY <2>1, BooksType DEF TypeOK
  <2> QED BY <1>0, <2>1, <2>4, <2>5, BooksType DEF TypeOK
<1>4. CASE Ask(t)
  <2> DEFINE rule == MapStatusToUrl(doc.status, gas, grant.rules)
  <2>1. /\ rule.to \in Status /\ rule.path \in Places
    BY <1>0, RuleIs
  <2>2. Persisted(rule.to) \in Documents
    BY <1>0, <2>1, PersistedIs
  <2>3. /\ tabs[t].at \in Pages /\ grant' = grant
        /\ \/ Continue(t, Persisted(rule.to)) /\ ConsumeMarker(t) /\ StillDue(t)
           \/ /\ doc' = Persisted(rule.to) /\ Redirect(t, rule.path) /\ gas' = gas
              /\ marker' = [marker EXCEPT ![Session[t]] = Marked(rule)]
              /\ due' = IF rule.to = doc.status THEN NothingDue ELSE [tab |-> t, to |-> rule.path]
    BY <1>4 DEF Ask
  <2> HIDE DEF rule
  <2>4. CASE Continue(t, Persisted(rule.to)) /\ ConsumeMarker(t) /\ StillDue(t)
    BY <1>0, <2>2, <2>3, <2>4, ContinueType, BooksType DEF TypeOK
  <2>5. CASE /\ doc' = Persisted(rule.to) /\ Redirect(t, rule.path) /\ gas' = gas
             /\ marker' = [marker EXCEPT ![Session[t]] = Marked(rule)]
             /\ due' = IF rule.to = doc.status THEN NothingDue ELSE [tab |-> t, to |-> rule.path]
    <3>1. tabs' \in [Tabs -> Requests]
      BY <2>1, <2>5, PlaceType
    <3>2. Marked(rule) \in Places \union {None}
      BY <2>1 DEF Marked
    <3>3. marker' \in [Sessions -> Places \union {None}]
      BY <2>5, <3>2, BooksType
    <3>4. due' \in [tab : Tabs \union {None}, to : Places \union {None}]
      BY <2>1, <2>5, BooksType
    <3> QED BY <1>0, <2>2, <2>3, <2>5, <3>1, <3>3, <3>4 DEF TypeOK
  <2> QED BY <2>3, <2>4, <2>5
<1>5. CASE AskFails(t)
  <2> DEFINE fallback == MapStatusToUrl("default", "default", grant.rules).path
             written == {Persisted(MapStatusToUrl(doc.status, g, grant.rules).to) : g \in {gas} \ {"UNKNOWN"}}
  <2>1. fallback \in Places /\ written \subseteq Documents
    BY <1>0, RuleIs, PersistedIs
  <2>2. PICK kept \in {doc} \union {d \in written : d.status # "CLEARED"} :
          Continue(t, kept) \/ (doc' = kept /\ Redirect(t, fallback) /\ UNCHANGED gas)
    BY <1>5 DEF AskFails
  <2>3. tabs[t].at \in Pages /\ ConsumeMarker(t) /\ StillDue(t) /\ grant' = grant
    BY <1>5 DEF AskFails
  <2> HIDE DEF fallback, written
  <2>4. kept \in Documents
    BY <1>0, <2>1
  <2>5. doc' \in Documents /\ gas' \in grant.statuses \union {"UNKNOWN"} /\ tabs' \in [Tabs -> Requests]
    BY <1>0, <2>1, <2>2, <2>3, <2>4, ContinueType, PlaceType
  <2> QED BY <1>0, <2>3, <2>5, BooksType DEF TypeOK
<1> QED BY <1>1, <1>2, <1>3, <1>4, <1>5 DEF Serve

\* Documents, markers and tabs hold what they may hold.
THEOREM NavigationTypeCorrect == Spec => []TypeOK
<1>1. Init => TypeOK
  <2>1. Empty \in Documents
    BY DEF Empty, Documents, Status
  <2>2. Shows("outside") \in Requests
    BY DEF Shows, Requests, Places, Elsewhere, Outside
  <2> QED BY <2>1, <2>2 DEF Init, TypeOK, NothingDue
<1>2. TypeOK /\ [Next]_vars => TypeOK'
  <2> SUFFICES ASSUME TypeOK, [Next]_vars PROVE TypeOK'
    OBVIOUS
  <2>0. grant \in Grants /\ doc \in Documents /\ NothingDue \in [tab : Tabs \union {None}, to : Places \union {None}]
    BY DEF TypeOK, NothingDue
  <2>1. ASSUME NEW t \in Tabs, Serve(t) PROVE TypeOK'
    BY <2>1, TypeServe
  <2>2. ASSUME NEW t \in Tabs, Post(t) PROVE TypeOK'
    <3>1. tabs' \in [Tabs -> Requests]
      BY <2>2, PlaceType DEF Post, Places, Pages, Elsewhere
    <3> QED BY <2>0, <2>2, <3>1 DEF Post, TypeOK
  <2>3. ASSUME NEW t \in Tabs, NEW p \in Entries, Enter(t, p) PROVE TypeOK'
    <3>1. tabs' \in [Tabs -> Requests]
      BY <2>3, EntriesAssumption, PlaceType DEF Enter
    <3> QED BY <2>0, <2>3, <3>1 DEF Enter, TypeOK
  <2>4. ASSUME NEW t \in Tabs, NEW p \in ToSet(grant.journey), Follow(t, p) PROVE TypeOK'
    <3>1. p \in Places
      BY <2>0, JourneyIs DEF Places
    <3>2. tabs' \in [Tabs -> Requests]
      BY <2>4, <3>1, PlaceType DEF Follow
    <3> QED BY <2>0, <2>4, <3>2 DEF Follow, TypeOK
  <2>5. CASE GasDecides
    BY <2>5 DEF GasDecides, TypeOK
  <2>6. CASE Purge
    <3>1. doc' \in Documents
      BY <2>0, <2>6 DEF Purge, Documents, Status
    <3> QED BY <2>0, <2>6, <3>1 DEF Purge, TypeOK
  <2>7. CASE UNCHANGED vars
    BY <2>7 DEF vars, TypeOK
  <2> QED BY <2>1, <2>2, <2>3, <2>4, <2>5, <2>6, <2>7 DEF Next
<1> QED BY <1>1, <1>2, PTL DEF Spec

-----------------------------------------------------------------------------
(* Who may change what.                                                      *)

\* What a request for the session may make of the document.
Entitled(s) ==
  /\ Answers(doc') \notin {Answers(doc), Answers(Empty)} => Can(s, "amend")
  /\ doc'.status = "SUBMITTED" /\ doc.status # "SUBMITTED" => Can(s, "submit")

\* A document no user had to be asked for.
Kept(d) ==
  /\ Answers(d) \in {Answers(doc), Answers(Empty)}
  /\ d.status = "SUBMITTED" => doc.status = "SUBMITTED"

LEMMA ContinueEntitled ==
  ASSUME doc \in Documents, NEW t, NEW kept, Kept(kept), Continue(t, kept)
  PROVE  Entitled(Session[t])
<1> DEFINE p == tabs[t].at
           s == Session[t]
<1>1. CASE doc' = kept
  BY <1>1 DEF Kept, Entitled
<1>2. CASE doc' # kept
  <2>1. Refusal(s, p) = None
    BY <1>2 DEF Continue
  <2>2. p = "confirmation" \/ Can(s, RequiredPermission(p))
    BY <2>1 DEF Refusal, None
  <2>3. ConfirmDetails(t) \/ Answer(t) \/ Submit(t, kept)
    BY <1>2 DEF Continue
  <2>4. CASE ConfirmDetails(t) \/ Answer(t)
    <3>1. p \in {"check-details", "question"} /\ doc'.status = doc.status
      BY <2>4 DEF ConfirmDetails, Answer, Documents
    <3> QED BY <2>2, <3>1 DEF RequiredPermission, Entitled
  <2>5. CASE Submit(t, kept)
    <3>1. p = "declaration" /\ doc' = [doc EXCEPT !.status = "SUBMITTED"]
      BY <1>2, <2>5 DEF Submit
    <3>2. Answers(doc') = Answers(doc)
      BY <3>1 DEF Answers, Documents
    <3> QED BY <2>2, <3>1, <3>2 DEF RequiredPermission, Entitled
  <2> QED BY <2>3, <2>4, <2>5
<1> QED BY <1>1, <1>2

LEMMA ServeEntitled ==
  ASSUME TypeOK, NEW t \in Tabs, Serve(t)
  PROVE  Entitled(Session[t])
<1>0. grant \in Grants /\ doc \in Documents /\ Kept(doc) /\ gas \in grant.statuses \union {"UNKNOWN"}
  BY DEF TypeOK, Kept
<1>1. \A d : Kept(d) /\ doc' = d => Entitled(Session[t])
  BY DEF Kept, Entitled
<1>2. ASSUME Stage(Session[t], tabs[t]) = "ask", NEW g \in grant.statuses
      PROVE  Kept(Persisted(MapStatusToUrl(doc.status, g, grant.rules).to))
  <2> DEFINE rule == MapStatusToUrl(doc.status, g, grant.rules)
  <2>1. rule.to \in Status
    BY <1>0, RuleIs
  <2>2. doc.status \in {"SUBMITTED", "REOPENED"}
    BY <1>0, <1>2, AskedOf
  <2>3. rule.to = "SUBMITTED" => doc.status = "SUBMITTED"
    BY <1>0, <2>2, RulesAssumption
  <2> HIDE DEF rule
  <2>4. Kept(Persisted(rule.to))
    BY <1>0, <2>1, <2>3, PersistedIs DEF Kept
  <2> QED BY <2>4 DEF rule
<1>3. CASE Root(t)
  BY <1>0, <1>1, <1>3 DEF Root
<1>4. CASE DeletedPage(t)
  <2>1. Kept(Empty) /\ Kept([Empty EXCEPT !.status = "PURGED"])
    BY DEF Kept, Answers, Empty
  <2> QED BY <1>0, <1>1, <1>4, <2>1 DEF DeletedPage
<1>5. CASE Decide(t)
  <2>1. Continue(t, doc) \/ doc' = doc
    BY <1>5 DEF Decide
  <2> QED BY <1>0, <1>1, <2>1, ContinueEntitled
<1>6. CASE Ask(t)
  <2> DEFINE kept == Persisted(MapStatusToUrl(doc.status, gas, grant.rules).to)
  <2>1. Stage(Session[t], tabs[t]) = "ask" /\ gas # "UNKNOWN" /\ (Continue(t, kept) \/ doc' = kept)
    BY <1>6 DEF Ask
  <2>2. Kept(kept)
    BY <1>0, <1>2, <2>1
  <2> HIDE DEF kept
  <2> QED BY <1>0, <1>1, <2>1, <2>2, ContinueEntitled
<1>7. CASE AskFails(t)
  <2> DEFINE written == {Persisted(MapStatusToUrl(doc.status, g, grant.rules).to) : g \in {gas} \ {"UNKNOWN"}}
  <2>1. Stage(Session[t], tabs[t]) = "ask"
    BY <1>7 DEF AskFails
  <2>2. PICK kept \in {doc} \union {d \in written : d.status # "CLEARED"} : Continue(t, kept) \/ doc' = kept
    BY <1>7 DEF AskFails
  <2>3. Kept(kept)
    BY <1>0, <1>2, <2>1, <2>2
  <2> QED BY <1>0, <1>1, <2>2, <2>3, ContinueEntitled
<1> QED BY <1>3, <1>4, <1>5, <1>6, <1>7 DEF Serve

\* Only a tab whose request is served changes while it waits for an answer.
LEMMA OnlyServed ==
  ASSUME TypeOK, [Next]_vars, NEW t \in Tabs, tabs'[t] # tabs[t], tabs[t].busy
  PROVE  Serve(t)
<1>1. ASSUME NEW u \in Tabs, NEW request, Place(u, request), u # t PROVE FALSE
  BY <1>1 DEF Place, TypeOK
<1>2. ASSUME NEW u \in Tabs, NEW p, Redirect(u, p), u # t PROVE FALSE
  BY <1>1, <1>2 DEF Redirect
<1>3. ASSUME NEW u \in Tabs, Serve(u), u # t PROVE FALSE
  <2>1. \A kept : ~Continue(u, kept)
    BY <1>1, <1>2, <1>3 DEF Continue, ConfirmDetails, Answer, Submit
  <2> QED BY <1>1, <1>2, <1>3, <2>1 DEF Serve, Root, DeletedPage, Decide, Ask, AskFails
<1>4. ASSUME NEW u \in Tabs, Post(u) \/ (\E p : Enter(u, p) \/ Follow(u, p)) PROVE FALSE
  <2>1. u # t
    BY <1>4 DEF Post, Enter, Follow
  <2> QED BY <1>1, <1>4, <2>1 DEF Post, Enter, Follow
<1>5. ~GasDecides /\ ~Purge /\ ~UNCHANGED vars
  BY DEF GasDecides, Purge, vars
<1> QED BY <1>3, <1>4, <1>5 DEF Next

\* Only a user who may amend changes an answer, and only one who may submit
\* submits, whatever way a request takes through the pipeline.
THEOREM EntitledCorrect == Spec => OnlyTheEntitled
<1>1. TypeOK /\ [Next]_vars
        => [\A t \in Tabs : tabs'[t] # tabs[t] /\ tabs[t].busy =>
              /\ Answers(doc') \notin {Answers(doc), Answers(Empty)} => Can(Session[t], "amend")
              /\ doc'.status = "SUBMITTED" /\ doc.status # "SUBMITTED" => Can(Session[t], "submit")]_vars
  BY OnlyServed, ServeEntitled DEF Entitled
<1> QED BY <1>1, NavigationTypeCorrect, PTL DEF Spec, OnlyTheEntitled

-----------------------------------------------------------------------------
(* Where a change of the status leads.                                       *)

\* A tab on its way to a page, which the marker of its session lets it reach.
OnTheWay(t, p) ==
  /\ tabs[t].at = p /\ tabs[t].busy /\ tabs[t].method = "get" /\ marker[Session[t]] = p
  /\ p \in ToSet(grant.journey)
  /\ doc.status # "PURGED" /\ (p = "confirmation" => doc.status = "SUBMITTED")

Arrived(t, p) ==
  /\ ~tabs[t].busy
  /\ tabs[t].at \in {p} \union
       IF Can(Session[t], RequiredPermission(p)) THEN {} ELSE {"forbidden", "cannot-submit"}

\* The strengthening of StatusChangeArrives: what is due to a tab is on its way
\* or there, and meanwhile the tab posts no answer that completes the others.
DueInv ==
  due.tab # None =>
    /\ tabs[due.tab].busy => tabs[due.tab].method = "get"
    /\ Complete => OnTheWay(due.tab, due.to) \/ Arrived(due.tab, due.to)

\* The engine lets a user with all answers reach every page of the journey.
LEMMA CompleteReaches ==
  ASSUME grant \in Grants, Complete, NEW p \in ToSet(grant.journey)
  PROVE  Reach(p) = p
<1> DEFINE way == {q \in Pages : OnPath(doc, q) /\ (OnPath(doc, p) => Rank(q) <= Rank(p))}
           stops == {q \in way : Stops(q)}
<1>1. /\ p \in Pages /\ p # "update-details" /\ OnPath(doc, p)
      /\ \A q \in Pages : OnPath(doc, q) => q \in ToSet(grant.journey) /\ q # "update-details"
  BY JourneyIs DEF OnPath, Complete
<1>2. stops = {}
  BY DEF Stops, Complete
<1>3. ASSUME NEW q \in ToSet(grant.journey) PROVE Rank(q) = 2 * Position(q) /\ Position(q) \in Nat
  BY JourneyIs DEF Rank
<1>4. p \in way /\ way \subseteq {q \in Pages : OnPath(doc, q)} /\ \A q \in way : Rank(q) <= Rank(p)
  BY <1>1, <1>3
<1>5. Reach(p) = IF p = "confirmation" \/ (p = "update-details" /\ doc.pending) THEN p
                 ELSE IF stops # {} THEN First(stops) ELSE LastOf(way)
  BY DEF Reach
<1> HIDE DEF way, stops
<1>6. LastOf(way) \in way /\ Rank(p) <= Rank(LastOf(way)) /\ Rank(LastOf(way)) <= Rank(p)
  BY <1>4, EndsOf
<1>7. LastOf(way) \in ToSet(grant.journey)
  BY <1>1, <1>4, <1>6
<1>8. Position(LastOf(way)) = Position(p)
  BY <1>3, <1>6, <1>7
<1>9. LastOf(way) = p
  BY <1>7, <1>8, JourneyIs
<1> QED BY <1>2, <1>5, <1>9

\* A refusal is a page of its own, for a user who lacks the permission.
LEMMA RefusalIs ==
  ASSUME NEW s, NEW p, p = "confirmation" => doc.status = "SUBMITTED"
  PROVE  /\ Refusal(s, p) \in {None, "forbidden", "cannot-submit"}
         /\ Can(s, RequiredPermission(p)) => Refusal(s, p) = None
<1>1. CASE ViewOnly(s)
  BY <1>1 DEF Refusal, ViewOnly, RequiredPermission, None
<1>2. CASE ~ViewOnly(s)
  BY <1>2 DEF Refusal, None
<1> QED BY <1>1, <1>2

\* A tab on its way arrives with its next request.
LEMMA WayEnds ==
  ASSUME TypeOK, NEW t \in Tabs, Serve(t), NEW p, OnTheWay(t, p), Complete
  PROVE  /\ ~tabs'[t].busy /\ grant' = grant
         /\ tabs'[t].at \in {p} \union
              IF Can(Session[t], RequiredPermission(p)) THEN {} ELSE {"forbidden", "cannot-submit"}
<1>0. /\ grant \in Grants /\ doc \in Documents /\ p \in Pages /\ p = tabs[t].at
      /\ p \notin {"root", "application-deleted"} /\ tabs \in [Tabs -> Requests]
  BY JourneyIs DEF TypeOK, OnTheWay, Pages
<1>1. ~Root(t) /\ ~DeletedPage(t)
  BY <1>0 DEF Root, DeletedPage
<1>2. Stage(Session[t], tabs[t]) = "go"
  BY <1>0 DEF Stage, OnTheWay, DraftStatuses
<1>3. Decide(t)
  BY <1>1, <1>2 DEF Serve, Ask, AskFails
<1>4. Continue(t, doc) /\ grant' = grant
  BY <1>2, <1>3 DEF Decide
<1>5. Reach(p) = p
  BY <1>0, CompleteReaches DEF OnTheWay
<1>6. /\ Refusal(Session[t], p) \in {None, "forbidden", "cannot-submit"}
      /\ Can(Session[t], RequiredPermission(p)) => Refusal(Session[t], p) = None
  BY RefusalIs DEF OnTheWay
<1>7. \/ Refusal(Session[t], p) = None /\ Place(t, Shows(p))
      \/ Refusal(Session[t], p) # None /\ Place(t, Shows(Refusal(Session[t], p)))
  BY <1>0, <1>4, <1>5 DEF Continue, OnTheWay
<1> QED BY <1>0, <1>4, <1>6, <1>7 DEF Place, Shows

\* A request that posts nothing completes no answers, and leads to a request
\* that posts nothing.
LEMMA GetIs ==
  ASSUME TypeOK, NEW t \in Tabs, Serve(t), tabs[t].method = "get"
  PROVE  /\ Complete' => Complete
         /\ tabs'[t].busy => tabs'[t].method = "get"
<1>0. /\ grant \in Grants /\ doc \in Documents /\ tabs \in [Tabs -> Requests]
      /\ ~(Empty.confirmed = "yes")
  BY DEF TypeOK, Empty
<1>1. \A d : doc' = d /\ Answers(d) \in {Answers(doc), Answers(Empty)} => (Complete' => Complete)
  BY <1>0 DEF Complete, Answers
<1>2. \A p : Redirect(t, p) => (tabs'[t].busy => tabs'[t].method = "get")
  BY <1>0 DEF Redirect, Place, Asks, Shows
<1>3. \A p : Place(t, Shows(p)) => ~tabs'[t].busy
  BY <1>0 DEF Place, Shows
<1>4. ASSUME NEW kept, Answers(kept) \in {Answers(doc), Answers(Empty)}, Continue(t, kept)
      PROVE  /\ Complete' => Complete
             /\ tabs'[t].busy => tabs'[t].method = "get"
  BY <1>1, <1>2, <1>3, <1>4 DEF Continue
<1>5. \A from, reported : Answers(Persisted(MapStatusToUrl(from, reported, grant.rules).to))
                            \in {Answers(doc), Answers(Empty)}
  BY <1>0, RuleIs, PersistedIs
<1>6. CASE Root(t)
  BY <1>1, <1>2, <1>6 DEF Root
<1>7. CASE DeletedPage(t)
  <2>1. Answers([Empty EXCEPT !.status = "PURGED"]) = Answers(Empty)
    BY DEF Answers, Empty
  <2> QED BY <1>1, <1>2, <1>3, <1>7, <2>1 DEF DeletedPage
<1>8. CASE Decide(t)
  BY <1>1, <1>2, <1>3, <1>4, <1>8 DEF Decide
<1>9. CASE Ask(t)
  BY <1>1, <1>2, <1>4, <1>5, <1>9 DEF Ask
<1>10. CASE AskFails(t)
  BY <1>1, <1>2, <1>4, <1>5, <1>10 DEF AskFails
<1> QED BY <1>6, <1>7, <1>8, <1>9, <1>10 DEF Serve

LEMMA DueServe ==
  ASSUME TypeOK, DueInv, NEW t \in Tabs, Serve(t)
  PROVE  DueInv'
<1>0. /\ grant \in Grants /\ doc \in Documents /\ tabs \in [Tabs -> Requests]
      /\ marker \in [Sessions -> Places \union {None}] /\ Session[t] \in Sessions
  BY DEF TypeOK, Sessions
<1>1. tabs[t].busy /\ NothingDue.tab = None
  BY DEF Serve, NothingDue
<1>2. \/ StillDue(t)
      \/ due' = NothingDue
      \/ /\ Ask(t) /\ due'.tab = t
         /\ due' = [tab |-> t, to |-> MapStatusToUrl(doc.status, gas, grant.rules).path]
  BY DEF Serve, Root, DeletedPage, Decide, Ask, AskFails
<1>3. CASE due' = NothingDue
  BY <1>1, <1>3 DEF DueInv
<1>4. CASE StillDue(t)
  <2>1. CASE due.tab # t
    BY <1>1, <1>4, <2>1 DEF StillDue, DueInv
  <2>2. CASE due.tab = t /\ due.tab # None
    <3>1. due' = due /\ tabs[t].method = "get"
      BY <1>1, <1>4, <2>2 DEF StillDue, DueInv
    <3>2. /\ Complete' => Complete
          /\ tabs'[t].busy => tabs'[t].method = "get"
      BY <3>1, GetIs
    <3>3. Complete => OnTheWay(t, due.to)
      BY <1>1, <2>2 DEF DueInv, Arrived
    <3>4. Complete =>
            /\ ~tabs'[t].busy /\ grant' = grant
            /\ tabs'[t].at \in {due.to} \union
                 IF Can(Session[t], RequiredPermission(due.to)) THEN {} ELSE {"forbidden", "cannot-submit"}
      BY <3>3, WayEnds
    <3> QED BY <2>2, <3>1, <3>2, <3>4 DEF DueInv, Arrived, Can, RequiredPermission
  <2>3. CASE due.tab = None
    BY <1>1, <1>4, <2>3 DEF StillDue, DueInv
  <2> QED BY <2>1, <2>2, <2>3
<1>5. CASE /\ Ask(t) /\ due'.tab = t
           /\ due' = [tab |-> t, to |-> MapStatusToUrl(doc.status, gas, grant.rules).path]
           /\ ~StillDue(t) /\ due' # NothingDue
  <2> DEFINE rule == MapStatusToUrl(doc.status, gas, grant.rules)
  <2>1. /\ rule.to \in Status \ {"PURGED"} /\ rule.path \in ToSet(grant.journey) \union Outside
        /\ rule.path = "confirmation" => rule.to = "SUBMITTED"
    BY <1>0, RuleIs
  <2>2. /\ doc' = Persisted(rule.to) /\ Redirect(t, rule.path) /\ grant' = grant
        /\ marker' = [marker EXCEPT ![Session[t]] = Marked(rule)]
        /\ due' = [tab |-> t, to |-> rule.path] /\ rule.to # doc.status
    BY <1>1, <1>5 DEF Ask
  <2> HIDE DEF rule
  <2>3. marker'[Session[t]] = rule.path /\ doc'.status = rule.to
    BY <1>0, <2>1, <2>2, PersistedIs DEF Marked
  <2>4. CASE rule.path \in Outside
    <3>1. tabs'[t] = Shows(rule.path)
      BY <1>0, <2>2, <2>4 DEF Redirect, Place
    <3> QED BY <2>2, <3>1 DEF DueInv, Arrived, Shows
  <2>5. CASE rule.path \notin Outside
    <3>1. tabs'[t] = Asks(rule.path, "get", tabs[t].fetchSite)
      BY <1>0, <2>2, <2>5 DEF Redirect, Place
    <3> QED BY <2>1, <2>2, <2>3, <2>5, <3>1 DEF DueInv, OnTheWay, Asks
  <2> QED BY <2>4, <2>5
<1> QED BY <1>2, <1>3, <1>4, <1>5

\* What else happens leaves a tab on its way alone, or is its own user's doing.
LEMMA DueStep ==
  ASSUME TypeOK, DueInv, [Next]_vars
  PROVE  DueInv'
<1>1. ASSUME NEW t \in Tabs, Serve(t) PROVE DueInv'
  BY <1>1, DueServe
<1>2. ASSUME NEW t \in Tabs, Post(t) \/ \E p : Enter(t, p) \/ Follow(t, p) PROVE DueInv'
  <2>1. /\ due' = (IF due.tab = t THEN NothingDue ELSE due) /\ UNCHANGED <<grant, doc, gas, marker>>
        /\ \E request : tabs' = [tabs EXCEPT ![t] = request]
    BY <1>2 DEF Post, Enter, Follow, Place
  <2>2. CASE due.tab = t
    BY <2>1, <2>2 DEF DueInv, NothingDue
  <2>3. CASE due.tab # t
    <3>1. due.tab # None => due.tab \in Tabs /\ tabs'[due.tab] = tabs[due.tab] /\ due' = due
      BY <2>1, <2>3 DEF TypeOK
    <3> QED BY <2>1, <2>3, <3>1 DEF DueInv, Complete, OnTheWay, Arrived, Can, RequiredPermission
  <2> QED BY <2>2, <2>3
<1>3. CASE GasDecides
  BY <1>3 DEF GasDecides, DueInv, Complete, OnTheWay, Arrived, Can, RequiredPermission
<1>4. CASE Purge
  BY <1>4 DEF Purge, DueInv, NothingDue
<1>5. CASE UNCHANGED vars
  BY <1>5 DEF vars, DueInv, Complete, OnTheWay, Arrived, Can, RequiredPermission
<1> QED BY <1>1, <1>2, <1>3, <1>4, <1>5 DEF Next

\* A change of the status leads its user to the page it is for.
THEOREM ArrivalCorrect == Spec => []StatusChangeArrives
<1>1. Init => DueInv
  BY DEF Init, DueInv, NothingDue
<1>2. DueInv => StatusChangeArrives
  BY DEF DueInv, StatusChangeArrives, OnTheWay, Arrived
<1> QED BY <1>1, <1>2, DueStep, NavigationTypeCorrect, PTL DEF Spec
===============================================================================
