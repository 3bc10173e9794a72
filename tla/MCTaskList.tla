------------------------------ MODULE MCTaskList ------------------------------
(* Small forms: a list, four pages of one or two sections, each asked always *)
(* or on an earlier answer, with an exit, an optional, an unlisted or a      *)
(* landing page among them.                                                  *)
EXTENDS TaskList

CONSTANTS A, B     \* two sections

On(q, value) == [page |-> q, is |-> value]
MCPage(kind, section, when, links) ==
  [kind |-> kind, section |-> section, when |-> when, links |-> links]

List == MCPage("list", None, Always, <<>>)
Question(section, when) == MCPage("question", section, when, <<>>)

Thirds == {Question(A, On(2, "yes")), Question(B, Always), MCPage("optional", A, Always, <<>>)}
Fourths ==
  {Question(B, On(3, "yes")), Question(A, Always), Question(B, On(2, "yes")),
   MCPage("exit", None, On(3, "no"), <<>>), MCPage("unlisted", A, Always, <<>>)}
Fifths == {Question(B, Always), Question(B, On(4, "yes")), Question(None, On(2, "no"))}
Lasts == {MCPage("landing", None, Always, <<2>>), List}

MCForms ==
  {[showQuestions |-> shows[1], returnAfterSection |-> shows[2],
    pages |-> <<List, Question(A, Always), third, fourth, fifth>>] :
     shows \in {<<TRUE, TRUE>>, <<FALSE, TRUE>>, <<TRUE, FALSE>>},
     third \in Thirds, fourth \in Fourths, fifth \in Fifths \union Lasts}

\* The tabs are alike, and no property names one.
TabSymmetry == Permutations(Tabs)
=============================================================================
