--------------------------- MODULE MCActionsRefresh ---------------------------
(* A parcel with one cover that a quantity action and two actions without    *)
(* quantity compete for; nothing stored yet, or one unit for one or two.     *)
EXTENDS ActionsRefresh

MCCover == <<"arable", "arable", "arable">>

MCDocuments ==
  {[on |-> on, value |-> [a \in Actions |-> IF a \in on THEN 1 ELSE 0]] : on \in {{}, {1, 2}, {2, 3}}}

\* A whole answer, an empty one, and one that leaves out the quantity action
\* and lists another without an area.
MCAnswers ==
  {[listed |-> Actions, measured |-> Actions],
   [listed |-> {}, measured |-> {}],
   [listed |-> {2, 3}, measured |-> {3}]}
=============================================================================
