----------------------------- MODULE MenuGroups -----------------------------
(***************************************************************************)
(* The menu page: groups of entries that a click opens and closes          *)
(* (ToggleMenu, HideAllBut).                                               *)
(***************************************************************************)
EXTENDS Integers, Sequences

CONSTANT Groups    \* number of groups, numbered from 1

ASSUME GroupsAssumption == Groups \in Nat

VARIABLE open      \* the groups whose content is displayed

\* HideAllBut: ids, in ascending order, is shifted when its first element is
\* reached; every other number below max is hidden.
HideAllBut(ids, max) ==
  LET left[n \in 1 .. max] ==
        IF n = 1 THEN ids
        ELSE IF left[n - 1] # << >> /\ Head(left[n - 1]) = n - 1
             THEN Tail(left[n - 1])
             ELSE left[n - 1]
  IN  {n \in 1 .. max - 1 : left[n] # << >> /\ Head(left[n]) = n}

\* The menu page is written with all groups open and hides them.
MenuInit == open = HideAllBut(<< >>, Groups + 1)

\* Variant: the function counts the groups from 1, the page from 0.
ToggleMenuNext(id) ==
  open' = IF id + 1 \in open THEN open \ {id + 1} ELSE open \cup {id + 1}

ToggleMenu(id) == open' = IF id \in open THEN open \ {id} ELSE open \cup {id}

MenuNext == \E id \in 1 .. Groups : ToggleMenu(id)
=============================================================================
