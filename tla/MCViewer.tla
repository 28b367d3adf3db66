------------------------------ MODULE MCViewer ------------------------------
(***************************************************************************)
(* An instance of Viewer, and what its operators without state compute,    *)
(* compared with what they are meant to.                                   *)
(***************************************************************************)
EXTENDS Viewer

MCSettings == {[agent |-> {"gecko"}, mode |-> "FramedHTML"],
               [agent |-> {"msie", "msie 6"}, mode |-> "HTML"]}

\* General has a page for the prompt and one for what is typed, Types for neither.
MCTexts  == {<< >>, <<"O">>, <<"O", " ", "V">>}
MCPrompt == <<"S">>
MCEntries == [General |-> {<<"O", "W">>}, Types |-> {<<"A">>}]

\* Two links share a tooltip; one is so far to the right that its tooltip has
\* to be moved; one tooltip is as wide as the narrowest page.
MCTipOf    == [l1 |-> "t1", l2 |-> "t1", l3 |-> "t2"]
MCOffsets  == [l1 |-> <<0, 1>>, l2 |-> <<1, 2>>, l3 |-> <<3>>]
MCTipWidth == [t1 |-> 2, t2 |-> 3]

-----------------------------------------------------------------------------
(* Pages of results. *)

\* Every page of five elements, in document order; each child of the first is a row.
Trees ==
  LET parents == {f \in [0 .. 4 -> -1 .. 3] :
                    f[0] = Null /\ f[1] = 0
                    /\ \A n \in 2 .. 4 : /\ f[n] \in 0 .. n - 1
                                        /\ \A m \in f[n] + 1 .. n - 1 : f[n] <= f[m]}
      kinds == {k \in [0 .. 4 -> {"div", "SRResult", "ISubIndex", "link"}] :
                  k[0] = "div" /\ k[1] = "SRResult"}
  IN  {[parent |-> f, kind |-> k, name |-> [n \in 0 .. 4 |-> <<"A">>]] :
         <<f, k>> \in {fk \in parents \X kinds :
           \A n \in 1 .. 4 : fk[2][n] = "SRResult" <=> fk[1][n] = 0}}

\* Five rows, the names of which begin alike.
Names == << <<"A">>, <<"A", "_", "I">>, <<"A", " ", "I">>, <<"_", "A">>,
            <<"A", "#", "(">> >>
Index == [parent |-> [n \in 0 .. 5 |-> IF n = 0 THEN Null ELSE 0],
          kind   |-> [n \in 0 .. 5 |-> IF n = 0 THEN "div" ELSE "SRResult"],
          name   |-> [n \in 0 .. 5 |-> IF n = 0 THEN << >> ELSE Names[n]]]

MCPages == Trees \cup {Index}

\* Among them symbols in an order that is not that of the passes, spaces that
\* are taken off or put together, and a symbol ("|") that has no code.
MCQueries ==
  [page \in MCPages |->
     IF page # Index THEN {<<"B">>}
     ELSE {<<"A">>, <<"I">>, <<"_">>, <<"A", "_">>, <<"A", "_", "I">>,
           <<" ", "A", " ", " ", "I">>, <<"A", " ">>, <<"A", "#", "(">>,
           <<"A", "(", "#">>, <<"_", "A", " ">>, <<"A", "|">>, <<"|", "I">>}]

-----------------------------------------------------------------------------
(* User agents, as the browsers of the time send them. *)
ASSUME UserAgentsAssumption ==
  /\ BrowserVer({"opera", "opera/9"}) = "Opera9"
  /\ BrowserType({"msie", "msie 6", "opera", "opera 8"}) = "Opera"
  /\ BrowserVer({"applewebkit", "khtml", "gecko", "safari/4"}) = "Safari2"
  /\ BrowserType({"khtml", "gecko"}) = "Konqueror"
  /\ BrowserVer({"msie", "msie 6"}) = "IE6"
  /\ BrowserVer({"gecko", "rv:1.8.1"}) = "Firefox2"
  /\ BrowserVer({"gecko", "rv:1.8)"}) = "Firefox15"
  /\ BrowserVer({"gecko", "rv:1.9"}) = ""

\* HideAllBut leaves the groups of an ascending list displayed.
ASSUME HideAllButAssumption ==
  \A S \in SUBSET (1 .. 6) : HideAllBut(SetToSortSeq(S, LAMBDA a, b : a < b), 7) = S

\* As many pages of results lie in docs/html/search for each topic.
ASSUME PagesOnDiskAssumption ==
  [t \in DOMAIN indexSectionsWithContent |->
     Cardinality(indexSectionsWithContent[t])]
  = [General |-> 23, Variables |-> 20, Files |-> 1, Constants |-> 7,
     Types |-> 3, Methods |-> 20, Classes |-> 2, Ports |-> 8, Macros |-> 1]
=============================================================================
