----------------------------- MODULE ViewerPage -----------------------------
(***************************************************************************)
(* What every page of the UVM class reference has when it loads main.js:   *)
(* the browser it detects, its window, and positions on the page.          *)
(*                                                                         *)
(* A user agent is the set of those substrings main.js looks for that it   *)
(* contains.                                                               *)
(***************************************************************************)
EXTENDS Integers, Sequences

VARIABLES agent,      \* navigator.userAgent
          mode,       \* the output mode, "HTML" or "FramedHTML"
          docWidth    \* width of the window's document area

pageVars == <<agent, mode, docWidth>>

-----------------------------------------------------------------------------
(* The tests are made in this order: browsers name each other. *)
Brands == << <<"opera", "Opera">>, <<"applewebkit", "Safari">>,
             <<"khtml", "Konqueror">>, <<"msie", "IE">>,
             <<"gecko", "Firefox">> >>

Versions ==
  [Opera     |-> << <<"opera 7", "Opera7">>, <<"opera/7", "Opera7">>,
                    <<"opera 8", "Opera8">>, <<"opera/8", "Opera8">>,
                    <<"opera 9", "Opera9">>, <<"opera/9", "Opera9">> >>,
   Safari    |-> << <<"version/3", "Safari3">>, <<"safari/4", "Safari2">> >>,
   Konqueror |-> << >>,
   IE        |-> << <<"msie 6", "IE6">>, <<"msie 7", "IE7">> >>,
   Firefox   |-> << <<"rv:1.7", "Firefox1">>, <<"rv:1.8)", "Firefox15">>,
                    <<"rv:1.8.0", "Firefox15">>, <<"rv:1.8.1", "Firefox2">> >>]

FirstFound(tests, agt) ==
  LET found == SelectSeq(tests, LAMBDA t : t[1] \in agt)
  IN  IF found = << >> THEN "" ELSE found[1][2]

BrowserType(agt) == FirstFound(Brands, agt)

BrowserVer(agt) == IF BrowserType(agt) = "" THEN ""
                   ELSE FirstFound(Versions[BrowserType(agt)], agt)

-----------------------------------------------------------------------------
\* GetXPosition and GetYPosition: the offsets of an element and of the
\* elements it is positioned in, added up until the body.
Position(offsets) ==
  LET upTo[i \in 0 .. Len(offsets)] ==
        IF i = 0 THEN 0 ELSE upTo[i - 1] + offsets[i]
  IN  upTo[Len(offsets)]
=============================================================================
