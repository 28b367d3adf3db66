--------------------------- MODULE BlockquoteFix ----------------------------
(***************************************************************************)
(* The width of blockquotes in Internet Explorer 6 (NDOnLoad, NDOnResize,  *)
(* NDDoResize).  Widths are in units of NDDoResize's 100.                  *)
(*                                                                         *)
(* Layout, which is the browser's: the parent of the blockquotes is as     *)
(* wide as the window, or as the widest of them if that is wider.          *)
(***************************************************************************)
EXTENDS ViewerPage, FiniteSetsExt

CONSTANTS Boxes,     \* the blockquotes of the page
          Widths     \* widths the window and the content may have

ASSUME WidthsAssumption == Widths \subseteq Nat \ {0} /\ Widths # {}

VARIABLES hooked,       \* NDOnLoad has set window.onresize
          resizeTimer,  \* an NDDoResize is pending
          boxWidth

boxVars == <<hooked, resizeTimer, boxWidth>>

BoxesInit == /\ hooked = FALSE
             /\ resizeTimer = FALSE
             /\ boxWidth \in [Boxes -> Widths]

offsetWidth(widths) == Max({docWidth} \cup {widths[b] : b \in Boxes})

\* Variant: the boxes are not made narrow first.
NarrowedNot == boxWidth

Narrowed == [b \in Boxes |-> 1]

\* The loop sets one box after another; as each becomes as wide as the parent,
\* the parent's width stays what it was after the first loop.
NDDoResize == /\ boxWidth' = [b \in Boxes |-> offsetWidth(Narrowed)]
              /\ resizeTimer' = FALSE

NDOnLoad == /\ ~hooked
            /\ BrowserVer(agent) = "IE6" /\ Boxes # {}
            /\ NDDoResize
            /\ hooked' = TRUE
            /\ UNCHANGED pageVars

\* The window changes; each change starts the delay again.
NDOnResize == /\ \E w \in Widths \ {docWidth} : docWidth' = w
              /\ resizeTimer' = hooked
              /\ UNCHANGED <<hooked, boxWidth, agent, mode>>

ResizeTimeout == /\ resizeTimer
                 /\ NDDoResize
                 /\ UNCHANGED <<hooked, pageVars>>

BoxesNext == NDOnLoad \/ NDOnResize \/ ResizeTimeout

-----------------------------------------------------------------------------
(* Properties. *)

\* Once no resize is pending, every blockquote is as wide as the window, also
\* after the window became narrower than the blockquotes were.
BoxesFit == hooked /\ ~resizeTimer => \A b \in Boxes : boxWidth[b] = docWidth
=============================================================================
