------------------------------ MODULE Tooltips ------------------------------
(***************************************************************************)
(* Tooltips of a documentation page (ShowTip, ReallyShowTip, HideTip).     *)
(*                                                                         *)
(* A pending setTimeout may fire at any later moment; how long its delay   *)
(* is, nothing here depends on.  The mouse leaves one link before it       *)
(* enters another.                                                         *)
(***************************************************************************)
EXTENDS ViewerPage

CONSTANTS Links, Tips,
          TipOf,         \* the tooltip of a link; several links may share one
          Offsets,       \* offsetLeft of a link and of what it is positioned in
          TipWidth,      \* offsetWidth of a tooltip
          NoLink, NoTimer

ASSUME TipsAssumption == /\ TipOf \in [Links -> Tips]
                         /\ NoLink \notin Links /\ NoTimer \notin Links
                         /\ Offsets \in [Links -> Seq(Int)]
                         /\ TipWidth \in [Tips -> Nat]

VARIABLES mouse,         \* the link under the mouse
          tooltipTimer,  \* the link whose ReallyShowTip is pending
          visible,       \* the tooltips whose visibility is "visible"
          left           \* where they were moved to

tipVars == <<mouse, tooltipTimer, visible, left>>

TipsInit == /\ mouse = NoLink
            /\ tooltipTimer = NoTimer
            /\ visible = {}
            /\ left = [t \in Tips |-> 0]

-----------------------------------------------------------------------------
\* Variant: a tooltip that several links share is started by the first only.
TimerAfterShowNone(l) ==
  IF \E k \in Links : TipOf[k] = TipOf[l] /\ Offsets[k][1] < Offsets[l][1]
  THEN NoTimer ELSE l

\* clearTimeout and setTimeout: a timer that was pending is replaced.
TimerAfterShow(l) == l

ShowTip(l) == /\ mouse = NoLink
              /\ mouse' = l
              /\ tooltipTimer' = TimerAfterShow(l)
              /\ UNCHANGED <<visible, left>>

\* Variant: the tooltip's own width is forgotten in the test.
ClampedLoosely(x, width) ==
  LET fitted == IF x > docWidth THEN docWidth - width - 1 ELSE x
  IN  IF fitted < 0 THEN 0 ELSE fitted

\* Not past the right edge of the page, but rather there than past the left.
Clamped(x, width) ==
  LET fitted == IF x + width > docWidth THEN docWidth - width - 1 ELSE x
  IN  IF fitted < 0 THEN 0 ELSE fitted

ReallyShowTip ==
  /\ tooltipTimer # NoTimer
  /\ tooltipTimer' = NoTimer
  /\ LET t == TipOf[tooltipTimer]
     IN  /\ left' = [left EXCEPT ![t] =
                       Clamped(Position(Offsets[tooltipTimer]), TipWidth[t])]
         /\ visible' = visible \cup {t}
  /\ UNCHANGED mouse

\* Variant: leaving a link hides the tooltip and leaves its timer running.
TimerAfterHideKept == tooltipTimer

\* clearTimeout: the timer of the link the mouse leaves never fires.
TimerAfterHide == NoTimer

HideTip(l) == /\ mouse = l
              /\ mouse' = NoLink
              /\ tooltipTimer' = TimerAfterHide
              /\ visible' = visible \ {TipOf[l]}
              /\ UNCHANGED left

TipsNext == ReallyShowTip \/ \E l \in Links : ShowTip(l) \/ HideTip(l)

TipsFairness == WF_tipVars(ReallyShowTip)

TipsSpec == TipsInit /\ [][TipsNext]_tipVars /\ TipsFairness

-----------------------------------------------------------------------------
(***************************************************************************)
(* Properties.                                                             *)
(***************************************************************************)
TipsTypeOK == /\ mouse \in Links \cup {NoLink}
              /\ tooltipTimer \in Links \cup {NoTimer}
              /\ visible \subseteq Tips

\* No tooltip is visible but that of the link under the mouse: a timer that
\* was set for another link, or for this one before the mouse left it, never
\* brings one up.
OnlyTipUnderMouse == \A t \in visible : mouse \in Links /\ t = TipOf[mouse]

\* A tooltip comes up inside the page if it is narrower than the page.
TipFitsPage ==
  [][\A t \in visible' \ visible :
       TipWidth[t] < docWidth => /\ left'[t] >= 0
                                 /\ left'[t] + TipWidth[t] <= docWidth]_tipVars

\* The tooltip of a link on which the mouse rests comes up.
RestShowsTip == \A l \in Links : mouse = l ~> mouse # l \/ TipOf[l] \in visible
=============================================================================
