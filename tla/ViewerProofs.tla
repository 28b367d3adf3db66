---------------------------- MODULE ViewerProofs ----------------------------
(***************************************************************************)
(* Proofs about Viewer, whatever the page holds: any links, tooltips,      *)
(* blockquotes, texts, topics and trees of elements.  Each part of a page  *)
(* has a section: tooltips and their place, blockquotes, the search panel  *)
(* and its frame, the walk of Toggle over a page of results, the encoding  *)
(* of names and texts and the rows it finds, the types.                    *)
(***************************************************************************)
EXTENDS Viewer, Recursions, FiniteSetTheorems, SequenceTheorems

(***************************************************************************)
(* Whichever part a page runs, the others keep their variables.            *)
(***************************************************************************)
AllParts == {"menu", "search", "doc", "results"}

LEMMA Starts == Init => TipsInit /\ PanelInit
  <1> SUFFICES ASSUME Init PROVE TipsInit /\ PanelInit
    OBVIOUS
  <1>1. part \in AllParts
    BY PartsAssumption DEF Init, AllParts
  <1>2. CASE part = "doc"
    BY <1>2 DEF Init, Loaded, Idle
  <1>3. CASE part = "search"
    BY <1>3 DEF Init, Loaded, Idle
  <1>4. CASE part \notin {"doc", "search"}
    BY <1>1, <1>4 DEF Init, Idle, AllParts
  <1> QED
    BY <1>2, <1>3, <1>4

LEMMA TipSteps == [Next]_vars => TipsNext \/ UNCHANGED tipVars
  BY DEF Next, vars, Menu, SearchField, Documentation, Results

LEMMA PanelSteps == [Next]_vars => PanelNext \/ UNCHANGED panelVars
  BY DEF Next, vars, Menu, SearchField, Documentation, Results

LEMMA BoxSteps ==
  [Next]_vars => BoxesNext \/ UNCHANGED <<pageVars, boxVars>>
  BY DEF Next, vars, Menu, SearchField, Documentation, Results

(***************************************************************************)
(* Tooltips.                                                               *)
(***************************************************************************)

\* A timer is pending only for the link under the mouse (HideTip clears it,
\* main.js:240-246), and only the tooltip of that link is visible.
TipsInv == /\ mouse \in Links \cup {NoLink}
           /\ tooltipTimer \in {NoTimer, mouse}
           /\ tooltipTimer # NoTimer => mouse \in Links
           /\ visible \subseteq Tips
           /\ \A t \in visible : mouse \in Links /\ t = TipOf[mouse]

LEMMA TipsInvStarts == TipsInit => TipsInv
  BY DEF TipsInit, TipsInv

LEMMA TipsInvStep == TipsInv /\ (TipsNext \/ UNCHANGED tipVars) => TipsInv'
  <1> SUFFICES ASSUME TipsInv, TipsNext \/ UNCHANGED tipVars PROVE TipsInv'
    OBVIOUS
  <1>1. CASE ReallyShowTip
    <2>1. mouse \in Links /\ tooltipTimer = mouse
      BY <1>1 DEF TipsInv, ReallyShowTip
    <2>2. TipOf[mouse] \in Tips
      BY <2>1, TipsAssumption
    <2>3. mouse' = mouse /\ tooltipTimer' = NoTimer
          /\ visible' = visible \cup {TipOf[mouse]}
      BY <1>1, <2>1 DEF ReallyShowTip
    <2> QED
      BY <2>1, <2>2, <2>3 DEF TipsInv
  <1>2. ASSUME NEW l \in Links, ShowTip(l) PROVE TipsInv'
    <2>1. visible = {}
      BY <1>2, TipsAssumption DEF TipsInv, ShowTip
    <2> QED
      BY <1>2, <2>1 DEF TipsInv, ShowTip, TimerAfterShow
  <1>3. ASSUME NEW l \in Links, HideTip(l) PROVE TipsInv'
    <2>1. visible' = {}
      BY <1>3 DEF TipsInv, HideTip
    <2> QED
      BY <1>3, <2>1 DEF TipsInv, HideTip, TimerAfterHide
  <1>4. CASE UNCHANGED tipVars
    BY <1>4 DEF TipsInv, tipVars
  <1> QED
    BY <1>1, <1>2, <1>3, <1>4 DEF TipsNext

\* However slowly its timer runs and wherever the mouse has gone meanwhile, no
\* tooltip comes up but that of the link under the mouse.
THEOREM TipsCorrect == Spec => []OnlyTipUnderMouse
  <1>1. Init => TipsInv
    BY Starts, TipsInvStarts
  <1>2. TipsInv /\ [Next]_vars => TipsInv'
    BY TipSteps, TipsInvStep
  <1>3. TipsInv => OnlyTipUnderMouse
    BY DEF TipsInv, OnlyTipUnderMouse
  <1> QED
    BY <1>1, <1>2, <1>3, PTL DEF Spec

\* The offsets of a link add up to an integer.
LEMMA PositionInt ==
  ASSUME NEW s \in Seq(Int)
  PROVE  Position(s) \in Int
  <1> DEFINE n == Len(s)
             Sums(g) == g = [i \in 0 .. n |-> IF i = 0 THEN 0 ELSE g[i - 1] + s[i]]
             f == CHOOSE g : Sums(g)
             next == [ix \in (1 .. n) \X Int |-> ix[2] + s[ix[1]]]
  <1>1. n \in Nat /\ \A i \in 1 .. n : s[i] \in Int
    OBVIOUS
  <1>2. next \in [(1 .. n) \X Int -> Int]
    BY <1>1
  <1>3. \A i \in 1 .. n, x \in Int : next[<<i, x>>] = x + s[i]
    OBVIOUS
  <1>4. Position(s) = f[n]
    BY DEF Position
  <1>5. \E g : Sums(g)
    <2>1. PICK g \in [0 .. n -> Int] :
            g[0] = 0 /\ \A i \in 1 .. n : g[i] = next[<<i, g[i - 1]>>]
      <3>1. Steps(Int, 0, n, next)
        BY <1>1, <1>2 DEF Steps
      <3>2. \E g : Solves(g, Int, 0, n, next)
        BY <3>1, Recursion
      <3> QED
        BY <3>2 DEF Solves
    <2> HIDE DEF next, n
    <2>2. \A i \in 0 .. n : i # 0 => i \in 1 .. n /\ i - 1 \in 0 .. n
      BY <1>1
    <2>3. \A i \in 0 .. n : i # 0 => g[i] = g[i - 1] + s[i]
      BY <1>3, <2>1, <2>2
    <2>4. Sums(g)
      BY <2>1, <2>3
    <2> QED
      BY <2>4
  <1>6. Sums(f)
    <2> HIDE DEF Sums
    <2> QED
      BY <1>5
  <1> HIDE DEF f
  <1>7. f[0] = 0 /\ \A m \in 0 .. n - 1 : f[m + 1] = f[m] + s[m + 1]
    <2> HIDE DEF n
    <2>1. 0 \in 0 .. n /\ \A m \in 0 .. n - 1 : m + 1 \in 0 .. n /\ m + 1 # 0 /\ (m + 1) - 1 = m
      BY <1>1
    <2> QED
      BY <1>6, <2>1
  <1> DEFINE S == {m \in 0 .. n : f[m] \in Int}
  <1>8. 0 \in S /\ \A m \in 0 .. n - 1 : m \in S => m + 1 \in S
    <2> HIDE DEF n
    <2>1. 0 \in 0 .. n /\ \A m \in 0 .. n - 1 : m + 1 \in 0 .. n /\ m + 1 \in 1 .. n
      BY <1>1
    <2>2. 0 \in S
      BY <1>7, <2>1
    <2>3. ASSUME NEW m \in 0 .. n - 1, m \in S PROVE m + 1 \in S
      <3>1. f[m] \in Int /\ s[m + 1] \in Int /\ f[m + 1] = f[m] + s[m + 1]
        BY <1>1, <1>7, <2>1, <2>3
      <3>2. f[m + 1] \in Int
        BY <3>1
      <3> QED
        BY <2>1, <3>2
    <2> QED
      BY <2>2, <2>3
  <1>9. n \in S
    <2>1. 0 .. n \subseteq S
      <3> HIDE DEF S, n
      <3> QED
        BY <1>1, <1>8, Induction
    <2>2. n \in 0 .. n
      BY <1>1
    <2> QED
      BY <2>1, <2>2
  <1> QED
    BY <1>4, <1>9

(***************************************************************************)
(* Blockquotes.                                                            *)
(***************************************************************************)
\* With every box narrow, the parent is as wide as the window.
LEMMA NarrowedFits ==
  ASSUME docWidth \in Widths
  PROVE  offsetWidth(Narrowed) = docWidth
  <1> DEFINE S == {docWidth} \cup {Narrowed[b] : b \in Boxes}
  <1>1. docWidth \in Nat /\ docWidth >= 1
    BY WidthsAssumption
  <1>2. \A y \in S : y \in Nat /\ docWidth >= y
    BY <1>1 DEF Narrowed
  <1>3. \A x \in S : (\A y \in S : x >= y) <=> x = docWidth
    BY <1>1, <1>2
  <1>4. Max(S) = docWidth
    BY <1>3 DEF Max
  <1> QED
    BY <1>4 DEF offsetWidth

BoxesInv == docWidth \in Widths /\ BoxesFit

LEMMA BoxesInvStep ==
  BoxesInv /\ (BoxesNext \/ UNCHANGED <<pageVars, boxVars>>) => BoxesInv'
  <1> SUFFICES ASSUME BoxesInv, BoxesNext \/ UNCHANGED <<pageVars, boxVars>>
               PROVE  BoxesInv'
    OBVIOUS
  <1>1. ASSUME NDDoResize, docWidth' = docWidth PROVE BoxesInv'
    <2>1. boxWidth' = [b \in Boxes |-> docWidth]
      BY <1>1, NarrowedFits DEF NDDoResize, BoxesInv
    <2> QED
      BY <1>1, <2>1 DEF BoxesInv, BoxesFit
  <1>2. CASE NDOnLoad
    BY <1>1, <1>2 DEF NDOnLoad, pageVars
  <1>3. CASE ResizeTimeout
    BY <1>1, <1>3 DEF ResizeTimeout, pageVars
  <1>4. CASE NDOnResize
    BY <1>4 DEF NDOnResize, BoxesInv, BoxesFit
  <1>5. CASE UNCHANGED <<pageVars, boxVars>>
    BY <1>5 DEF pageVars, boxVars, BoxesInv, BoxesFit
  <1> QED
    BY <1>2, <1>3, <1>4, <1>5 DEF BoxesNext

LEMMA BoxesInvStarts == Init => BoxesInv
  <1> SUFFICES ASSUME Init PROVE BoxesInv
    OBVIOUS
  <1>1. docWidth \in Widths
    BY WidthsAssumption DEF Init
  <1>2. hooked = FALSE
    <2>1. CASE part = "doc"
      BY <2>1 DEF Init, Loaded, BoxesInit
    <2>2. CASE part # "doc"
      BY <2>2 DEF Init, Idle
    <2> QED
      BY <2>1, <2>2
  <1> QED
    BY <1>1, <1>2 DEF BoxesInv, BoxesFit

\* Once NDDoResize has run, and until the window changes again, every
\* blockquote is as wide as the window, whatever widths it has had.
THEOREM BoxesCorrect == Spec => []BoxesFit
  <1>1. BoxesInv /\ [Next]_vars => BoxesInv'
    BY BoxSteps, BoxesInvStep
  <1>2. BoxesInv => BoxesFit
    BY DEF BoxesInv
  <1> QED
    BY <1>1, <1>2, BoxesInvStarts, PTL DEF Spec

(***************************************************************************)
(* Where tooltips come up.                                                 *)
(***************************************************************************)
\* A tooltip narrower than the page is moved inside it from any place.
LEMMA ClampedFits ==
  ASSUME NEW x \in Int, NEW width \in Nat, docWidth \in Nat, width < docWidth
  PROVE  Clamped(x, width) >= 0 /\ Clamped(x, width) + width <= docWidth
  BY DEF Clamped

\* Every tooltip has been moved to somewhere.
LeftInv == DOMAIN left = Tips

LEMMA LeftInvStep == LeftInv /\ (TipsNext \/ UNCHANGED tipVars) => LeftInv'
  BY DEF LeftInv, TipsNext, ShowTip, HideTip, ReallyShowTip, tipVars

LEMMA TipFitsStep ==
  ASSUME TipsInv, LeftInv, docWidth \in Widths, TipsNext
  PROVE  \A t \in visible' \ visible :
           TipWidth[t] < docWidth => left'[t] >= 0 /\ left'[t] + TipWidth[t] <= docWidth
  <1>1. CASE ReallyShowTip
    <2> DEFINE shown == TipOf[tooltipTimer]
               moved == Clamped(Position(Offsets[tooltipTimer]), TipWidth[shown])
    <2>1. tooltipTimer \in Links
      BY <1>1 DEF ReallyShowTip, TipsInv
    <2>2. shown \in Tips
      BY <2>1, TipsAssumption
    <2>3. Position(Offsets[tooltipTimer]) \in Int
      BY <2>1, TipsAssumption, PositionInt
    <2>4. TipWidth[shown] \in Nat /\ docWidth \in Nat
      BY <2>2, TipsAssumption, WidthsAssumption
    <2>5. TipWidth[shown] < docWidth =>
            moved >= 0 /\ moved + TipWidth[shown] <= docWidth
      BY <2>3, <2>4, ClampedFits
    <2>6. visible' = visible \cup {shown} /\ left'[shown] = moved
      BY <1>1, <2>2 DEF ReallyShowTip, LeftInv
    <2> QED
      BY <2>5, <2>6
  <1>2. CASE ~ReallyShowTip
    BY <1>2 DEF TipsNext, ShowTip, HideTip
  <1> QED
    BY <1>1, <1>2

\* A tooltip that comes up lies inside the page if it is narrower than the
\* page, wherever its link is and however the offsets it is nested in add up
\* (ReallyShowTip, main.js:201-235).
THEOREM TipsFit == Spec => TipFitsPage
  <1>1. Init => TipsInv /\ LeftInv /\ BoxesInv
    BY Starts, TipsInvStarts, BoxesInvStarts DEF TipsInit, LeftInv
  <1>2. TipsInv /\ LeftInv /\ BoxesInv /\ [Next]_vars
          => TipsInv' /\ LeftInv' /\ BoxesInv'
    BY TipSteps, TipsInvStep, LeftInvStep, BoxSteps, BoxesInvStep
  <1>3. TipsInv /\ LeftInv /\ BoxesInv /\ [Next]_vars =>
          [\A t \in visible' \ visible :
             TipWidth[t] < docWidth => /\ left'[t] >= 0
                                       /\ left'[t] + TipWidth[t] <= docWidth]_tipVars
    BY TipSteps, TipFitsStep DEF BoxesInv
  <1> QED
    BY <1>1, <1>2, <1>3, PTL DEF Spec, TipFitsPage

(***************************************************************************)
(* The search panel.                                                       *)
(***************************************************************************)
PanelFields == {"active", "field", "topic", "popup", "keyTimeout", "stray",
                "inactivateTimeout", "lastSearchValue", "lastResultsPage"}

\* What the panel is to be an update of.
IsPanel(p) == DOMAIN p = PanelFields

\* The part of a panel that says whether it is active.
SameActivity(q, p) == /\ IsPanel(q)
                      /\ q.active = p.active
                      /\ q.inactivateTimeout = p.inactivateTimeout

\* Searching, and deciding whether to, leave the panel as active as it was
\* (main.js:449-474, 520-605).
LEMMA SearchKeepsActivity ==
  ASSUME NEW p, IsPanel(p)
  PROVE  SameActivity(AfterSearch(p), p)
  BY DEF AfterSearch, SameActivity, IsPanel, PanelFields

LEMMA ChangeKeepsActivity ==
  ASSUME NEW p, IsPanel(p)
  PROVE  SameActivity(OnSearchFieldChange(p), p)
  <1> DEFINE changed == Changed(Squeeze(p.field), p.lastSearchValue)
             empty   == Squeeze(p.field) = << >>
  <1>1. CASE ~changed
    BY <1>1 DEF OnSearchFieldChange, SameActivity, IsPanel, PanelFields
  <1>2. CASE changed /\ ~empty
    BY <1>2 DEF OnSearchFieldChange, SameActivity, IsPanel, PanelFields
  <1>3. CASE changed /\ empty
    BY <1>3 DEF OnSearchFieldChange, SameActivity, IsPanel, PanelFields
  <1> QED
    BY <1>1, <1>2, <1>3

\* Activate keeps the fields, and with TRUE leaves the panel active with no
\* inactivation pending.
LEMMA ActivateGives ==
  ASSUME NEW p, IsPanel(p), NEW isActive \in BOOLEAN, NEW ignore \in BOOLEAN
  PROVE  LET q == Activate(p, isActive, ignore)
         IN  IsPanel(q) /\ (isActive => q.active /\ ~q.inactivateTimeout)
  <1>1. IsPanel(Activated(p)) /\ Activated(p).active
        /\ ~Activated(p).inactivateTimeout
    BY DEF Activated, IsPanel, PanelFields
  <1>2. IsPanel(Reset(p)) /\ IsPanel(Deactivating(p))
    BY DEF Reset, Deactivating, IsPanel, PanelFields
  <1> QED
    BY <1>1, <1>2 DEF Activate

PanelInv == IsPanel(panel) /\ FocusKeepsPanel

LEMMA PanelInvStarts == PanelInit => PanelInv
  BY DEF PanelInit, PanelInv, IsPanel, PanelFields, FocusKeepsPanel, Controls

LEMMA PanelInvStep == PanelInv /\ (PanelNext \/ UNCHANGED panelVars) => PanelInv'
  <1> SUFFICES ASSUME PanelInv, PanelNext \/ UNCHANGED panelVars PROVE PanelInv'
    OBVIOUS
  <1> USE DEF PanelInv
  <1>0. ASSUME UNCHANGED focus, SameActivity(panel', panel) PROVE PanelInv'
    BY <1>0 DEF FocusKeepsPanel, SameActivity
  <1>1. ASSUME NEW to \in Controls \cup {"other"}, FocusMoves(to) PROVE PanelInv'
    <2>1. IsPanel(Blurred(panel))
      BY ActivateGives DEF Blurred
    <2>2. CASE to \in Controls
      BY <1>1, <2>1, <2>2, ActivateGives DEF FocusMoves, FocusKeepsPanel
    <2>3. CASE to \notin Controls
      BY <1>1, <2>1, <2>3 DEF FocusMoves, FocusKeepsPanel
    <2> QED
      BY <2>2, <2>3
  <1>2. ASSUME NEW text \in Texts, KeyUp(text) PROVE PanelInv'
    <2> DEFINE typed == [panel EXCEPT !.field = text]
    <2>1. SameActivity(typed, panel)
      BY DEF SameActivity, IsPanel, PanelFields
    <2>2. SameActivity(OnSearchFieldChange(typed), typed)
      BY <2>1, ChangeKeepsActivity DEF SameActivity
    <2> QED
      BY <1>0, <1>2, <2>1, <2>2 DEF KeyUp, SameActivity
  <1>3. ASSUME NEW topic \in Topics, ChooseType(topic) PROVE PanelInv'
    <2> DEFINE chosen == [panel EXCEPT !.topic = topic]
               n == IF panel.keyTimeout THEN AfterSearch(chosen).stray + 1
                    ELSE AfterSearch(chosen).stray
    <2>1. SameActivity(chosen, panel)
      BY DEF SameActivity, IsPanel, PanelFields
    <2>2. SameActivity(AfterSearch(chosen), panel)
      BY <2>1, SearchKeepsActivity DEF SameActivity
    <2>3. SameActivity([AfterSearch(chosen) EXCEPT !.stray = n], panel)
      BY <2>2 DEF SameActivity, IsPanel, PanelFields
    <2>4. panel' \in {chosen, [AfterSearch(chosen) EXCEPT !.stray = n]}
      BY <1>3 DEF ChooseType
    <2> QED
      BY <1>0, <1>3, <2>1, <2>3, <2>4 DEF ChooseType
  <1>4. CASE KeyTimeout
    BY <1>0, <1>4, SearchKeepsActivity DEF KeyTimeout
  <1>5. CASE StrayTimeout
    <2> DEFINE searched == AfterSearch(panel)
               n == IF panel.keyTimeout THEN searched.stray ELSE searched.stray - 1
    <2>1. SameActivity(searched, panel)
      BY SearchKeepsActivity
    <2>2. SameActivity([searched EXCEPT !.stray = n], panel)
      BY <2>1 DEF SameActivity, IsPanel, PanelFields
    <2>3. panel' = [searched EXCEPT !.stray = n]
      BY <1>5 DEF StrayTimeout
    <2> QED
      BY <1>0, <1>5, <2>2, <2>3 DEF StrayTimeout
  <1>6. CASE InactivateTimeout
    <2>1. focus \notin Controls
      BY <1>6 DEF InactivateTimeout, FocusKeepsPanel
    <2>2. IsPanel(Reset(panel))
      BY DEF Reset, IsPanel, PanelFields
    <2> QED
      BY <1>6, <2>1, <2>2 DEF InactivateTimeout, FocusKeepsPanel
  <1>7. CASE CloseResultsWindow
    <2> DEFINE closed == [panel EXCEPT !.popup = FALSE]
    <2>1. IsPanel(closed)
      BY DEF IsPanel, PanelFields
    <2>2. IsPanel(Activate(closed, FALSE, TRUE))
      BY <2>1, ActivateGives
    <2> QED
      BY <1>7, <2>2 DEF CloseResultsWindow, FocusKeepsPanel, Controls
  <1>8. CASE Browse \/ FrameCommits \/ FrameScript
    BY <1>8 DEF Browse, FrameCommits, FrameScript, FocusKeepsPanel
  <1>9. CASE UNCHANGED panelVars
    BY <1>9 DEF panelVars, FocusKeepsPanel
  <1> QED
    BY <1>1, <1>2, <1>3, <1>4, <1>5, <1>6, <1>7, <1>8, <1>9
       DEF PanelNext, Reader, Timers, Frame

\* While one of its controls has the focus the panel is active and no
\* inactivation is pending, although each move of the focus inside it starts
\* one (main.js:645) and relies on the next Activate to clear it (630-634).
THEOREM PanelStaysActive == Spec => []FocusKeepsPanel
  <1>1. Init => PanelInv
    BY Starts, PanelInvStarts
  <1>2. PanelInv /\ [Next]_vars => PanelInv'
    BY PanelSteps, PanelInvStep
  <1>3. PanelInv => FocusKeepsPanel
    BY DEF PanelInv
  <1> QED
    BY <1>1, <1>2, <1>3, PTL DEF Spec

(***************************************************************************)
(* What Squeeze and TrimLeft make of a text.                               *)
(***************************************************************************)
NonBlank == STRING \ {" "}

\* The recursion of Squeeze, with what it leaves of the first m symbols.
SqueezedUpto(g, t) ==
  /\ g \in [0 .. Len(t) -> Seq(NonBlank)] /\ g[0] = << >>
  /\ \A m \in 0 .. Len(t) - 1 :
       g[m + 1] = IF t[m + 1] = " " THEN g[m] ELSE Append(g[m], t[m + 1])

\* What is left of a text is what Squeeze returns.
LEMMA SqueezeIs ==
  ASSUME NEW t \in Seq(STRING)
  PROVE  \E g : SqueezedUpto(g, t) /\ Squeeze(t) = g[Len(t)]
  <1> DEFINE n == Len(t)
             A == Seq(NonBlank)
             Left(g) == g = [i \in 0 .. n |->
                               IF i = 0 THEN << >>
                               ELSE IF t[i] = " " THEN g[i - 1]
                               ELSE Append(g[i - 1], t[i])]
             f == CHOOSE g : Left(g)
             next == [ix \in (1 .. n) \X A |->
                        IF t[ix[1]] = " " THEN ix[2] ELSE Append(ix[2], t[ix[1]])]
  <1>1. n \in Nat /\ (\A i \in 1 .. n : t[i] \in STRING)
    OBVIOUS
  <1>2. << >> \in A /\ \A x \in A, s \in NonBlank : Append(x, s) \in A
    BY EmptySeq
  <1>3. \A i \in 1 .. n, x \in A :
          next[<<i, x>>] = IF t[i] = " " THEN x ELSE Append(x, t[i])
    OBVIOUS
  <1>4. Squeeze(t) = f[n]
    BY DEF Squeeze
  <1>5. Steps(A, << >>, n, next)
    <2>1. ASSUME NEW ix \in (1 .. n) \X A
          PROVE  (IF t[ix[1]] = " " THEN ix[2] ELSE Append(ix[2], t[ix[1]])) \in A
      BY <1>1, <1>2 DEF NonBlank
    <2>2. next \in [(1 .. n) \X A -> A]
      BY <2>1
    <2> QED
      BY <1>1, <1>2, <2>2 DEF Steps
  <1> HIDE DEF next, A
  <1>6. \E g : Solves(g, A, << >>, n, next)
    BY <1>5, Recursion
  <1>7. \A i \in 0 .. n : i # 0 => i \in 1 .. n /\ i - 1 \in 0 .. n
    BY <1>1
  <1>8. \E g : Left(g)
    <2>1. PICK g : Solves(g, A, << >>, n, next)
      BY <1>6
    <2> HIDE DEF n
    <2>2. \A i \in 0 .. n : i # 0 =>
             g[i] = IF t[i] = " " THEN g[i - 1] ELSE Append(g[i - 1], t[i])
      BY <1>3, <1>7, <2>1 DEF Solves
    <2>3. Left(g)
      BY <2>1, <2>2 DEF Solves
    <2> QED
      BY <2>3
  <1>9. Left(f)
    <2> HIDE DEF Left
    <2> QED
      BY <1>8
  <1> HIDE DEF f
  <1>10. 0 \in 0 .. n /\ \A m \in 0 .. n - 1 :
            m \in 0 .. n /\ m + 1 \in 0 .. n /\ m + 1 \in 1 .. n /\ m + 1 # 0 /\ (m + 1) - 1 = m
    BY <1>1
  <1>11. f[0] = << >> /\ DOMAIN f = 0 .. n /\ f = [i \in 0 .. n |-> f[i]]
    <2> HIDE DEF n
    <2> QED
      BY <1>9, <1>10
  <1>12. ASSUME NEW m \in 0 .. n - 1
         PROVE  f[m + 1] = IF t[m + 1] = " " THEN f[m] ELSE Append(f[m], t[m + 1])
    <2> HIDE DEF n
    <2> QED
      BY <1>9, <1>10
  <1> HIDE DEF Left
  <1> DEFINE S == {m \in 0 .. n : f[m] \in A}
  <1>13. 0 \in S /\ \A m \in 0 .. n - 1 : m \in S => m + 1 \in S
    <2>1. 0 \in S
      BY <1>2, <1>10, <1>11
    <2>2. ASSUME NEW m \in 0 .. n - 1, m \in S PROVE m + 1 \in S
      <3>1. f[m] \in A /\ t[m + 1] \in STRING
        BY <1>1, <1>10, <2>2
      <3>2. f[m + 1] \in A
        BY <1>2, <1>12, <3>1 DEF NonBlank
      <3> QED
        BY <1>10, <3>2
    <2> QED
      BY <2>1, <2>2
  <1>14. 0 .. n \subseteq S
    <2> HIDE DEF S, n
    <2> QED
      BY <1>1, <1>13, Induction
  <1>15. f \in [0 .. n -> A]
    BY <1>11, <1>14
  <1>16. SqueezedUpto(f, t)
    BY <1>11, <1>12, <1>15 DEF SqueezedUpto, A
  <1> QED
    BY <1>4, <1>16

\* Nothing is left to take out of what Squeeze returns.
LEMMA SqueezeTwice ==
  ASSUME NEW t \in Seq(STRING)
  PROVE  Squeeze(t) \in Seq(STRING) /\ Squeeze(Squeeze(t)) = Squeeze(t)
  <1>1. Squeeze(t) \in Seq(NonBlank)
    <2>1. PICK g : SqueezedUpto(g, t) /\ Squeeze(t) = g[Len(t)]
      BY SqueezeIs
    <2>2. Len(t) \in 0 .. Len(t)
      OBVIOUS
    <2> QED
      BY <2>1, <2>2 DEF SqueezedUpto
  <1>2. ASSUME NEW u \in Seq(NonBlank) PROVE u \in Seq(STRING) /\ Squeeze(u) = u
    <2>1. u \in Seq(STRING) /\ \A i \in 1 .. Len(u) : u[i] # " "
      <3>1. NonBlank \subseteq STRING /\ \A s \in NonBlank : s # " "
        BY DEF NonBlank
      <3> QED
        BY <3>1, SeqMonotonic, ElementOfSeq
    <2>2. PICK g : SqueezedUpto(g, u) /\ Squeeze(u) = g[Len(u)]
      BY <2>1, SqueezeIs
    <2> DEFINE n == Len(u)
               S == {m \in 0 .. n : Len(g[m]) = m /\ \A i \in 1 .. m : g[m][i] = u[i]}
    <2>3. n \in Nat /\ 0 \in 0 .. n /\ n \in 0 .. n
      OBVIOUS
    <2>4. 0 \in S
      <3>1. Len(<< >>) = 0 /\ \A i \in 1 .. 0 : FALSE
        OBVIOUS
      <3> QED
        BY <2>2, <2>3, <3>1 DEF SqueezedUpto
    <2>5. ASSUME NEW m \in 0 .. n - 1, m \in S PROVE m + 1 \in S
      <3>1. m + 1 \in 1 .. n /\ m + 1 \in 0 .. n /\ m \in 0 .. n
        BY <2>3
      <3>2. g[m + 1] = Append(g[m], u[m + 1])
        BY <2>1, <2>2, <3>1 DEF SqueezedUpto
      <3>3. g[m] \in Seq(NonBlank) /\ u[m + 1] \in NonBlank
        BY <2>2, <3>1, ElementOfSeq DEF SqueezedUpto
      <3>4. Len(g[m]) = m /\ \A i \in 1 .. m : g[m][i] = u[i]
        BY <2>5
      <3>5. Len(g[m + 1]) = m + 1
        BY <3>2, <3>3, <3>4, AppendProperties
      <3>6. \A i \in 1 .. m + 1 : g[m + 1][i] = u[i]
        BY <3>2, <3>3, <3>4, AppendProperties
      <3> QED
        BY <3>1, <3>5, <3>6
    <2>6. 0 .. n \subseteq S
      <3> HIDE DEF S, n
      <3> QED
        BY <2>3, <2>4, <2>5, Induction
    <2>7. Len(g[n]) = n /\ g[n] \in Seq(NonBlank) /\ \A i \in 1 .. n : g[n][i] = u[i]
      BY <2>2, <2>3, <2>6 DEF SqueezedUpto
    <2>8. g[n] = u
      BY <2>7, SeqEqual
    <2> QED
      BY <2>1, <2>2, <2>8
  <1> QED
    BY <1>1, <1>2

\* Where the text that TrimLeft leaves begins.
LEMMA TrimLeftIs ==
  ASSUME NEW t \in Seq(STRING)
  PROVE  \/ TrimLeft(t) = << >> /\ \A i \in 1 .. Len(t) : t[i] = " "
         \/ \E k \in 0 .. Len(t) - 1 :
              /\ \A i \in 1 .. k : t[i] = " "
              /\ TrimLeft(t) = SubSeq(t, k + 1, Len(t))
  <1> DEFINE I == {i \in 1 .. Len(t) : t[i] # " "}
  <1>0. Len(t) \in Nat /\ 1 .. Len(t) \subseteq Nat
    BY LenProperties
  <1>1. CASE I = {}
    BY <1>1 DEF TrimLeft, SelectInSeq
  <1>2. CASE I # {}
    <2>1. PICK x \in I : \A y \in I : x <= y
      <3>1. I \subseteq Nat
        BY <1>0
      <3> HIDE DEF I
      <3> QED
        BY <1>2, <3>1, Least
    <2>2. Min(I) = x
      <3>1. \A y \in I : y \in Nat
        BY <1>0
      <3> HIDE DEF I
      <3>2. \A z \in I : (\A y \in I : z <= y) => z = x
        BY <2>1, <3>1
      <3> QED
        BY <2>1, <3>2 DEF Min
    <2>3. SelectInSeq(t, LAMBDA s : s # " ") = x
      BY <1>2, <2>2 DEF SelectInSeq
    <2>4. x \in 1 .. Len(t) /\ x # 0 /\ Len(t) \in Nat
      <3>1. x \in 1 .. Len(t)
        BY <2>1
      <3> HIDE DEF I
      <3> QED
        BY <1>0, <3>1
    <2>5. TrimLeft(t) = SubSeq(t, x, Len(t))
      BY <2>3, <2>4 DEF TrimLeft
    <2> HIDE DEF I
    <2>6. x - 1 \in 0 .. Len(t) - 1 /\ (x - 1) + 1 = x
          /\ \A i \in 1 .. x - 1 : i \in 1 .. Len(t) /\ ~ (x <= i)
      BY <2>4
    <2>7. \A i \in 1 .. x - 1 : t[i] = " "
      BY <2>1, <2>6 DEF I
    <2> QED
      BY <2>5, <2>6, <2>7
  <1> QED
    BY <1>1, <1>2

\* A text of spaces only is squeezed to nothing, and no other one is.
LEMMA SqueezedToNothing ==
  ASSUME NEW t \in Seq(STRING)
  PROVE  Squeeze(t) = << >> <=> \A i \in 1 .. Len(t) : t[i] = " "
  <1>1. PICK g : SqueezedUpto(g, t) /\ Squeeze(t) = g[Len(t)]
    BY SqueezeIs
  <1> DEFINE n == Len(t)
             S == {m \in 0 .. n : g[m] = << >> <=> \A i \in 1 .. m : t[i] = " "}
  <1>2. n \in Nat /\ 0 \in 0 .. n /\ n \in 0 .. n
    OBVIOUS
  <1>3. 0 \in S
    <2>1. g[0] = << >>
      BY <1>1 DEF SqueezedUpto
    <2>2. 1 .. 0 = {}
      OBVIOUS
    <2> QED
      BY <1>2, <2>1, <2>2
  <1>4. ASSUME NEW m \in 0 .. n - 1, m \in S PROVE m + 1 \in S
    <2>1. m + 1 \in 0 .. n /\ m \in 0 .. n /\ m + 1 \in 1 .. n /\ m + 1 \in 1 .. m + 1
          /\ \A i \in 1 .. m + 1 : i = m + 1 \/ i \in 1 .. m
      BY <1>2
    <2>2. \A i \in 1 .. m : i \in 1 .. m + 1
      BY <1>2
    <2>3. g[m] \in Seq(NonBlank)
      BY <1>1, <2>1 DEF SqueezedUpto
    <2>4. g[m + 1] = IF t[m + 1] = " " THEN g[m] ELSE Append(g[m], t[m + 1])
      BY <1>1 DEF SqueezedUpto
    <2>5. t[m + 1] # " " => Append(g[m], t[m + 1]) # << >>
      <3> SUFFICES ASSUME t[m + 1] # " " PROVE Append(g[m], t[m + 1]) # << >>
        OBVIOUS
      <3>1. t[m + 1] \in NonBlank
        BY <2>1, ElementOfSeq DEF NonBlank
      <3> QED
        BY <2>3, <3>1, AppendProperties
    <2> HIDE DEF n
    <2> QED
      BY <1>4, <2>1, <2>2, <2>4, <2>5
  <1>5. 0 .. n \subseteq S
    <2> HIDE DEF S, n
    <2> QED
      BY <1>2, <1>3, <1>4, Induction
  <1> QED
    BY <1>1, <1>2, <1>5

\* The spaces at the beginning make no difference to Squeeze.
LEMMA SqueezeTrimmed ==
  ASSUME NEW t \in Seq(STRING)
  PROVE  TrimLeft(t) \in Seq(STRING) /\ Squeeze(TrimLeft(t)) = Squeeze(t)
  <1>1. << >> \in Seq(STRING) /\ Squeeze(<< >>) = << >>
    <2>1. << >> \in Seq(STRING)
      BY EmptySeq
    <2>2. Len(<< >>) = 0 /\ \A i \in 1 .. 0 : FALSE
      OBVIOUS
    <2> QED
      BY <2>1, <2>2, SqueezedToNothing
  <1>2. CASE TrimLeft(t) = << >> /\ \A i \in 1 .. Len(t) : t[i] = " "
    BY <1>1, <1>2, SqueezedToNothing
  <1>3. ASSUME NEW k \in 0 .. Len(t) - 1, \A i \in 1 .. k : t[i] = " ",
               TrimLeft(t) = SubSeq(t, k + 1, Len(t))
        PROVE  TrimLeft(t) \in Seq(STRING) /\ Squeeze(TrimLeft(t)) = Squeeze(t)
    <2> DEFINE u == SubSeq(t, k + 1, Len(t))
               n == Len(t)
               r == n - k
    <2>1. n \in Nat /\ k \in Nat /\ r \in Nat /\ k + r = n /\ k + 1 <= n
      OBVIOUS
    <2>2. u \in Seq(STRING) /\ Len(u) = r /\ \A j \in 1 .. r : u[j] = t[k + j]
      BY <2>1
    <2>3. PICK g : SqueezedUpto(g, t) /\ Squeeze(t) = g[n]
      BY SqueezeIs
    <2>4. PICK h : SqueezedUpto(h, u) /\ Squeeze(u) = h[r]
      BY <2>2, SqueezeIs
    <2> HIDE DEF u, r
    <2> DEFINE B == {m \in 0 .. k : g[m] = << >>}
               S == {j \in 0 .. r : g[k + j] = h[j]}
    <2>5. 0 \in B /\ \A m \in 0 .. k - 1 : m \in B => m + 1 \in B
      <3>1. 0 \in 0 .. k /\ \A m \in 0 .. k - 1 : m + 1 \in 1 .. k /\ m + 1 \in 0 .. k
                                               /\ m \in 0 .. n - 1
        BY <2>1
      <3> QED
        BY <1>3, <2>3, <3>1 DEF SqueezedUpto
    <2>6. g[k] = << >>
      <3>1. 0 .. k \subseteq B
        <4> HIDE DEF B
        <4> QED
          BY <2>1, <2>5, Induction
      <3>2. k \in 0 .. k
        BY <2>1
      <3> QED
        BY <3>1, <3>2
    <2>7. 0 \in S
      <3>1. k + 0 = k /\ 0 \in 0 .. r
        BY <2>1
      <3> QED
        BY <2>4, <2>6, <3>1 DEF SqueezedUpto
    <2>8. ASSUME NEW j \in 0 .. r - 1, j \in S PROVE j + 1 \in S
      <3>1. k + j \in 0 .. n - 1 /\ (k + j) + 1 = k + (j + 1)
            /\ j + 1 \in 1 .. r /\ j + 1 \in 0 .. r
        BY <2>1
      <3>2. g[k + (j + 1)] = IF t[k + (j + 1)] = " " THEN g[k + j]
                             ELSE Append(g[k + j], t[k + (j + 1)])
        BY <2>3, <3>1 DEF SqueezedUpto
      <3>3. h[j + 1] = IF u[j + 1] = " " THEN h[j] ELSE Append(h[j], u[j + 1])
        BY <2>2, <2>4 DEF SqueezedUpto
      <3>4. u[j + 1] = t[k + (j + 1)] /\ g[k + j] = h[j]
        BY <2>2, <2>8, <3>1
      <3> QED
        BY <3>1, <3>2, <3>3, <3>4
    <2>9. r \in S
      <3>1. 0 .. r \subseteq S
        <4> HIDE DEF S
        <4> QED
          BY <2>1, <2>7, <2>8, Induction
      <3>2. r \in 0 .. r
        BY <2>1
      <3> QED
        BY <3>1, <3>2
    <2>10. g[n] = h[r]
      BY <2>1, <2>9
    <2> QED
      BY <1>3, <2>2, <2>3, <2>4, <2>10 DEF u
  <1> QED
    BY <1>2, <1>3, TrimLeftIs

(***************************************************************************)
(* What the frame shows.                                                   *)
(***************************************************************************)

\* What the panel has searched for when the reader has typed nothing.
Nothing == {<< >>, TrimLeft(Prompt)}
Typed   == panel.field # Prompt /\ Squeeze(panel.field) # << >>
Wanted  == panel.lastSearchValue \notin Nothing

\* The document the frame has, or will have.
Latest == IF coming = NoPage THEN frame ELSE coming

IsDocument(doc) ==
  DOMAIN doc = {"page", "query", "ready", "shown", "lastMatch", "stuck"}

\* doc is filtered by the last text searched for, or will be.
Filtered(doc) ==
  panel.lastResultsPage # NoResults =>
    (IF doc.ready THEN doc.shown ELSE doc.query) = panel.lastSearchValue

\* The panel: what it knows of the last search is true unless a timer is
\* pending.
PanelKnows ==
  /\ panel.field \in Texts \cup {Prompt} /\ panel.topic \in Topics
  /\ focus \in Controls \cup {"other"}
  /\ focus \in Controls => panel.field # Prompt
  /\ ~panel.keyTimeout /\ Typed =>
       Squeeze(panel.lastSearchValue) = Squeeze(panel.field)
  /\ ~Typed => panel.lastSearchValue \in Nothing
  /\ Wanted => panel.lastResultsPage = ResultsPage(panel.topic, panel.lastSearchValue)
  /\ Wanted /\ mode = "HTML" => panel.popup

\* After the focus has left framed pages the panel is back at the prompt.
Unfocused ==
  mode = "FramedHTML" /\ focus = "other" /\ ~panel.inactivateTimeout =>
    panel.field = Prompt

\* doc is the page for the last search, or the one the reader went to from
\* NoResults.html when the text searched for has no page.
RightPage(doc) == \/ doc.page = panel.lastResultsPage
                  \/ /\ astray /\ doc.page = OtherPage
                     /\ panel.lastResultsPage = NoResults

\* The frame: a document in which a search found nothing is left in Internet
\* Explorer, and Latest is the page the panel takes it for, or the reader's;
\* the panel takes it for NoResults.html only if the reader came from there.
FrameKnows ==
  /\ IsDocument(frame)
  /\ coming # NoPage => /\ coming = Document(coming.page, coming.query)
                        /\ coming.page # OtherPage
  /\ HasSearchResults(frame) => (frame.lastMatch <=> Found(frame.page, frame.shown))
  /\ frame.stuck => BrowserType(agent) = "IE" /\ frame.ready /\ ~frame.lastMatch
  /\ panel.lastResultsPage # NoPage =>
       RightPage(Latest) \/ (Latest.page = OtherPage /\ panel.lastResultsPage # NoResults)
  /\ Wanted => RightPage(Latest)
  /\ Wanted /\ ~misled => Filtered(Latest)

ResultsInv == PanelInv /\ PanelKnows /\ Unfocused /\ FrameKnows

\* What the texts of the panel come to.
LEMMA FieldTexts ==
  ASSUME NEW field \in Texts \cup {Prompt}
  PROVE  /\ Squeeze(TrimLeft(field)) = Squeeze(field)
         /\ Squeeze(Squeeze(field)) = Squeeze(field)
         /\ Squeeze(field) = << >> => TrimLeft(field) = << >>
  <1>1. field \in Seq(STRING)
    BY TextsAssumption
  <1>2. ASSUME Squeeze(field) = << >> PROVE TrimLeft(field) = << >>
    <2>1. \A i \in 1 .. Len(field) : field[i] = " "
      BY <1>1, <1>2, SqueezedToNothing
    <2>2. SelectInSeq(field, LAMBDA s : s # " ") = 0
      BY <2>1 DEF SelectInSeq
    <2> QED
      BY <2>2 DEF TrimLeft
  <1> QED
    BY <1>1, <1>2, SqueezeTrimmed, SqueezeTwice

LEMMA NothingSqueezed == Squeeze(<< >>) = << >> /\ << >> # Prompt /\ << >> \in Texts
  <1>1. << >> \in Seq(STRING) /\ Len(<< >>) = 0
    BY EmptySeq
  <1>2. 1 .. 0 = {}
    OBVIOUS
  <1>3. Squeeze(<< >>) = << >>
    BY <1>1, <1>2, SqueezedToNothing
  <1> QED
    BY <1>3, TextsAssumption, PromptAssumption

\* A text that the panel compares as equal to one the reader has typed is
\* neither empty nor the prompt.
LEMMA TypedIsWanted ==
  ASSUME NEW field \in Texts \cup {Prompt}, field # Prompt, Squeeze(field) # << >>,
         NEW text, Squeeze(text) = Squeeze(field)
  PROVE  text \notin Nothing
  <1>1. Squeeze(field) # Squeeze(Prompt)
    BY PromptAssumption
  <1>2. Squeeze(TrimLeft(Prompt)) = Squeeze(Prompt)
    BY FieldTexts
  <1> QED
    BY <1>1, <1>2, NothingSqueezed DEF Nothing

LEMMA ResultsPageIs ==
  ASSUME NEW topic \in Topics, NEW text
  PROVE  ResultsPage(topic, text) \notin {NoPage, OtherPage}
  BY FramePagesAssumption DEF ResultsPage

\* What Search leaves in the panel, but for the timers it forgot.
Searches(q, p) ==
  /\ IsPanel(q)
  /\ q.field = p.field /\ q.topic = p.topic
  /\ q.active = p.active /\ q.inactivateTimeout = p.inactivateTimeout
  /\ q.keyTimeout = FALSE
  /\ q.popup = (mode = "HTML")
  /\ q.lastSearchValue = TrimLeft(p.field)
  /\ q.lastResultsPage = ResultsPage(p.topic, TrimLeft(p.field))

LEMMA AfterSearchIs ==
  ASSUME NEW p, IsPanel(p)
  PROVE  /\ Searches(AfterSearch(p), p)
         /\ \A n : Searches([AfterSearch(p) EXCEPT !.stray = n], p)
  <1>1. Searches(AfterSearch(p), p)
    BY DEF AfterSearch, Searches, IsPanel, PanelFields
  <1>2. ASSUME NEW n PROVE Searches([AfterSearch(p) EXCEPT !.stray = n], p)
    <2> DEFINE q == AfterSearch(p)
               r == [q EXCEPT !.stray = n]
    <2>1. IsPanel(q)
      BY <1>1 DEF Searches
    <2> HIDE DEF q
    <2>2. /\ IsPanel(r)
          /\ r.field = q.field /\ r.topic = q.topic
          /\ r.active = q.active /\ r.inactivateTimeout = q.inactivateTimeout
          /\ r.keyTimeout = q.keyTimeout /\ r.popup = q.popup
          /\ r.lastSearchValue = q.lastSearchValue
          /\ r.lastResultsPage = q.lastResultsPage
      BY <2>1 DEF IsPanel, PanelFields
    <2> HIDE DEF r
    <2>3. Searches(q, p)
      BY <1>1 DEF q
    <2>4. Searches(r, p)
      BY <2>2, <2>3 DEF Searches
    <2> QED
      BY <2>4 DEF r, q
  <1> QED
    BY <1>1, <1>2

(* The frame after a search. *)

LEMMA GoesThere ==
  ASSUME FrameKnows, agent' = agent,
         NEW page, NEW text, GoTo(page, text), Document(page, text) # NoPage,
         page \notin {NoPage, OtherPage},
         panel'.lastResultsPage = page, panel'.lastSearchValue = text
  PROVE  FrameKnows'
  <1> DEFINE doc == Document(page, text)
  <1>1. doc.page = page /\ doc.query = text /\ (doc.ready <=> page = NoResults)
    <2>1. doc.page = page /\ doc.query = text /\ doc.ready = (page \in {NoResults, OtherPage})
      BY DEF Document
    <2> QED
      BY <2>1
  <1> HIDE DEF doc
  <1>2. coming' = doc /\ frame' = frame /\ doc # NoPage
    BY DEF GoTo, doc
  <1>3. coming' = Document(coming'.page, coming'.query) /\ coming'.page # OtherPage
    BY <1>1, <1>2 DEF doc
  <1>4. (Latest' = doc)
    BY <1>2 DEF Latest
  <1>5. Filtered(Latest)'
    BY <1>1, <1>4 DEF Filtered
  <1>6. RightPage(Latest)'
    BY <1>1, <1>4 DEF RightPage
  <1>7. /\ IsDocument(frame)'
        /\ (HasSearchResults(frame) => (frame.lastMatch <=> Found(frame.page, frame.shown)))'
        /\ (frame.stuck => BrowserType(agent) = "IE" /\ frame.ready /\ ~frame.lastMatch)'
    BY <1>2 DEF FrameKnows, IsDocument, HasSearchResults
  <1> QED
    BY <1>3, <1>5, <1>6, <1>7 DEF FrameKnows

LEMMA FiltersFrame ==
  ASSUME FrameKnows, agent' = agent,
         NEW page, NEW text, InFrame(text), HasSearchResults(frame),
         page = panel.lastResultsPage, page # NoPage, page # NoResults, ~MustReload,
         panel'.lastResultsPage = page, panel'.lastSearchValue = text
  PROVE  FrameKnows'
  <1> DEFINE doc    == Searched(frame, text)
             search == IF text = << >> THEN frame.query ELSE text
             found  == Found(frame.page, search)
  <1>1. /\ IsDocument(doc)
        /\ doc.page = frame.page /\ doc.query = frame.query /\ doc.ready = TRUE
        /\ doc.shown = search /\ doc.lastMatch = found
        /\ doc.stuck = (frame.stuck \/ (BrowserType(agent) = "IE" /\ ~found))
    <2>1. IsDocument(frame)
      BY DEF FrameKnows
    <2>2. doc = [frame EXCEPT !.ready = TRUE, !.shown = search, !.lastMatch = found,
                   !.stuck = @ \/ (BrowserType(agent) = "IE" /\ ~found)]
      BY DEF Searched
    <2> HIDE DEF doc, search, found
    <2> QED
      BY <2>1, <2>2 DEF IsDocument
  <1> HIDE DEF doc, search, found
  <1>2. frame' = doc /\ coming' = coming /\ misled' = (coming # NoPage)
        /\ astray' = astray
    BY DEF InFrame, doc
  <1>3. frame.page # OtherPage /\ frame.ready
    BY DEF HasSearchResults
  <1>4. ~frame.stuck
    BY DEF FrameKnows, MustReload
  <1>5. (HasSearchResults(frame) => (frame.lastMatch <=> Found(frame.page, frame.shown)))'
    BY <1>1, <1>2 DEF found
  <1>6. (frame.stuck => BrowserType(agent) = "IE" /\ frame.ready /\ ~frame.lastMatch)'
    BY <1>1, <1>2, <1>4
  <1>7. RightPage(Latest)'
    <2>1. Latest'.page = Latest.page
      BY <1>1, <1>2 DEF Latest
    <2>2. Latest.page # OtherPage
      BY <1>3 DEF FrameKnows, Latest
    <2>3. Latest.page = page
      BY <2>2 DEF FrameKnows, RightPage
    <2> QED
      BY <2>1, <2>3 DEF RightPage
  <1>8. ASSUME Wanted', ~misled' PROVE Filtered(Latest)'
    <2>1. Latest' = doc
      BY <1>2, <1>8 DEF Latest
    <2>2. text # << >>
      BY <1>8 DEF Wanted, Nothing
    <2>3. doc.shown = text
      BY <1>1, <2>2 DEF search
    <2> QED
      BY <1>1, <2>1, <2>3 DEF Filtered
  <1> QED
    BY <1>1, <1>2, <1>5, <1>6, <1>7, <1>8 DEF FrameKnows, IsDocument

\* Whichever way it takes, a search leaves the frame with, or on its way to,
\* the page for the text (main.js:520-605).
LEMMA SearchFinds ==
  ASSUME FrameKnows, agent' = agent,
         NEW p, p.field \in Texts \cup {Prompt}, p.topic \in Topics,
         p.lastResultsPage = panel.lastResultsPage,
         Search(p), Searches(panel', p)
  PROVE  FrameKnows'
  <1> DEFINE text == TrimLeft(p.field)
             page == ResultsPage(p.topic, text)
  <1>1. panel'.lastResultsPage = page /\ panel'.lastSearchValue = text
    BY DEF Searches
  <1>2. page \notin {NoPage, OtherPage}
    BY ResultsPageIs
  <1>3. Document(page, text) # NoPage
    BY NoPageAssumption
  <1>4. GoTo(page, text)
        \/ (page = panel.lastResultsPage /\ page # NoResults /\ ~MustReload
            /\ AskAgain(page, text))
        \/ (page = panel.lastResultsPage /\ page = NoResults
            /\ UNCHANGED <<frame, coming, misled, astray>>)
    BY DEF Search, SamePage
  <1> HIDE DEF text, page
  <1>5. CASE GoTo(page, text)
    BY <1>1, <1>2, <1>3, <1>5, GoesThere
  <1>6. CASE page = panel.lastResultsPage /\ page # NoResults /\ ~MustReload
             /\ AskAgain(page, text)
    <2>1. CASE HasSearchResults(frame)
      BY <1>1, <1>2, <1>6, <2>1, FiltersFrame DEF AskAgain
    <2>2. CASE ~HasSearchResults(frame)
      BY <1>1, <1>2, <1>3, <1>6, <2>2, GoesThere DEF AskAgain
    <2> QED
      BY <2>1, <2>2
  <1>7. CASE page = panel.lastResultsPage /\ page = NoResults
             /\ UNCHANGED <<frame, coming, misled, astray>>
    <2>1. Latest' = Latest
      BY <1>7 DEF Latest
    <2>2. RightPage(Latest)
      BY <1>2, <1>7 DEF FrameKnows
    <2>3. RightPage(Latest)' /\ Filtered(Latest)'
      BY <1>1, <1>7, <2>1, <2>2 DEF RightPage, Filtered
    <2> QED
      BY <1>1, <1>7, <2>1, <2>2, <2>3 DEF FrameKnows, IsDocument, HasSearchResults
  <1> QED
    BY <1>4, <1>5, <1>6, <1>7

(* The panel after a search. *)

LEMMA SearchKnows ==
  ASSUME ResultsInv, mode' = mode, focus' = focus,
         NEW p, p.field = panel.field, p.topic \in Topics,
         p.inactivateTimeout = panel.inactivateTimeout, Searches(panel', p)
  PROVE  PanelKnows' /\ Unfocused'
  <1> DEFINE field == panel.field
  <1>1. /\ panel'.field = field /\ panel'.topic = p.topic
        /\ panel'.inactivateTimeout = panel.inactivateTimeout
        /\ panel'.popup = (mode = "HTML")
        /\ panel'.lastSearchValue = TrimLeft(field)
        /\ panel'.lastResultsPage = ResultsPage(p.topic, TrimLeft(field))
    BY DEF Searches
  <1>2. field \in Texts \cup {Prompt} /\ focus \in Controls \cup {"other"}
        /\ (focus \in Controls => field # Prompt)
    BY DEF ResultsInv, PanelKnows
  <1>3. Squeeze(TrimLeft(field)) = Squeeze(field)
        /\ (Squeeze(field) = << >> => TrimLeft(field) = << >>)
    BY <1>2, FieldTexts
  <1>4. ~Typed' => TrimLeft(field) \in Nothing
    BY <1>1, <1>3 DEF Typed, Nothing
  <1> HIDE DEF field
  <1>5. PanelKnows'
    BY <1>1, <1>2, <1>3, <1>4 DEF PanelKnows
  <1>6. ASSUME mode = "FramedHTML", focus = "other", ~panel.inactivateTimeout
        PROVE  field = Prompt
    BY <1>6 DEF ResultsInv, Unfocused, field
  <1>7. Unfocused'
    BY <1>1, <1>6 DEF Unfocused
  <1> QED
    BY <1>5, <1>7

(* Steps that do not search. *)

\* As long as the panel keeps what it knows of the last search, or forgets it,
\* the frame is what it is to be.
LEMMA FrameStays ==
  ASSUME FrameKnows, UNCHANGED <<agent, frame, coming, misled, astray>>,
         \/ panel'.lastResultsPage = panel.lastResultsPage
         \/ panel'.lastResultsPage = NoPage,
         \/ panel'.lastResultsPage = panel.lastResultsPage
            /\ panel'.lastSearchValue = panel.lastSearchValue
         \/ panel'.lastSearchValue = << >>
  PROVE  FrameKnows'
  <1>1. Latest' = Latest
    BY DEF Latest
  <1>2. Wanted' => panel'.lastSearchValue # << >>
    BY DEF Wanted, Nothing
  <1>3. Wanted' => Wanted /\ panel'.lastResultsPage = panel.lastResultsPage
                   /\ panel'.lastSearchValue = panel.lastSearchValue
    BY <1>2 DEF Wanted
  <1>4. Wanted' => RightPage(Latest)' /\ (~misled' => Filtered(Latest)')
    BY <1>1, <1>3 DEF FrameKnows, RightPage, Filtered
  <1>5. panel'.lastResultsPage # NoPage =>
          \/ RightPage(Latest)'
          \/ Latest'.page = OtherPage /\ panel'.lastResultsPage # NoResults
    BY <1>1 DEF FrameKnows, RightPage
  <1>6. /\ IsDocument(frame)'
        /\ (coming # NoPage => /\ coming = Document(coming.page, coming.query)
                               /\ coming.page # OtherPage)'
        /\ (HasSearchResults(frame) => (frame.lastMatch <=> Found(frame.page, frame.shown)))'
        /\ (frame.stuck => BrowserType(agent) = "IE" /\ frame.ready /\ ~frame.lastMatch)'
    BY DEF FrameKnows, IsDocument, HasSearchResults
  <1> QED
    BY <1>4, <1>5, <1>6 DEF FrameKnows

\* A panel that has been reset.
LEMMA ResetKnows ==
  ASSUME ResultsInv, UNCHANGED <<agent, mode, focus, frame, coming, misled, astray>>,
         focus \notin Controls, NEW p, IsPanel(p), p.topic = panel.topic,
         panel' = Reset(p)
  PROVE  PanelKnows' /\ Unfocused' /\ FrameKnows'
  <1>1. /\ panel'.field = Prompt /\ panel'.topic = panel.topic
        /\ panel'.lastSearchValue = << >> /\ panel'.lastResultsPage = NoPage
    BY DEF Reset, IsPanel, PanelFields
  <1>2. ~Typed' /\ ~Wanted' /\ << >> \in Nothing
    BY <1>1 DEF Typed, Wanted, Nothing
  <1>3. PanelKnows'
    BY <1>1, <1>2 DEF ResultsInv, PanelKnows
  <1>4. Unfocused'
    BY <1>1 DEF Unfocused
  <1>5. FrameKnows'
    BY <1>1, FrameStays DEF ResultsInv
  <1> QED
    BY <1>3, <1>4, <1>5

\* What stays in the panel when it is activated or about to be deactivated.
Keeps(q, p) ==
  /\ IsPanel(q)
  /\ q.field = p.field \/ (p.field = Prompt /\ q.field = << >>)
  /\ q.topic = p.topic /\ q.popup = p.popup /\ q.keyTimeout = p.keyTimeout
  /\ q.lastSearchValue = p.lastSearchValue
  /\ q.lastResultsPage = p.lastResultsPage

LEMMA ActivateKeeps ==
  ASSUME NEW p, IsPanel(p), NEW isActive \in BOOLEAN
  PROVE  LET q == Activate(p, isActive, FALSE)
         IN  /\ Keeps(q, p)
             /\ isActive => q.field # Prompt
             /\ mode = "FramedHTML" /\ ~isActive => q.inactivateTimeout
  <1>1. Keeps(Activated(p), p) /\ Activated(p).field # Prompt
    <2>1. /\ IsPanel(Activated(p))
          /\ Activated(p).field = (IF p.field = Prompt THEN << >> ELSE p.field)
          /\ Activated(p).topic = p.topic /\ Activated(p).popup = p.popup
          /\ Activated(p).keyTimeout = p.keyTimeout
          /\ Activated(p).lastSearchValue = p.lastSearchValue
          /\ Activated(p).lastResultsPage = p.lastResultsPage
      BY DEF Activated, IsPanel, PanelFields
    <2> QED
      BY <2>1, NothingSqueezed DEF Keeps
  <1>2. Keeps(Deactivating(p), p) /\ Deactivating(p).inactivateTimeout
    BY DEF Deactivating, Keeps, IsPanel, PanelFields
  <1> QED
    BY <1>1, <1>2 DEF Activate

LEMMA FocusMoveKnows ==
  ASSUME ResultsInv, UNCHANGED <<agent, mode>>,
         NEW to \in Controls \cup {"other"}, FocusMoves(to)
  PROVE  PanelKnows' /\ Unfocused' /\ FrameKnows'
  <1>1. IsPanel(panel) /\ focus \in Controls \cup {"other"}
    BY DEF ResultsInv, PanelInv, PanelKnows
  <1>2. Keeps(panel, panel)
    BY <1>1 DEF Keeps
  <1>3. Keeps(Blurred(panel), panel)
    BY <1>1, <1>2, ActivateKeeps DEF Blurred
  <1>4. Keeps(panel', panel) /\ (to \in Controls => panel'.field # Prompt)
    <2>1. CASE to \in Controls
      <3>1. Keeps(panel', Blurred(panel)) /\ panel'.field # Prompt
        BY <1>3, <2>1, ActivateKeeps DEF FocusMoves, Keeps
      <3> QED
        BY <1>3, <3>1 DEF Keeps
    <2>2. CASE to \notin Controls
      BY <1>3, <2>2 DEF FocusMoves
    <2> QED
      BY <2>1, <2>2
  <1>5. focus' = to /\ UNCHANGED <<frame, coming, misled, astray>> /\ focus # to
    BY DEF FocusMoves
  <1>6. panel'.field = panel.field \/ (panel.field = Prompt /\ panel'.field = << >>)
    BY <1>4 DEF Keeps
  <1>7. /\ panel'.field \in Texts \cup {Prompt}
        /\ Typed' <=> Typed
        /\ Typed => panel'.field = panel.field
    BY <1>6, NothingSqueezed DEF Typed, ResultsInv, PanelKnows
  <1>8. PanelKnows'
    BY <1>4, <1>5, <1>7 DEF ResultsInv, PanelKnows, Keeps, Wanted
  <1>9. Unfocused'
    <2> SUFFICES ASSUME mode = "FramedHTML", to = "other" PROVE panel'.inactivateTimeout
      BY <1>5 DEF Unfocused
    <2>1. focus \in Controls /\ to \notin Controls
      BY <1>1, <1>5 DEF Controls
    <2> QED
      BY <1>1, <2>1, ActivateKeeps DEF FocusMoves, Blurred
  <1>10. FrameKnows'
    BY <1>4, <1>5, FrameStays DEF ResultsInv, Keeps
  <1> QED
    BY <1>8, <1>9, <1>10

\* A key goes up: when the text is what was searched for, spaces aside, the
\* panel already knows its results (main.js:449-474).
LEMMA KeyUpKnows ==
  ASSUME ResultsInv, UNCHANGED <<agent, mode>>, NEW text \in Texts, KeyUp(text)
  PROVE  PanelKnows' /\ Unfocused' /\ FrameKnows'
  <1> DEFINE typed == [panel EXCEPT !.field = text]
             value == panel.lastSearchValue
  <1>1. /\ IsPanel(typed) /\ typed.field = text /\ typed.topic = panel.topic
        /\ typed.popup = panel.popup /\ typed.lastSearchValue = value
        /\ typed.lastResultsPage = panel.lastResultsPage
    BY DEF ResultsInv, PanelInv, IsPanel, PanelFields
  <1>2. focus = "field" /\ focus' = focus /\ panel' = OnSearchFieldChange(typed)
        /\ UNCHANGED <<frame, coming, misled, astray>>
    BY DEF KeyUp
  <1>3. text # Prompt /\ Squeeze(Squeeze(text)) = Squeeze(text)
    BY PromptAssumption, FieldTexts
  <1> HIDE DEF typed
  <1>4. /\ panel'.field = text /\ panel'.topic = panel.topic
        /\ panel'.lastResultsPage = panel.lastResultsPage
        /\ \/ /\ Squeeze(text) = value /\ panel'.lastSearchValue = value
              /\ panel'.keyTimeout = FALSE /\ panel'.popup = panel.popup
           \/ /\ Squeeze(text) # << >> /\ panel'.lastSearchValue = value
              /\ panel'.keyTimeout = TRUE /\ panel'.popup = panel.popup
           \/ /\ Squeeze(text) = << >> /\ panel'.lastSearchValue = << >>
              /\ panel'.keyTimeout = FALSE
    <2>1. CASE ~Changed(Squeeze(text), value)
      BY <1>1, <1>2, <2>1 DEF OnSearchFieldChange, Changed, IsPanel, PanelFields
    <2>2. CASE Changed(Squeeze(text), value) /\ Squeeze(text) # << >>
      BY <1>1, <1>2, <2>2 DEF OnSearchFieldChange, IsPanel, PanelFields
    <2>3. CASE Changed(Squeeze(text), value) /\ Squeeze(text) = << >>
      BY <1>1, <1>2, <2>3 DEF OnSearchFieldChange, IsPanel, PanelFields
    <2> QED
      BY <2>1, <2>2, <2>3
  <1>5. Typed' <=> Squeeze(text) # << >>
    BY <1>3, <1>4 DEF Typed
  <1>6. << >> \in Nothing
    BY DEF Nothing
  <1>7. PanelKnows'
    BY <1>2, <1>3, <1>4, <1>5, <1>6 DEF ResultsInv, PanelKnows, Wanted
  <1>8. Unfocused'
    BY <1>2 DEF Unfocused
  <1>9. FrameKnows'
    BY <1>2, <1>4, FrameStays DEF ResultsInv
  <1> QED
    BY <1>7, <1>8, <1>9

(* The frame by itself. *)

\* As long as the panel stays, so does what it knows.
LEMMA PanelStays ==
  ASSUME ResultsInv, UNCHANGED <<mode, panel, focus>>
  PROVE  PanelKnows' /\ Unfocused'
  BY DEF ResultsInv, PanelKnows, Unfocused, Typed, Wanted

LEMMA BrowseKnows ==
  ASSUME ResultsInv, UNCHANGED <<agent, mode>>, Browse
  PROVE  FrameKnows'
  <1>1. panel.field = Prompt /\ astray' = (panel.lastResultsPage = NoResults)
        /\ panel' = panel
    BY DEF Browse, ReaderActs, ResultsInv, Unfocused
  <1>2. ~Wanted'
    BY <1>1 DEF Browse, ResultsInv, PanelKnows, Typed, Wanted
  <1>3. /\ IsDocument(frame)' /\ frame'.page = OtherPage /\ frame'.stuck = FALSE
        /\ coming' = NoPage
    BY DEF Browse, Document, IsDocument
  <1>4. Latest'.page = OtherPage /\ ~HasSearchResults(frame)'
    BY <1>3 DEF Latest, HasSearchResults
  <1>5. panel'.lastResultsPage # NoPage =>
          \/ RightPage(Latest)'
          \/ Latest'.page = OtherPage /\ panel'.lastResultsPage # NoResults
    BY <1>1, <1>4 DEF RightPage
  <1> QED
    BY <1>2, <1>3, <1>4, <1>5 DEF FrameKnows, Browse

LEMMA CommitKnows ==
  ASSUME ResultsInv, UNCHANGED <<agent, mode>>, FrameCommits
  PROVE  FrameKnows'
  <1>1. /\ coming # NoPage /\ frame' = coming /\ coming' = NoPage
        /\ UNCHANGED <<panel, focus, misled, astray>>
    BY DEF FrameCommits
  <1>2. Latest' = Latest
    BY <1>1 DEF Latest
  <1>3. coming = Document(coming.page, coming.query)
    BY <1>1 DEF ResultsInv, FrameKnows
  <1>4. IsDocument(coming) /\ coming.stuck = FALSE
        /\ coming.ready = (coming.page \in {NoResults, OtherPage})
    BY <1>3 DEF Document, IsDocument
  <1>5. IsDocument(frame)' /\ ~frame'.stuck /\ ~HasSearchResults(frame)'
    BY <1>1, <1>4 DEF HasSearchResults, IsDocument
  <1>6. Wanted' => RightPage(Latest)' /\ (~misled' => Filtered(Latest)')
    BY <1>1, <1>2 DEF ResultsInv, FrameKnows, Wanted, RightPage, Filtered
  <1>7. panel'.lastResultsPage # NoPage =>
          \/ RightPage(Latest)'
          \/ Latest'.page = OtherPage /\ panel'.lastResultsPage # NoResults
    BY <1>1, <1>2 DEF ResultsInv, FrameKnows, RightPage
  <1> QED
    BY <1>1, <1>5, <1>6, <1>7 DEF FrameKnows

LEMMA ScriptKnows ==
  ASSUME ResultsInv, UNCHANGED <<agent, mode>>, FrameScript
  PROVE  FrameKnows'
  <1> DEFINE found == Found(frame.page, frame.query)
  <1>1. /\ ~frame.ready /\ frame' = Searched(frame, frame.query)
        /\ UNCHANGED <<panel, focus, coming, misled, astray>>
    BY DEF FrameScript
  <1>2. /\ IsDocument(frame)'
        /\ frame'.page = frame.page /\ frame'.query = frame.query
        /\ frame'.ready = TRUE /\ frame'.shown = frame.query
        /\ frame'.lastMatch = found
        /\ frame'.stuck = (frame.stuck \/ (BrowserType(agent) = "IE" /\ ~found))
    <2>1. IsDocument(frame)
      BY DEF ResultsInv, FrameKnows
    <2>2. frame' = [frame EXCEPT !.ready = TRUE, !.shown = frame.query,
                      !.lastMatch = found,
                      !.stuck = @ \/ (BrowserType(agent) = "IE" /\ ~found)]
      BY <1>1 DEF Searched
    <2> HIDE DEF found
    <2> QED
      BY <2>1, <2>2 DEF IsDocument
  <1>3. ~frame.stuck
    BY <1>1 DEF ResultsInv, FrameKnows
  <1>4. (HasSearchResults(frame) => (frame.lastMatch <=> Found(frame.page, frame.shown)))'
    BY <1>2
  <1> HIDE DEF found
  <1>5. (frame.stuck => BrowserType(agent) = "IE" /\ frame.ready /\ ~frame.lastMatch)'
    BY <1>2, <1>3
  <1>6. Latest'.page = Latest.page
    BY <1>1, <1>2 DEF Latest
  <1>7. Wanted' => RightPage(Latest)' /\ (~misled' => Filtered(Latest)')
    BY <1>1, <1>2, <1>6 DEF ResultsInv, FrameKnows, Wanted, RightPage, Filtered, Latest
  <1>8. panel'.lastResultsPage # NoPage =>
          \/ RightPage(Latest)'
          \/ Latest'.page = OtherPage /\ panel'.lastResultsPage # NoResults
    BY <1>1, <1>6 DEF ResultsInv, FrameKnows, RightPage
  <1> QED
    BY <1>1, <1>2, <1>4, <1>5, <1>7, <1>8 DEF ResultsInv, FrameKnows

LEMMA ResultsStep ==
  ASSUME ResultsInv, UNCHANGED <<agent, mode>>,
         PanelNext \/ UNCHANGED panelVars
  PROVE  ResultsInv'
  <1> SUFFICES PanelKnows' /\ Unfocused' /\ FrameKnows'
    <2>1. PanelInv'
      BY PanelInvStep DEF ResultsInv
    <2> QED
      BY <2>1 DEF ResultsInv
  <1>0. IsPanel(panel) /\ FrameKnows /\ panel.topic \in Topics
        /\ panel.field \in Texts \cup {Prompt}
    BY DEF ResultsInv, PanelInv, PanelKnows
  <1>1. ASSUME NEW to \in Controls \cup {"other"}, FocusMoves(to)
        PROVE  PanelKnows' /\ Unfocused' /\ FrameKnows'
    BY <1>1, FocusMoveKnows
  <1>2. ASSUME NEW text \in Texts, KeyUp(text)
        PROVE  PanelKnows' /\ Unfocused' /\ FrameKnows'
    BY <1>2, KeyUpKnows
  <1>3. ASSUME NEW topic \in Topics, ChooseType(topic)
        PROVE  PanelKnows' /\ Unfocused' /\ FrameKnows'
    <2> DEFINE chosen == [panel EXCEPT !.topic = topic]
    <2>1. /\ IsPanel(chosen) /\ chosen.topic = topic
          /\ chosen.field = panel.field /\ chosen.popup = panel.popup
          /\ chosen.keyTimeout = panel.keyTimeout
          /\ chosen.inactivateTimeout = panel.inactivateTimeout
          /\ chosen.lastSearchValue = panel.lastSearchValue
          /\ chosen.lastResultsPage = panel.lastResultsPage
      BY <1>0 DEF IsPanel, PanelFields
    <2>2. focus' = focus /\ focus = "type"
      BY <1>3 DEF ChooseType
    <2>3. CASE Squeeze(panel.field) # << >>
      <3> DEFINE q == AfterSearch(chosen)
                 n == IF panel.keyTimeout THEN q.stray + 1 ELSE q.stray
      <3>1. panel' = [q EXCEPT !.stray = n] /\ Search(chosen)
        BY <1>3, <2>3 DEF ChooseType
      <3> HIDE DEF n, chosen
      <3>2. Searches(panel', chosen)
        BY <2>1, <3>1, AfterSearchIs
      <3>3. FrameKnows'
        BY <1>0, <2>1, <3>1, <3>2, SearchFinds
      <3> QED
        BY <2>1, <2>2, <3>2, <3>3, SearchKnows
    <2>4. CASE Squeeze(panel.field) = << >>
      <3>1. panel' = chosen /\ UNCHANGED <<frame, coming, misled, astray>>
        BY <1>3, <2>4 DEF ChooseType
      <3>2. ~Typed /\ ~Typed' /\ ~Wanted'
        BY <2>1, <2>4, <3>1 DEF Typed, Wanted, ResultsInv, PanelKnows
      <3> HIDE DEF chosen
      <3>3. PanelKnows'
        BY <2>1, <2>2, <3>1, <3>2 DEF ResultsInv, PanelKnows, Wanted
      <3>4. Unfocused'
        BY <2>2 DEF Unfocused
      <3>5. FrameKnows'
        BY <2>1, <3>1, FrameStays DEF ResultsInv
      <3> QED
        BY <3>3, <3>4, <3>5
    <2> QED
      BY <2>3, <2>4
  <1>4. CASE KeyTimeout
    <2>1. focus' = focus /\ Search(panel) /\ Searches(panel', panel)
      BY <1>0, <1>4, AfterSearchIs DEF KeyTimeout
    <2> QED
      BY <1>0, <2>1, SearchFinds, SearchKnows
  <1>5. CASE StrayTimeout
    <2> DEFINE q == AfterSearch(panel)
               n == IF panel.keyTimeout THEN q.stray ELSE q.stray - 1
    <2>1. focus' = focus /\ Search(panel) /\ panel' = [q EXCEPT !.stray = n]
      BY <1>5 DEF StrayTimeout
    <2> HIDE DEF n
    <2>2. Searches(panel', panel)
      BY <1>0, <2>1, AfterSearchIs
    <2> QED
      BY <1>0, <2>1, <2>2, SearchFinds, SearchKnows
  <1>6. CASE InactivateTimeout
    <2>1. focus \notin Controls
      BY <1>6 DEF InactivateTimeout, ResultsInv, PanelInv, FocusKeepsPanel
    <2> QED
      BY <1>0, <1>6, <2>1, ResetKnows DEF InactivateTimeout
  <1>7. CASE CloseResultsWindow
    <2> DEFINE closed == [panel EXCEPT !.popup = FALSE]
    <2>1. IsPanel(closed) /\ closed.popup = FALSE /\ closed.topic = panel.topic
      BY <1>0 DEF IsPanel, PanelFields
    <2> HIDE DEF closed
    <2>2. Activate(closed, FALSE, TRUE) = Reset(closed)
      BY <2>1 DEF Activate
    <2>3. focus \notin Controls /\ panel' = Reset(closed)
          /\ UNCHANGED <<focus, frame, coming, misled, astray>>
      BY <1>7, <2>2 DEF CloseResultsWindow, Controls, closed
    <2> QED
      BY <2>1, <2>3, ResetKnows
  <1>8. CASE Browse
    BY <1>8, PanelStays, BrowseKnows DEF Browse
  <1>9. CASE FrameCommits
    BY <1>9, PanelStays, CommitKnows DEF FrameCommits
  <1>10. CASE FrameScript
    BY <1>10, PanelStays, ScriptKnows DEF FrameScript
  <1>11. CASE UNCHANGED panelVars
    BY <1>11, PanelStays, FrameStays DEF panelVars, ResultsInv
  <1> QED
    BY <1>1, <1>2, <1>3, <1>4, <1>5, <1>6, <1>7, <1>8, <1>9, <1>10, <1>11
       DEF PanelNext, Reader, Timers, Frame

LEMMA ResultsInvStarts == Init => ResultsInv
  <1> SUFFICES ASSUME Init PROVE ResultsInv
    OBVIOUS
  <1>1. PanelInit /\ PanelInv
    BY Starts, PanelInvStarts
  <1>2. /\ panel.field = Prompt /\ panel.topic = "General"
        /\ panel.lastSearchValue = << >> /\ panel.lastResultsPage = NoPage
        /\ focus = "other" /\ coming = NoPage
    BY <1>1 DEF PanelInit
  <1>3. IsDocument(frame) /\ frame.page = OtherPage /\ frame.stuck = FALSE
    BY <1>1 DEF PanelInit, Document, IsDocument
  <1>4. ~Typed /\ ~Wanted
    BY <1>2 DEF Typed, Wanted, Nothing
  <1>5. PanelKnows
    BY <1>2, <1>4, TopicsAssumption DEF PanelKnows, Nothing, Controls
  <1>6. Unfocused
    BY <1>2 DEF Unfocused
  <1>7. FrameKnows
    BY <1>2, <1>3, <1>4 DEF FrameKnows, HasSearchResults
  <1> QED
    BY <1>1, <1>5, <1>6, <1>7 DEF ResultsInv

LEMMA FrameIsRight == ResultsInv => ResultsForField
  <1> SUFFICES ASSUME ResultsInv, Quiet, focus \in Controls,
                      Squeeze(panel.field) # << >>
               PROVE  /\ Squeeze(panel.lastSearchValue) = Squeeze(panel.field)
                      /\ FrameShows(panel.lastSearchValue)
    BY DEF ResultsForField
  <1> DEFINE value == panel.lastSearchValue
             page  == ResultsPage(panel.topic, value)
  <1>1. Typed /\ panel.field \in Texts \cup {Prompt} /\ panel.field # Prompt
    BY DEF ResultsInv, PanelKnows, Typed
  <1>2. Squeeze(value) = Squeeze(panel.field)
    BY <1>1 DEF ResultsInv, PanelKnows, Quiet
  <1>3. Wanted
    BY <1>1, <1>2, TypedIsWanted DEF Wanted
  <1>4. panel.lastResultsPage = page /\ (mode = "HTML" => panel.popup)
    BY <1>3 DEF ResultsInv, PanelKnows
  <1>5. page \notin {NoPage, OtherPage}
    BY ResultsPageIs DEF ResultsInv, PanelKnows
  <1> HIDE DEF page
  <1>6. Latest = frame /\ frame.ready
    BY DEF Latest, Quiet
  <1>7. LeftAlone \/ frame.page = page
    BY <1>3, <1>4, <1>6 DEF ResultsInv, FrameKnows, RightPage, LeftAlone
  <1>8. ASSUME ~misled, page # NoResults
        PROVE  frame.shown = value /\ (frame.stuck => ~Found(page, value))
    <2>1. frame.shown = value
      BY <1>3, <1>4, <1>6, <1>8 DEF ResultsInv, FrameKnows, Filtered
    <2>2. frame.page = page
      BY <1>4, <1>7, <1>8 DEF LeftAlone
    <2>3. HasSearchResults(frame)
      BY <1>5, <1>6, <1>8, <2>2 DEF HasSearchResults
    <2> QED
      BY <2>1, <2>2, <2>3 DEF ResultsInv, FrameKnows
  <1> QED
    BY <1>2, <1>4, <1>7, <1>8 DEF FrameShows, ShowsPage, ShowsEntries, page

\* When nothing is pending the frame shows what is in the field, whatever the
\* reader has typed, whichever topic was chosen when, and however timers, focus
\* and the frame interleaved: what the panel compares a text with
\* (main.js:457-459) is what the frame shows, and the cases of Search (561-587)
\* in which it leaves the frame alone are those in which it is right already.
\* The exceptions are those of FrameShows: a text without a page, searched for
\* when the reader has gone on from NoResults.html and the panel has not noticed
\* (561), and the text, not the page, of a search made in a document on its way
\* out (580).
THEOREM ResultsCorrect == Spec => []ResultsForField
  <1>1. [Next]_vars => UNCHANGED <<agent, mode>>
    BY DEF Next, vars, pageVars, Menu, SearchField, Documentation, Results,
           BoxesNext, NDOnLoad, NDOnResize, ResizeTimeout
  <1>2. ResultsInv /\ [Next]_vars => ResultsInv'
    BY <1>1, PanelSteps, ResultsStep
  <1> QED
    BY <1>2, ResultsInvStarts, FrameIsRight, PTL DEF Spec

(***************************************************************************)
(* Pages of results.  A recursion on the parents of elements has a         *)
(* solution, since a parent comes before its children.                     *)
(***************************************************************************)
UpSteps(last, parent, V, base, next) ==
  /\ last \in Nat /\ \A n \in 0 .. last : parent[n] \in -1 .. n - 1
  /\ base \in V /\ next \in [(0 .. last) \X V -> V]

UpSolves(f, last, parent, V, base, next) ==
  /\ f \in [-1 .. last -> V]
  /\ f[-1] = base /\ \A n \in 0 .. last : f[n] = next[<<n, f[parent[n]]>>]

LEMMA UpRecursion ==
  ASSUME NEW last, NEW parent, NEW V, NEW base, NEW next,
         UpSteps(last, parent, V, base, next)
  PROVE  \E f : UpSolves(f, last, parent, V, base, next)
  <1> DEFINE Upto(f, m) ==
               f[-1] = base /\ \A n \in 0 .. m - 1 : f[n] = next[<<n, f[parent[n]]>>]
             S == {m \in 0 .. last + 1 : \E f \in [-1 .. m - 1 -> V] : Upto(f, m)}
  <1>0. /\ last \in Nat /\ (\A n \in 0 .. last : parent[n] \in -1 .. n - 1)
        /\ base \in V /\ next \in [(0 .. last) \X V -> V]
    BY DEF UpSteps
  <1>1. 0 \in S
    <2>1. -1 .. 0 - 1 = {-1} /\ 0 .. 0 - 1 = {} /\ 0 \in 0 .. last + 1
      BY <1>0
    <2>2. [n \in {-1} |-> base] \in [{-1} -> V] /\ [n \in {-1} |-> base][-1] = base
      BY <1>0
    <2> QED
      BY <2>1, <2>2
  <1>2. ASSUME NEW m \in 0 .. (last + 1) - 1, m \in S PROVE m + 1 \in S
    <2>1. PICK f \in [-1 .. m - 1 -> V] : Upto(f, m)
      BY <1>2
    <2> DEFINE h == [n \in -1 .. m |-> IF n = m THEN next[<<m, f[parent[m]]>>] ELSE f[n]]
    <2>2. /\ m \in Nat /\ m \in 0 .. last /\ m + 1 \in 0 .. last + 1 /\ (m + 1) - 1 = m
          /\ m \in -1 .. m /\ -1 \in -1 .. m /\ -1 # m
          /\ \A n \in -1 .. m : n # m => n \in -1 .. m - 1
          /\ \A n \in -1 .. m - 1 : n \in -1 .. m /\ n # m
          /\ \A n \in 0 .. m : n # m => n \in 0 .. m - 1
          /\ \A n \in 0 .. m : n \in 0 .. last /\ n \in -1 .. m
          /\ \A n \in 0 .. m : \A k \in -1 .. n - 1 : k \in -1 .. m - 1
      BY <1>0, <1>2
    <2>3. next[<<m, f[parent[m]]>>] \in V
      <3>1. parent[m] \in -1 .. m - 1
        BY <1>0, <2>2
      <3>2. f[parent[m]] \in V
        BY <3>1
      <3> QED
        BY <1>0, <2>2, <3>2
    <2>4. h[m] = next[<<m, f[parent[m]]>>] /\ \A n \in -1 .. m - 1 : h[n] = f[n]
      BY <2>2
    <2>5. h \in [-1 .. m -> V]
      BY <2>2, <2>3
    <2> HIDE DEF h
    <2>6. h[-1] = base
      <3>1. -1 \in -1 .. m - 1
        BY <2>2
      <3> QED
        BY <2>1, <2>4, <3>1
    <2>7. ASSUME NEW n \in 0 .. m PROVE h[n] = next[<<n, h[parent[n]]>>]
      <3>1. parent[n] \in -1 .. m - 1
        BY <1>0, <2>2
      <3>2. h[parent[n]] = f[parent[n]]
        BY <2>4, <3>1
      <3>3. CASE n = m
        BY <2>4, <3>2, <3>3
      <3>4. CASE n # m
        <4>1. n \in 0 .. m - 1 /\ n \in -1 .. m - 1
          BY <2>2, <3>4
        <4> QED
          BY <2>1, <2>4, <3>2, <4>1
      <3> QED
        BY <3>3, <3>4
    <2> QED
      BY <2>2, <2>5, <2>6, <2>7
  <1>3. last + 1 \in S
    <2>1. last + 1 \in Nat /\ last + 1 \in 0 .. last + 1
      BY <1>0
    <2> HIDE DEF S
    <2>2. 0 .. last + 1 \subseteq S
      BY <1>1, <1>2, <2>1, Induction
    <2> QED
      BY <2>1, <2>2
  <1>4. (last + 1) - 1 = last
    BY <1>0
  <1> QED
    BY <1>3, <1>4 DEF UpSolves

(***************************************************************************)
(* The tree of a page.                                                     *)
(***************************************************************************)
Tree ==
  /\ Nodes \subseteq Nat
  /\ \A n \in Nodes : dom.parent[n] \in Nodes \cup {Null} /\ dom.parent[n] < n
  /\ \A m, n \in Nodes :
       dom.parent[n] < m /\ m < n => dom.parent[n] <= dom.parent[m]

LEMMA DomIsTree ==
  ASSUME Dom(dom)
  PROVE  /\ Tree
         /\ \E last \in Nat : /\ Nodes = 0 .. last
                              /\ \A n \in 0 .. last : dom.parent[n] \in -1 .. n - 1
  <1>1. /\ IsFiniteSet(Nodes) /\ 0 \in Nodes /\ Nodes = 0 .. Cardinality(Nodes) - 1
        /\ dom.parent[0] = -1
        /\ (\A n \in Nodes \ {0} : dom.parent[n] \in 0 .. n - 1)
        /\ (\A m, n \in Nodes :
              dom.parent[n] < m /\ m < n => dom.parent[n] <= dom.parent[m])
    BY DEF Dom, Nodes, Null
  <1>2. PICK last \in Nat : Nodes = 0 .. last
    <2>1. Cardinality(Nodes) \in Nat
      BY <1>1, FS_CardinalityType
    <2>2. 0 .. Cardinality(Nodes) - 1 # {}
      BY <1>1
    <2>3. Cardinality(Nodes) - 1 \in Nat
      BY <2>1, <2>2
    <2> QED
      BY <1>1, <2>3
  <1>3. ASSUME NEW n \in 0 .. last PROVE dom.parent[n] \in -1 .. n - 1
    <2>1. CASE n = 0
      BY <1>1, <2>1
    <2>2. CASE n # 0
      <3>1. n \in Nodes \ {0}
        BY <1>2, <2>2
      <3>2. dom.parent[n] \in 0 .. n - 1
        BY <1>1, <3>1
      <3> QED
        BY <3>2
    <2> QED
      BY <2>1, <2>2
  <1>4. \A n \in Nodes : dom.parent[n] \in Nodes \cup {-1} /\ dom.parent[n] < n
    <2> SUFFICES ASSUME NEW n \in 0 .. last
                 PROVE  dom.parent[n] \in 0 .. last \cup {-1} /\ dom.parent[n] < n
      BY <1>2
    <2>1. dom.parent[n] \in -1 .. n - 1
      BY <1>3
    <2> QED
      BY <2>1
  <1> QED
    BY <1>1, <1>2, <1>3, <1>4 DEF Tree, Null

LEMMA Numbers ==
  ASSUME Tree, NEW n \in Nodes
  PROVE  /\ n \in Nat /\ dom.parent[n] \in Int /\ dom.parent[n] < n
         /\ dom.parent[n] # Null => dom.parent[n] \in Nodes
  <1>1. /\ Nodes \subseteq Nat /\ dom.parent[n] < n
        /\ dom.parent[n] \in Nodes \/ dom.parent[n] = Null
    BY DEF Tree
  <1>2. Null \in Int
    BY DEF Null
  <1>3. dom.parent[n] \in Int
    <2>1. CASE dom.parent[n] \in Nodes
      <3>1. dom.parent[n] \in Nat
        BY <1>1, <2>1, Zenon
      <3> QED
        BY <3>1
    <2>2. CASE dom.parent[n] = Null
      BY <1>2, <2>2, Zenon
    <2> QED
      BY <1>1, <2>1, <2>2, Zenon
  <1> QED
    BY <1>1, <1>3

LEMMA Between ==
  ASSUME Tree, NEW m \in Nodes, NEW n \in Nodes, dom.parent[n] < m, m < n
  PROVE  dom.parent[n] <= dom.parent[m]
  BY DEF Tree

LEMMA FirstIs ==
  ASSUME NEW S, S \subseteq Nat
  PROVE  /\ FirstOf(S) = Null <=> S = {}
         /\ S # {} => FirstOf(S) \in S /\ \A x \in S : FirstOf(S) <= x
  <1>1. CASE S = {}
    BY <1>1 DEF FirstOf
  <1>2. CASE S # {}
    <2>1. PICK x \in S : \A y \in S : x <= y
      BY <1>2, Least
    <2>2. \A z \in S : (\A y \in S : z <= y) => z = x
      BY <2>1
    <2>3. Min(S) = x
      BY <2>1, <2>2 DEF Min
    <2>4. x # -1
      BY <2>1
    <2> QED
      BY <1>2, <2>1, <2>3, <2>4 DEF FirstOf, Null
  <1> QED
    BY <1>1, <1>2

LEMMA ChildrenAre ==
  ASSUME Tree, NEW n
  PROVE  /\ Children(n) = {c \in Nodes : dom.parent[c] = n}
         /\ Children(n) \subseteq Nat
         /\ {s \in Children(dom.parent[n]) : s > n} \subseteq Nat
  BY DEF Tree, Children

\* What the recursion of Climb computes.
LEMMA ClimbIs ==
  ASSUME Dom(dom), NEW from
  PROVE  \E f : /\ Climb(from) = f[dom.parent[from]]
                /\ f \in [Nodes \cup {Null} -> Nodes \cup {Null}]
                /\ f[Null] = Null
                /\ \A n \in Nodes :
                     f[n] = IF n = parentElement THEN n
                            ELSE IF nextSibling(n) # Null THEN nextSibling(n)
                            ELSE f[dom.parent[n]]
  <1> DEFINE V == Nodes \cup {Null}
             Ups(f) == f = [n \in V |->
                              IF n = Null \/ n = parentElement THEN n
                              ELSE IF nextSibling(n) # Null THEN nextSibling(n)
                              ELSE f[dom.parent[n]]]
             up == CHOOSE f : Ups(f)
             Here(n) == n = parentElement \/ nextSibling(n) # Null
             stop == [n \in Nodes |-> IF n = parentElement THEN n ELSE nextSibling(n)]
             next == [nv \in Nodes \X V |-> IF Here(nv[1]) THEN stop[nv[1]] ELSE nv[2]]
  <1>1. Tree /\ \E last \in Nat : /\ Nodes = 0 .. last
                                  /\ \A n \in 0 .. last : dom.parent[n] \in -1 .. n - 1
    BY DomIsTree
  <1>2. PICK last \in Nat : /\ Nodes = 0 .. last
                            /\ \A n \in 0 .. last : dom.parent[n] \in -1 .. n - 1
    BY <1>1
  <1>3. V = -1 .. last /\ Null = -1 /\ Null \notin Nodes
    BY <1>2 DEF Null
  <1>4. Climb(from) = up[dom.parent[from]]
    BY DEF Climb
  <1>5. \A n \in Nodes : stop[n] \in V
    <2>1. ASSUME NEW n \in Nodes PROVE nextSibling(n) \in V
      <3>1. {s \in Children(dom.parent[n]) : s > n} \subseteq Nodes
        BY DEF Children
      <3> QED
        BY <1>1, <3>1, ChildrenAre, FirstIs DEF nextSibling
    <2> QED
      BY <2>1
  <1>6. next \in [Nodes \X V -> V]
    BY <1>5
  <1>7. \A n \in Nodes, v \in V : next[<<n, v>>] = IF Here(n) THEN stop[n] ELSE v
    OBVIOUS
  <1>8. \A n \in Nodes : stop[n] = IF n = parentElement THEN n ELSE nextSibling(n)
    OBVIOUS
  <1> HIDE DEF next, stop
  <1>9. UpSteps(last, dom.parent, V, Null, next)
    BY <1>2, <1>6 DEF UpSteps
  <1>10. \E f : UpSolves(f, last, dom.parent, V, Null, next)
    BY <1>9, UpRecursion
  <1>11. \A n \in Nodes : dom.parent[n] \in V
    BY <1>1 DEF Tree
  <1>12. \E f : Ups(f)
    <2>1. PICK f : UpSolves(f, last, dom.parent, V, Null, next)
      BY <1>10
    <2>2. f \in [V -> V] /\ f[Null] = Null
      BY <1>3, <2>1 DEF UpSolves
    <2>3. \A n \in Nodes : f[n] = next[<<n, f[dom.parent[n]]>>]
      BY <1>2, <2>1 DEF UpSolves
    <2>4. \A n \in Nodes : f[n] = IF Here(n) THEN stop[n] ELSE f[dom.parent[n]]
      BY <1>7, <1>11, <2>2, <2>3
    <2>5. \A n \in V : f[n] = IF n = Null \/ n = parentElement THEN n
                              ELSE IF nextSibling(n) # Null THEN nextSibling(n)
                              ELSE f[dom.parent[n]]
      BY <1>8, <2>2, <2>4
    <2> HIDE DEF V
    <2>6. Ups(f)
      BY <2>2, <2>5
    <2> QED
      BY <2>6
  <1>13. Ups(up)
    <2> HIDE DEF Ups
    <2> QED
      BY <1>12
  <1> HIDE DEF up
  <1>14. \A n \in V : up[n] = IF n = Null \/ n = parentElement THEN n
                              ELSE IF nextSibling(n) # Null THEN nextSibling(n)
                              ELSE up[dom.parent[n]]
    <2> HIDE DEF V
    <2> QED
      BY <1>13
  <1>15. \A n \in Nodes : up[n] = IF Here(n) THEN stop[n] ELSE up[dom.parent[n]]
    BY <1>3, <1>8, <1>14
  <1>16. \A n \in V : up[n] \in V
    <2> DEFINE T == {n \in Nodes : up[n] \notin V}
    <2>1. up[Null] = Null
      BY <1>14
    <2>2. SUFFICES ASSUME T # {} PROVE FALSE
      BY <2>1
    <2>3. PICK n \in T : \A m \in T : n <= m
      <3>1. T \subseteq Nat
        BY <1>1 DEF Tree
      <3> HIDE DEF T
      <3> QED
        BY <2>2, <3>1, Least
    <2>4. dom.parent[n] \in Nodes /\ dom.parent[n] < n
      BY <1>1, <1>5, <1>15, <2>1, <2>3 DEF Tree
    <2>5. ~ (n <= dom.parent[n])
      BY <1>1, <2>3, <2>4 DEF Tree
    <2> QED
      BY <1>5, <1>15, <2>3, <2>4, <2>5
  <1>17. DOMAIN up = V /\ up = [n \in V |-> up[n]]
    <2> HIDE DEF V
    <2> QED
      BY <1>13
  <1>18. up \in [V -> V]
    BY <1>16, <1>17
  <1> QED
    BY <1>3, <1>4, <1>14, <1>18

\* What is below a row.
LEMMA BelowIs ==
  ASSUME Dom(dom), NEW row \in Nodes
  PROVE  /\ Below(row) \subseteq Nodes
         /\ \A n \in Nodes :
              n \in Below(row) <=>
                n > row /\ \/ dom.parent[n] = row
                           \/ /\ dom.parent[n] > row /\ IsDiv(dom.parent[n])
                              /\ dom.parent[n] \in Below(row)
  <1> DEFINE Down(f) == f = [n \in Nodes |->
                           n > row /\ \/ dom.parent[n] = row
                                      \/ dom.parent[n] > row /\ IsDiv(dom.parent[n])
                                                             /\ f[dom.parent[n]]]
             inside == CHOOSE f : Down(f)
             In(n, v) == n > row /\ (dom.parent[n] = row
                           \/ (dom.parent[n] > row /\ IsDiv(dom.parent[n]) /\ v))
             next == [nv \in Nodes \X BOOLEAN |-> In(nv[1], nv[2])]
  <1>1. Tree /\ \E last \in Nat : /\ Nodes = 0 .. last
                                  /\ \A n \in 0 .. last : dom.parent[n] \in -1 .. n - 1
    BY DomIsTree
  <1>2. PICK last \in Nat : /\ Nodes = 0 .. last
                            /\ \A n \in 0 .. last : dom.parent[n] \in -1 .. n - 1
    BY <1>1
  <1>3. Below(row) = {n \in Nodes : inside[n]}
    BY DEF Below
  <1>4. \A n \in Nodes, v \in BOOLEAN : next[<<n, v>>] = In(n, v) /\ In(n, v) \in BOOLEAN
    OBVIOUS
  <1>5. next \in [Nodes \X BOOLEAN -> BOOLEAN]
    OBVIOUS
  <1> HIDE DEF next
  <1>6. UpSteps(last, dom.parent, BOOLEAN, FALSE, next)
    BY <1>2, <1>5 DEF UpSteps
  <1>7. \E f : Down(f)
    <2>1. PICK g : UpSolves(g, last, dom.parent, BOOLEAN, FALSE, next)
      BY <1>6, UpRecursion
    <2> DEFINE f == [n \in Nodes |-> g[n]]
    <2>2. \A n \in Nodes : g[n] = next[<<n, g[dom.parent[n]]>>]
      BY <1>2, <2>1 DEF UpSolves
    <2>3. \A n \in Nodes : g[dom.parent[n]] \in BOOLEAN
      <3>1. \A n \in Nodes : dom.parent[n] \in -1 .. last
        BY <1>2
      <3> QED
        BY <2>1, <3>1 DEF UpSolves
    <2>4. \A n \in Nodes : g[n] = In(n, g[dom.parent[n]])
      BY <1>4, <2>2, <2>3
    <2>5. \A n \in Nodes : dom.parent[n] > row => f[dom.parent[n]] = g[dom.parent[n]]
      <3>1. \A n \in Nodes : dom.parent[n] > row => dom.parent[n] \in Nodes
        BY <1>2
      <3> QED
        BY <3>1
    <2>6. \A n \in Nodes : f[n] = In(n, f[dom.parent[n]])
      BY <2>4, <2>5
    <2> HIDE DEF f
    <2>7. f = [n \in Nodes |-> In(n, f[dom.parent[n]])]
      BY <2>6 DEF f
    <2> QED
      BY <2>7
  <1>8. Down(inside)
    <2> HIDE DEF Down
    <2> QED
      BY <1>7
  <1> HIDE DEF inside
  <1>9. \A n \in Nodes : inside[n] = In(n, inside[dom.parent[n]])
    BY <1>8
  <1>10. \A n \in Nodes : dom.parent[n] > row => dom.parent[n] \in Nodes
    BY <1>2
  <1>11. \A n \in Nodes : dom.parent[n] > row =>
            (inside[dom.parent[n]] <=> dom.parent[n] \in Below(row))
    BY <1>3, <1>10
  <1> QED
    BY <1>3, <1>9, <1>11

\* What is below the row after element e.
After(e) == {n \in Below(parentElement) : n > e}

\* e has been dealt with, and what is below it: where the walk is to go on, at
\* s, or that it is over.
GoesOn(e, s) == /\ After(e) = {} => s = parentElement
                /\ After(e) # {} => s \in After(e) /\ \A n \in After(e) : s <= n

OnTheWay == /\ Dom(dom) /\ parentElement \in Nodes
            /\ Tree /\ Below(parentElement) \subseteq Nodes
            /\ \A n \in Nodes :
                 n \in Below(parentElement) <=>
                   n > parentElement
                   /\ \/ dom.parent[n] = parentElement
                      \/ /\ dom.parent[n] > parentElement /\ IsDiv(dom.parent[n])
                         /\ dom.parent[n] \in Below(parentElement)

LEMMA WayIs == ASSUME Dom(dom), parentElement \in Nodes PROVE OnTheWay
  BY DomIsTree, BelowIs DEF OnTheWay

\* The siblings after an element come after all it contains: if all that is
\* still below the row follows a, which contains e, then the next of it is the
\* next sibling of a, if it has the parent of a, and above that parent if not.
LEMMA NextAbove ==
  ASSUME OnTheWay, NEW e \in Below(parentElement), NEW a \in Below(parentElement),
         a <= e, \A m \in Nodes : a < m /\ m <= e => dom.parent[m] >= a,
         \A n \in After(e) : (\A m \in After(e) : n <= m) => dom.parent[n] < a
  PROVE  /\ nextSibling(a) # Null => GoesOn(e, nextSibling(a))
         /\ nextSibling(a) = Null =>
              \A n \in After(e) : (\A m \in After(e) : n <= m) =>
                                    dom.parent[n] < dom.parent[a]
  <1> DEFINE B == Below(parentElement)
             p == dom.parent[a]
             later == {s \in Children(p) : s > a}
  <1>1. /\ Nodes \subseteq Nat /\ B \subseteq Nodes /\ parentElement \in Nodes
        /\ a \in Nodes /\ e \in Nodes /\ a \in Nat /\ e \in Nat
        /\ p < a /\ p \in Nodes
    BY DEF OnTheWay, Tree
  <1>2. FirstOf(later) = nextSibling(a) /\ later \subseteq Nat
    BY ChildrenAre DEF nextSibling, OnTheWay
  <1>3. ASSUME NEW s \in later PROVE s \in After(e) /\ dom.parent[s] = p
    <2>1. s \in Nodes /\ dom.parent[s] = p /\ s > a
      BY DEF Children
    <2>2. s > e
      <3>1. ~ (a < s /\ s <= e)
        <4>1. a < s /\ s <= e => dom.parent[s] >= a
          BY <2>1
        <4>2. dom.parent[a] \in Int /\ dom.parent[a] < a
          BY Numbers DEF OnTheWay
        <4> QED
          BY <1>1, <2>1, <4>1, <4>2
      <3>2. s \in Nat
        BY <1>1, <2>1
      <3> QED
        BY <1>1, <2>1, <3>1, <3>2
    <2>3. s \in B
      BY <1>1, <2>1 DEF OnTheWay
    <2> QED
      BY <2>1, <2>2, <2>3 DEF After
  <1>4. ASSUME NEW n \in After(e), \A m \in After(e) : n <= m
        PROVE  /\ dom.parent[n] = p => n \in later
               /\ dom.parent[n] # p => dom.parent[n] < p /\ later = {}
    <2>1. n \in Nodes /\ n > e /\ n \in Nat /\ dom.parent[n] < a /\ dom.parent[n] \in Int
      <3>1. n \in Nodes /\ n > e
        BY <1>1 DEF After
      <3>2. dom.parent[n] < a
        BY <1>4
      <3> QED
        BY <3>1, <3>2, Numbers DEF OnTheWay
    <2>0. p \in Int
      BY Numbers DEF OnTheWay
    <2>2. dom.parent[n] <= p
      BY <1>1, <2>1 DEF OnTheWay, Tree
    <2>3. dom.parent[n] = p => n \in later
      BY <1>1, <2>1 DEF Children
    <2>4. ASSUME dom.parent[n] < p, NEW s \in later PROVE FALSE
      <3>1. s \in After(e) /\ dom.parent[s] = p
        BY <1>3
      <3>2. s \in Nodes /\ s \in Nat /\ n <= s
        BY <1>1, <1>4, <3>1 DEF After
      <3>3. n # s
        BY <2>0, <2>1, <2>4, <3>1
      <3>4. n < s
        BY <2>1, <3>2, <3>3
      <3>5. p < n
        BY <1>1, <2>0, <2>1
      <3>6. dom.parent[s] <= dom.parent[n]
        BY <2>1, <3>1, <3>2, <3>4, <3>5, Between DEF OnTheWay
      <3> QED
        BY <2>0, <2>1, <2>4, <3>1, <3>6
    <2>5. dom.parent[n] # p => dom.parent[n] < p
      BY <2>0, <2>1, <2>2
    <2> QED
      BY <2>3, <2>4, <2>5
  <1> HIDE DEF later
  <1>5. ASSUME nextSibling(a) # Null PROVE GoesOn(e, nextSibling(a))
    <2>1. later # {} /\ nextSibling(a) \in later /\ \A x \in later : nextSibling(a) <= x
      BY <1>2, <1>5, FirstIs
    <2>2. After(e) \subseteq Nat /\ After(e) # {}
      BY <1>1, <1>3, <2>1 DEF After
    <2>3. PICK n \in After(e) : \A m \in After(e) : n <= m
      BY <2>2, Least
    <2>4. n \in later
      BY <1>4, <2>1, <2>3
    <2>5. nextSibling(a) <= n /\ nextSibling(a) \in After(e)
      BY <1>3, <2>1, <2>4
    <2>6. nextSibling(a) = n
      BY <2>2, <2>3, <2>5
    <2> QED
      BY <2>2, <2>3, <2>6 DEF GoesOn
  <1>6. ASSUME nextSibling(a) = Null, NEW n \in After(e), \A m \in After(e) : n <= m
        PROVE  dom.parent[n] < p
    <2>1. later = {}
      BY <1>2, <1>6, FirstIs
    <2> QED
      BY <1>4, <1>6, <2>1
  <1> QED
    BY <1>5, <1>6

\* The way up ends at what comes next.
LEMMA ClimbGoesOn ==
  ASSUME OnTheWay, NEW e \in Below(parentElement), nextSibling(e) = Null,
         \A n \in After(e) : (\A m \in After(e) : n <= m) => dom.parent[n] < e
  PROVE  GoesOn(e, Climb(e))
  <1> DEFINE B == Below(parentElement)
             Above(a) == /\ a <= e
                         /\ \A m \in Nodes : a < m /\ m <= e => dom.parent[m] >= a
                         /\ \A n \in After(e) : (\A m \in After(e) : n <= m) =>
                                                  dom.parent[n] < a
  <1>1. /\ Nodes \subseteq Nat /\ B \subseteq Nodes /\ parentElement \in Nodes
        /\ \A a \in B : a > parentElement /\ a \in Nat /\ dom.parent[a] \in Nodes
                        /\ dom.parent[a] < a /\ dom.parent[a] \in Nat
    BY DEF OnTheWay, Tree
  <1>2. PICK f : /\ Climb(e) = f[dom.parent[e]]
                 /\ \A n \in Nodes :
                      f[n] = IF n = parentElement THEN n
                             ELSE IF nextSibling(n) # Null THEN nextSibling(n)
                             ELSE f[dom.parent[n]]
    BY ClimbIs DEF OnTheWay
  <1>3. Above(e)
    BY <1>1
  <1>4. ASSUME NEW a \in B, Above(a), nextSibling(a) = Null
        PROVE  \/ dom.parent[a] = parentElement /\ After(e) = {}
               \/ dom.parent[a] \in B /\ Above(dom.parent[a])
    <2> DEFINE p == dom.parent[a]
    <2>1. \A n \in After(e) : (\A m \in After(e) : n <= m) => dom.parent[n] < p
      BY <1>4, NextAbove
    <2>2. p <= e /\ e \in Nat /\ p \in Nat /\ a \in Nat /\ p < a
      BY <1>1, <1>4
    <2>3. ASSUME NEW m \in Nodes, p < m, m <= e PROVE dom.parent[m] >= p
      <3>0. m \in Nat /\ dom.parent[m] \in Int
        BY Numbers DEF OnTheWay
      <3>1. CASE m > a
        BY <1>4, <2>2, <2>3, <3>0, <3>1
      <3>2. CASE m = a
        BY <2>2, <3>2
      <3>3. CASE m < a
        <4>1. dom.parent[a] <= dom.parent[m]
          BY <1>1, <2>3, <3>3 DEF OnTheWay, Tree
        <4> QED
          BY <2>2, <3>0, <4>1
      <3> QED
        BY <2>2, <3>0, <3>1, <3>2, <3>3
    <2>4. p = parentElement \/ p \in B
      BY <1>1 DEF OnTheWay
    <2>5. ASSUME p = parentElement PROVE After(e) = {}
      <3> SUFFICES ASSUME After(e) # {} PROVE FALSE
        OBVIOUS
      <3>1. PICK n \in After(e) : \A m \in After(e) : n <= m
        <4>1. After(e) \subseteq Nat
          BY <1>1 DEF After
        <4> QED
          BY <4>1, Least
      <3>2. dom.parent[n] < parentElement
        BY <2>1, <2>5, <3>1
      <3>3. n \in B /\ n \in Nodes
        BY <1>1, <3>1 DEF After
      <3>4. dom.parent[n] = parentElement \/ dom.parent[n] > parentElement
        BY <3>3 DEF OnTheWay
      <3>5. dom.parent[n] \in Nat /\ parentElement \in Nat
        BY <1>1, <3>3
      <3> QED
        BY <3>2, <3>4, <3>5
    <2> QED
      BY <2>1, <2>2, <2>3, <2>4, <2>5
  <1> HIDE DEF Above
  <1> DEFINE T == {a \in B : Above(a) /\ nextSibling(a) = Null
                             /\ ~ GoesOn(e, f[dom.parent[a]])}
  <1>5. SUFFICES T = {}
    BY <1>2, <1>3
  <1>6. SUFFICES ASSUME T # {} PROVE FALSE
    OBVIOUS
  <1>7. PICK a \in T : \A b \in T : a <= b
    <2>1. T \subseteq Nat
      BY <1>1
    <2> HIDE DEF T
    <2> QED
      BY <1>6, <2>1, Least
  <1>8. a \in B /\ Above(a) /\ nextSibling(a) = Null /\ ~ GoesOn(e, f[dom.parent[a]])
    BY <1>7
  <1> DEFINE p == dom.parent[a]
  <1>9. CASE p = parentElement /\ After(e) = {}
    <2>1. f[p] = parentElement
      BY <1>1, <1>2, <1>9
    <2> QED
      BY <1>8, <1>9, <2>1 DEF GoesOn
  <1>10. CASE p \in B /\ Above(p)
    <2>1. p # parentElement /\ p \in Nodes /\ ~ (a <= p)
      BY <1>1, <1>8, <1>10
    <2>2. f[p] = IF nextSibling(p) # Null THEN nextSibling(p) ELSE f[dom.parent[p]]
      BY <1>2, <2>1
    <2>3. nextSibling(p) = Null \/ GoesOn(e, nextSibling(p))
      BY <1>10, NextAbove DEF Above
    <2>4. nextSibling(p) = Null /\ ~ GoesOn(e, f[dom.parent[p]])
      BY <1>8, <2>2, <2>3
    <2>5. p \in T
      BY <1>10, <2>4
    <2> QED
      BY <1>7, <2>1, <2>5
  <1> QED
    BY <1>4, <1>8, <1>9, <1>10

\* One step of the loop goes on to what comes next below the row.
LEMMA SuccessorGoesOn ==
  ASSUME OnTheWay, NEW e \in Below(parentElement)
  PROVE  GoesOn(e, Successor(e))
  <1> DEFINE B == Below(parentElement)
             First(n) == n \in After(e) /\ \A m \in After(e) : n <= m
  <1>1. /\ Nodes \subseteq Nat /\ B \subseteq Nodes /\ parentElement \in Nodes
        /\ e \in Nodes /\ e \in Nat /\ e > parentElement
    BY DEF OnTheWay, Tree
  <1>0. \A n \in Nodes : /\ n \in Nat /\ dom.parent[n] \in Int /\ dom.parent[n] < n
                         /\ dom.parent[n] # Null => dom.parent[n] \in Nodes
    BY Numbers DEF OnTheWay
  <1>2. ASSUME NEW n, First(n)
        PROVE  /\ n \in Nodes /\ n > e /\ dom.parent[n] \in Nodes
               /\ dom.parent[n] <= e
               /\ dom.parent[n] = e => IsDiv(e)
    <2>1. n \in B /\ n \in Nodes /\ n > e
      BY <1>1, <1>2 DEF After
    <2>2. \/ dom.parent[n] = parentElement
          \/ dom.parent[n] > parentElement /\ IsDiv(dom.parent[n]) /\ dom.parent[n] \in B
      BY <2>1 DEF OnTheWay
    <2>3. dom.parent[n] \in B => ~ (dom.parent[n] > e)
      <3> SUFFICES ASSUME dom.parent[n] \in B, dom.parent[n] > e PROVE FALSE
        OBVIOUS
      <3>1. dom.parent[n] \in After(e) /\ dom.parent[n] < n
        <4>1. dom.parent[n] \in After(e)
          BY DEF After
        <4> QED
          BY <1>0, <2>1, <4>1
      <3>2. n <= dom.parent[n]
        BY <1>2, <3>1
      <3> QED
        BY <1>0, <2>1, <3>1, <3>2
    <2>4. dom.parent[n] \in Nodes /\ dom.parent[n] \in Int /\ e \in Int
      BY <1>0, <1>1, <2>1, <2>2
    <2>5. dom.parent[n] <= e
      <3>1. dom.parent[n] = parentElement => dom.parent[n] <= e
        BY <1>1, <2>4
      <3>2. dom.parent[n] \in B => dom.parent[n] <= e
        BY <2>3, <2>4
      <3> QED
        BY <2>2, <3>1, <3>2
    <2>6. dom.parent[n] # parentElement => IsDiv(dom.parent[n])
      BY <2>2
    <2>7. e # parentElement
      BY <1>1
    <2> QED
      BY <2>1, <2>4, <2>5, <2>6, <2>7
  <1>3. After(e) \subseteq Nat
    BY <1>1 DEF After
  <1> DEFINE c == firstChild(e)
  <1>4. CASE IsDiv(e) /\ c # Null
    <2>1. c \in Children(e) /\ \A x \in Children(e) : c <= x
      BY <1>1, <1>4, ChildrenAre, FirstIs DEF OnTheWay, firstChild
    <2> HIDE DEF c
    <2>2. c \in Nodes /\ dom.parent[c] = e /\ c \in Nat /\ c > e
      <3>1. c \in Nodes /\ dom.parent[c] = e
        BY <2>1 DEF Children
      <3> QED
        BY <1>0, <1>1, <3>1
    <2>3. c \in After(e)
      <3>1. c > parentElement
        BY <1>1, <2>2
      <3>2. c \in B
        BY <1>1, <1>4, <2>2, <3>1 DEF OnTheWay
      <3> QED
        BY <2>2, <3>2 DEF After
    <2>4. PICK n \in After(e) : \A m \in After(e) : n <= m
      BY <1>3, <2>3, Least
    <2>5. n \in Nodes /\ n > e /\ dom.parent[n] <= e /\ n <= c /\ n \in Nat
      BY <1>1, <1>2, <2>3, <2>4
    <2>6. dom.parent[n] = e
      <3>0. dom.parent[n] \in Int
        BY <1>0, <2>5
      <3> SUFFICES ASSUME n # c PROVE dom.parent[n] >= e
        <4>1. n # c => dom.parent[n] = e
          BY <1>1, <2>5, <3>0
        <4> QED
          BY <2>2, <4>1
      <3>1. n < c
        BY <2>2, <2>5
      <3> QED
        BY <1>0, <1>1, <2>2, <2>5, <3>1, Between DEF OnTheWay
    <2>7. n = c
      <3>1. n \in Children(e)
        BY <2>5, <2>6 DEF Children
      <3> QED
        BY <2>1, <2>2, <2>5, <3>1
    <2>8. Successor(e) = c
      BY <1>4 DEF Successor, c
    <2> QED
      BY <2>4, <2>7, <2>8 DEF GoesOn
  <1>5. CASE ~ (IsDiv(e) /\ c # Null)
    <2>1. ASSUME NEW n \in After(e), \A m \in After(e) : n <= m
          PROVE  dom.parent[n] < e
      <3>1. n \in Nodes /\ dom.parent[n] <= e /\ (dom.parent[n] = e => IsDiv(e))
        BY <1>2, <2>1
      <3>2. dom.parent[n] = e => Children(e) # {}
        BY <3>1 DEF Children
      <3>3. c = Null => Children(e) = {}
        BY ChildrenAre, FirstIs DEF OnTheWay, firstChild
      <3>4. dom.parent[n] # e
        BY <1>5, <3>1, <3>2, <3>3
      <3>5. dom.parent[n] \in Int
        BY <1>0, <3>1
      <3> QED
        BY <1>1, <3>1, <3>4, <3>5
    <2>2. \A m \in Nodes : ~ (e < m /\ m <= e)
      BY <1>1
    <2>3. e <= e
      BY <1>1
    <2>4. CASE nextSibling(e) # Null
      <3>1. Successor(e) = nextSibling(e)
        BY <1>5, <2>4 DEF Successor
      <3> QED
        BY <2>1, <2>2, <2>3, <2>4, <3>1, NextAbove
    <2>5. CASE nextSibling(e) = Null
      <3>1. Successor(e) = Climb(e)
        BY <1>5, <2>5 DEF Successor
      <3> QED
        BY <2>1, <2>5, <3>1, ClimbGoesOn
    <2> QED
      BY <2>4, <2>5
  <1> QED
    BY <1>4, <1>5

(***************************************************************************)
(* Opening and closing the indexes below a row.                            *)
(***************************************************************************)
Shown == {"", "block", "none"}

\* What the walk has turned over so far.
Turned == {n \in Below(parentElement) :
             dom.kind[n] = "ISubIndex" /\ (Walking => n < element)}

\* A walk is below its row, and has turned over what it has passed, once, and
\* nothing else.
RowsInv ==
  /\ Dom(dom)
  /\ display \in [Nodes -> Shown]
  /\ parentElement \in Rows \cup {Null} /\ element \in Nodes \cup {Null}
  /\ parentElement = Null => element = Null
  /\ parentElement # Null =>
       /\ Walking => element \in Below(parentElement)
       /\ \A n \in Nodes :
            display[n] = IF n \in Turned THEN Flipped(before[n]) ELSE before[n]

\* A row's first child is the first element below it.
LEMMA FirstBelow ==
  ASSUME Dom(dom), NEW row \in Nodes
  PROVE  /\ firstChild(row) = Null => Below(row) = {}
         /\ firstChild(row) # Null =>
              /\ firstChild(row) \in Below(row)
              /\ \A n \in Below(row) : firstChild(row) <= n
  <1> DEFINE B == Below(row)
  <1>1. Tree /\ Nodes \subseteq Nat
    BY DomIsTree DEF Tree
  <1>2. /\ B \subseteq Nodes
        /\ \A n \in Nodes :
             n \in B <=> n > row /\ \/ dom.parent[n] = row
                                    \/ /\ dom.parent[n] > row /\ IsDiv(dom.parent[n])
                                       /\ dom.parent[n] \in B
    BY BelowIs
  <1>3. /\ firstChild(row) = Null <=> Children(row) = {}
        /\ firstChild(row) # Null =>
             /\ firstChild(row) \in Children(row)
             /\ \A c \in Children(row) : firstChild(row) <= c
    BY <1>1, ChildrenAre, FirstIs DEF firstChild
  <1>4. \A c \in Children(row) : c \in B
    <2>1. ASSUME NEW c \in Children(row) PROVE c \in B
      <3>1. c \in Nodes /\ dom.parent[c] = row
        BY DEF Children
      <3>2. c > row
        <4>1. row < c /\ row \in Nat /\ c \in Nat
          BY <1>1, <3>1, Numbers
        <4> QED
          BY <4>1
      <3> QED
        BY <1>2, <3>1, <3>2
    <2> QED
      BY <2>1
  <1>5. ASSUME B # {}
        PROVE  \E n \in B : n \in Children(row) /\ \A m \in B : n <= m
    <2>1. B \subseteq Nat
      BY <1>1, <1>2
    <2>2. PICK n \in B : \A m \in B : n <= m
      BY <1>5, <2>1, Least
    <2>3. n \in Nodes /\ n \in Nat /\ dom.parent[n] \in Int /\ dom.parent[n] < n
      BY <1>1, <1>2, Numbers
    <2>4. ~ (n <= dom.parent[n])
      BY <2>3
    <2>5. dom.parent[n] = row
      BY <1>2, <2>2, <2>3, <2>4
    <2> QED
      BY <2>2, <2>3, <2>5 DEF Children
  <1> HIDE DEF B
  <1>6. firstChild(row) = Null => B = {}
    BY <1>3, <1>5
  <1>7. ASSUME firstChild(row) # Null
        PROVE  firstChild(row) \in B /\ \A n \in B : firstChild(row) <= n
    <2>1. firstChild(row) \in B /\ firstChild(row) \in Nat
      BY <1>1, <1>2, <1>3, <1>4, <1>7
    <2>2. PICK n \in B : n \in Children(row) /\ \A m \in B : n <= m
      BY <1>5, <2>1
    <2>3. firstChild(row) <= n /\ n <= firstChild(row) /\ n \in Nat
      BY <1>1, <1>2, <1>3, <1>7, <2>1, <2>2
    <2>4. firstChild(row) = n
      BY <2>1, <2>3
    <2> QED
      BY <2>1, <2>2, <2>4
  <1> QED
    BY <1>6, <1>7 DEF B

\* The page does not change while it is shown.
Inside(page, row) ==
  LET inside[n \in DOMAIN page.parent] ==
        n > row /\ \/ page.parent[n] = row
                   \/ page.parent[n] > row /\ page.kind[page.parent[n]] # "link"
                                           /\ inside[page.parent[n]]
  IN  {n \in DOMAIN page.parent : inside[n]}

LEMMA PageStays ==
  ASSUME dom' = dom
  PROVE  /\ Dom(dom)' <=> Dom(dom)
         /\ Nodes' = Nodes /\ Rows' = Rows
         /\ parentElement' = parentElement =>
              Below(parentElement)' = Below(parentElement)
  <1>1. Below(parentElement) = Inside(dom, parentElement)
    BY DEF Below, Inside, Nodes, IsDiv
  <1>2. Below(parentElement)' = Inside(dom', parentElement')
    BY DEF Below, Inside, Nodes, IsDiv
  <1>3. parentElement' = parentElement =>
          Below(parentElement)' = Below(parentElement)
    BY <1>1, <1>2
  <1> QED
    BY <1>3 DEF Dom, Nodes, Rows

LEMMA ToggleTurns == ASSUME RowsInv, NEW row \in Rows, Toggle(row) PROVE RowsInv'
  <1>1. /\ parentElement' = row /\ element' = firstChild(row)
        /\ before' = display /\ dom' = dom /\ display' = display
    BY DEF Toggle
  <1>2. /\ Dom(dom)' /\ Nodes' = Nodes /\ Rows' = Rows /\ row \in Nodes
        /\ row # Null
    <2>1. Tree
      BY DomIsTree DEF RowsInv
    <2> QED
      BY <1>1, <2>1, PageStays DEF RowsInv, Rows, Tree, Null
  <1>3. Below(parentElement)' = Below(row)
    <2>1. Below(row) = Inside(dom, row)
      BY DEF Below, Inside, Nodes, IsDiv
    <2>2. Below(parentElement)' = Inside(dom', parentElement')
      BY DEF Below, Inside, Nodes, IsDiv
    <2> QED
      BY <1>1, <2>1, <2>2
  <1>4. /\ Below(row) \subseteq Nodes
        /\ firstChild(row) = Null => Below(row) = {}
        /\ firstChild(row) # Null =>
             /\ firstChild(row) \in Below(row)
             /\ \A n \in Below(row) : firstChild(row) <= n
    BY <1>2, FirstBelow, BelowIs DEF RowsInv
  <1>5. firstChild(row) # Null => Walking'
    <2>1. ASSUME firstChild(row) # Null PROVE firstChild(row) # row
      <3>1. firstChild(row) > row
        BY <1>2, <1>4, <2>1, BelowIs DEF RowsInv
      <3>2. row \in Nat
        BY <1>2, DomIsTree DEF RowsInv, Tree
      <3> QED
        BY <3>1, <3>2
    <2> QED
      BY <1>1, <2>1 DEF Walking
  <1>6. Turned' = {}
    <2>1. ASSUME NEW n \in Below(row), firstChild(row) # Null
          PROVE  ~ (n < firstChild(row))
      <3>1. n \in Nat /\ firstChild(row) \in Nat /\ firstChild(row) <= n
        BY <1>4, <2>1, DomIsTree DEF RowsInv, Tree
      <3> QED
        BY <3>1
    <2>2. CASE firstChild(row) = Null
      BY <1>3, <1>4, <2>2 DEF Turned
    <2>3. CASE firstChild(row) # Null
      BY <1>1, <1>3, <1>5, <2>1, <2>3 DEF Turned
    <2> QED
      BY <2>2, <2>3
  <1>7. display' \in [Nodes' -> Shown]
    BY <1>1, <1>2 DEF RowsInv
  <1>8. element' \in Nodes' \cup {Null}
    BY <1>1, <1>2, <1>4
  <1>9. Walking' => element' \in Below(parentElement)'
    BY <1>1, <1>3, <1>4 DEF Walking
  <1> QED
    BY <1>1, <1>2, <1>6, <1>7, <1>8, <1>9 DEF RowsInv

LEMMA LoopTurns == ASSUME RowsInv, ToggleLoop PROVE RowsInv'
  <1> DEFINE B == Below(parentElement)
             next == Successor(element)
  <1>1. /\ Walking /\ element' = next /\ before' = before
        /\ parentElement' = parentElement /\ dom' = dom
        /\ display' = IF dom.kind[element] = "ISubIndex"
                      THEN [display EXCEPT ![element] = Flipped(@)] ELSE display
    BY DEF ToggleLoop
  <1>2. /\ Dom(dom)' /\ Nodes' = Nodes /\ Rows' = Rows
        /\ Below(parentElement)' = B
    BY <1>1, PageStays DEF RowsInv
  <1>3. parentElement \in Rows /\ parentElement \in Nodes /\ parentElement # Null
    <2>1. parentElement # Null
      BY <1>1 DEF RowsInv, Walking
    <2> QED
      BY <2>1 DEF RowsInv, Rows
  <1>4. element \in B /\ B \subseteq Nodes /\ Nodes \subseteq Nat
    BY <1>1, <1>3, BelowIs, DomIsTree DEF RowsInv, Tree
  <1>5. GoesOn(element, next)
    BY <1>3, <1>4, WayIs, SuccessorGoesOn DEF RowsInv
  <1>6. next = parentElement \/ next \in B
    BY <1>5 DEF GoesOn, After
  <1>7. ASSUME NEW n \in B
        PROVE  (Walking' => n < next) <=> n < element \/ n = element
    <2>1. n \in Nat /\ element \in Nat
      BY <1>4
    <2>2. CASE After(element) = {}
      <3>1. ~ Walking' /\ ~ (n > element)
        BY <1>1, <1>5, <2>2 DEF GoesOn, Walking, After
      <3> QED
        BY <2>1, <3>1
    <2>3. CASE After(element) # {}
      <3>1. next \in B /\ next > element /\ \A m \in After(element) : next <= m
        BY <1>5, <2>3 DEF GoesOn, After
      <3>2. next \in Nat
        BY <1>4, <3>1
      <3>3. Walking'
        <4>1. next > parentElement /\ parentElement \in Nat
          BY <1>3, <1>4, <3>1, BelowIs DEF RowsInv
        <4>2. next # parentElement /\ next # Null
          BY <3>2, <4>1 DEF Null
        <4> QED
          BY <1>1, <4>2 DEF Walking
      <3>4. n > element => next <= n
        BY <3>1 DEF After
      <3>5. n < next <=> n < element \/ n = element
        BY <2>1, <3>1, <3>2, <3>4
      <3> QED
        BY <3>3, <3>5
    <2> QED
      BY <2>2, <2>3
  <1>8. \A n : n \in Turned' <=> n \in B /\ dom.kind[n] = "ISubIndex"
                                 /\ (n < element \/ n = element)
    BY <1>1, <1>2, <1>7 DEF Turned
  <1>9. \A n : n \in Turned <=> n \in B /\ dom.kind[n] = "ISubIndex" /\ n < element
    BY <1>1 DEF Turned
  <1>10. display \in [Nodes -> Shown] /\ element \in Nodes /\ ~ (element < element)
    BY <1>4 DEF RowsInv
  <1>11. \A n \in Nodes :
           display[n] = IF n \in Turned THEN Flipped(before[n]) ELSE before[n]
    BY <1>3 DEF RowsInv
  <1>12. ASSUME NEW n \in Nodes
         PROVE  display'[n] = IF n \in Turned' THEN Flipped(before[n]) ELSE before[n]
    <2>1. CASE n = element
      <3>1. n \notin Turned /\ (n \in Turned' <=> dom.kind[n] = "ISubIndex")
        BY <1>4, <1>8, <1>9, <1>10, <2>1
      <3>2. display[n] = before[n]
        BY <1>11, <3>1
      <3>3. display'[n] = IF dom.kind[n] = "ISubIndex" THEN Flipped(display[n])
                          ELSE display[n]
        BY <1>1, <1>10, <2>1
      <3> QED
        BY <3>1, <3>2, <3>3
    <2>2. CASE n # element
      <3>1. n \in Turned' <=> n \in Turned
        BY <1>8, <1>9, <2>2
      <3>2. display'[n] = display[n]
        BY <1>1, <1>10, <2>2
      <3> QED
        BY <1>11, <3>1, <3>2
    <2> QED
      BY <2>1, <2>2
  <1>13. display' \in [Nodes -> Shown]
    <2>1. \A d : Flipped(d) \in Shown
      BY DEF Flipped, Shown
    <2> QED
      BY <1>1, <1>10, <2>1
  <1>14. Walking' => next \in B
    BY <1>1, <1>6 DEF Walking
  <1>15. next \in Nodes \cup {Null}
    BY <1>3, <1>4, <1>6
  <1> HIDE DEF B, next
  <1> QED
    BY <1>1, <1>2, <1>3, <1>12, <1>13, <1>14, <1>15 DEF RowsInv

LEMMA SearchTurns ==
  ASSUME RowsInv, NEW text, ResultsSearch(text) PROVE RowsInv'
  <1>1. dom' = dom /\ element' = Null /\ parentElement' = Null
    BY DEF ResultsSearch
  <1>2. display' \in [Nodes -> Shown]
    <2>1. \E M : display' = [n \in Nodes |-> IF n \notin Rows THEN display[n]
                                             ELSE IF n \in M THEN "block" ELSE "none"]
      BY DEF ResultsSearch
    <2> QED
      BY <2>1 DEF RowsInv, Shown
  <1>3. Dom(dom)' /\ Nodes' = Nodes
    BY <1>1, PageStays DEF RowsInv
  <1> QED
    BY <1>1, <1>2, <1>3 DEF RowsInv

LEMMA ResultsSteps == [Next]_vars => ResultsNext \/ UNCHANGED srVars
  BY DEF Next, vars, Menu, SearchField, Documentation, Results

LEMMA RowsInvStep == RowsInv /\ [Next]_vars => RowsInv'
  <1> SUFFICES ASSUME RowsInv, ResultsNext \/ UNCHANGED srVars PROVE RowsInv'
    BY ResultsSteps
  <1>1. CASE UNCHANGED srVars
    <2>1. Turned' = Turned
      BY <1>1, PageStays DEF srVars, Turned, Walking
    <2> QED
      BY <1>1, <2>1, PageStays DEF srVars, RowsInv, Walking
  <1> QED
    BY <1>1, ToggleTurns, LoopTurns, SearchTurns DEF ResultsNext

LEMMA RowsInvStarts == Init => RowsInv
  <1> SUFFICES ASSUME Init PROVE RowsInv
    OBVIOUS
  <1>1. /\ Dom(dom) /\ display = [n \in Nodes |-> ""]
        /\ element = Null /\ parentElement = Null
    <2>1. CASE part = "results"
      BY <2>1, PagesAssumption DEF Init, Loaded, ResultsInit, Nodes
    <2>2. CASE part # "results"
      <3>1. /\ dom = [parent |-> [n \in {0} |-> Null], kind |-> [n \in {0} |-> "div"],
                      name |-> [n \in {0} |-> << >>]]
            /\ display = [n \in {0} |-> ""] /\ element = Null
            /\ parentElement = Null
        BY <2>2 DEF Init, Idle
      <3>2. Nodes = {0} /\ dom.parent[0] = Null /\ dom.kind = [n \in {0} |-> "div"]
        BY <3>1 DEF Nodes
      <3>3. IsFiniteSet({0}) /\ Cardinality({0}) = 1
        BY FS_Singleton
      <3>4. {0} = 0 .. Cardinality({0}) - 1
        BY <3>3
      <3>5. \A m, n \in {0} : ~ (dom.parent[n] < m /\ m < n)
        OBVIOUS
      <3>6. Dom(dom)
        BY <3>2, <3>3, <3>4, <3>5 DEF Dom, Nodes, Kinds
      <3> QED
        BY <3>1, <3>2, <3>6
    <2> QED
      BY <2>1, <2>2
  <1> QED
    BY <1>1 DEF RowsInv, Shown

\* However the elements of a page are nested, Toggle turns over each index
\* below the row it was called for, once, and nothing in other rows.
THEOREM TogglesCorrect == Spec => []TogglesItsRow
  <1>1. RowsInv => TogglesItsRow
    BY DEF RowsInv, TogglesItsRow, Turned, Rows
  <1> QED
    BY <1>1, RowsInvStarts, RowsInvStep, PTL DEF Spec

(***************************************************************************)
(* The encoding of names and texts.                                        *)
(***************************************************************************)
CodedSymbols == {Codes[i][1] : i \in DOMAIN Codes}
Words == {Codes[i][2] : i \in DOMAIN Codes}
Underscore == "_"
Blank == " "
Other == "zzz"
Known == Alphabet \cup {Underscore} \cup Words
Coded == Alphabet \cup CodedSymbols

\* Six symbols that SMT solvers do not know as strings are parameters here.
Plain == Alphabet \cup
         {"~", "!", "@", "#", "$", "%", "^", "&", "*", "(", ")", "-", "+", "=", "[", "]",
          ":", "quote", "apostrophe", "<", ">", ".", "?", "/", "backquote",
          "und", "spc", "til", "exc", "att", "num", "dol", "pct", "car", "amp", "ast",
          "lpa", "rpa", "min", "plu", "equ", "lbc", "rbc", "lbk", "rbk", "col", "sco",
          "quo", "apo", "lan", "ran", "com", "per", "que", "sla", "tik", "zzz"}

Table(u, s, l, r, p, c) ==
  << <<u, "und">>, <<s, "spc">>, <<"~", "til">>, <<"!", "exc">>, <<"@", "att">>,
     <<"#", "num">>, <<"$", "dol">>, <<"%", "pct">>, <<"^", "car">>, <<"&", "amp">>,
     <<"*", "ast">>, <<"(", "lpa">>, <<")", "rpa">>, <<"-", "min">>, <<"+", "plu">>,
     <<"=", "equ">>, <<l, "lbc">>, <<r, "rbc">>, <<"[", "lbk">>, <<"]", "rbk">>,
     <<":", "col">>, <<p, "sco">>, <<"quote", "quo">>, <<"apostrophe", "apo">>,
     <<"<", "lan">>, <<">", "ran">>, <<c, "com">>, <<".", "per">>, <<"?", "que">>,
     <<"/", "sla">>, <<"backquote", "tik">> >>

Apart(C, i, j) == /\ C[i][1] # C[j][2]
                  /\ i # j => C[i][1] # C[j][1] /\ C[i][2] # C[j][2]

LEMMA CodesTable == Codes = Table("_", " ", "{", "}", ";", ",")
  BY Zenon DEF Codes, Table

LEMMA TableDiffers ==
  ASSUME NEW u, NEW s, NEW l, NEW r, NEW p, NEW c,
         u \notin Plain, s \notin Plain, l \notin Plain, r \notin Plain,
         p \notin Plain, c \notin Plain, u # s, u # l, u # r, u # p, u # c,
         s # l, s # r, s # p, s # c, l # r, l # p, l # c, r # p, r # c, p # c,
         NEW C, C = Table(u, s, l, r, p, c), NEW i \in 1 .. 31
  PROVE  /\ C[i][1] \notin Alphabet
         /\ C[i][2] \notin Alphabet
         /\ C[i][2] # "zzz" /\ C[i][1] # "zzz"
         /\ C[i][1] = u <=> i = 1
         /\ C[i][1] = s <=> i = 2
         /\ C[i] = <<C[i][1], C[i][2]>>
         /\ C[i][2] # u
  BY SMTT(60) DEF Table, Plain, Alphabet

LEMMA TableWords ==
  ASSUME NEW u, NEW s, NEW l, NEW r, NEW p, NEW c,
         u \notin Plain, s \notin Plain, l \notin Plain, r \notin Plain,
         p \notin Plain, c \notin Plain, u # s, u # l, u # r, u # p, u # c,
         s # l, s # r, s # p, s # c, l # r, l # p, l # c, r # p, r # c, p # c,
         NEW C, C = Table(u, s, l, r, p, c), NEW i \in 1 .. 31, NEW j \in 1 .. 31
  PROVE  Apart(C, i, j)
  BY SMTT(60) DEF Table, Plain, Alphabet, Apart

LEMMA Specials == /\ "_" \notin Plain /\ " " \notin Plain /\ "{" \notin Plain
                  /\ "}" \notin Plain /\ ";" \notin Plain /\ "," \notin Plain
  BY Zenon DEF Plain, Alphabet

LEMMA CodesFacts ==
  /\ DOMAIN Codes = 1 .. 31 /\ Len(Codes) = 31
  /\ \A i \in 1 .. 31 :
       /\ Codes[i][1] \notin Alphabet /\ Codes[i][2] \notin Alphabet
       /\ Codes[i][2] # Other /\ Codes[i][1] # Other /\ Codes[i][2] # Underscore
       /\ Codes[i][1] = Underscore <=> i = 1
       /\ Codes[i][1] = Blank <=> i = 2
       /\ Codes[i] = <<Codes[i][1], Codes[i][2]>>
  /\ \A i, j \in 1 .. 31 :
       /\ Codes[i][1] # Codes[j][2]
       /\ i # j => Codes[i][1] # Codes[j][1] /\ Codes[i][2] # Codes[j][2]
  <1>1. DOMAIN Codes = 1 .. 31 /\ Len(Codes) = 31
    BY DEF Codes
  <1> DEFINE l == "{"
             r == "}"
             p == ";"
             c == ","
             u == Underscore
             s == Blank
  <1>2. /\ u # s /\ u # l /\ u # r /\ u # p /\ u # c /\ s # l
        /\ s # r /\ s # p /\ s # c /\ l # r /\ l # p /\ l # c
        /\ r # p /\ r # c /\ p # c
    BY Zenon DEF Underscore, Blank
  <1>3. /\ u \notin Plain /\ s \notin Plain /\ l \notin Plain
        /\ r \notin Plain /\ p \notin Plain /\ c \notin Plain
    BY Specials, Zenon DEF Underscore, Blank
  <1>4. Codes = Table(u, s, l, r, p, c)
    BY CodesTable, Zenon DEF Underscore, Blank
  <1> HIDE DEF l, r, p, c, u, s
  <1>5. \A i \in 1 .. 31 :
          /\ Codes[i][1] \notin Alphabet /\ Codes[i][2] \notin Alphabet
          /\ Codes[i][2] # "zzz" /\ Codes[i][1] # "zzz" /\ Codes[i][2] # u
          /\ Codes[i][1] = u <=> i = 1
          /\ Codes[i][1] = s <=> i = 2
          /\ Codes[i] = <<Codes[i][1], Codes[i][2]>>
    BY <1>2, <1>3, <1>4, TableDiffers
  <1>6. ASSUME NEW i \in 1 .. 31, NEW j \in 1 .. 31
        PROVE  Apart(Codes, i, j)
    BY <1>2, <1>3, <1>4, TableWords
  <1> QED
    BY <1>1, <1>5, <1>6, Zenon DEF Other, u, s, Apart

Elem == STRING \cup Coded \cup Known \cup {Other}

LEMMA ElemFacts ==
  /\ Underscore \in Elem /\ Other \in Elem
  /\ \A i \in 1 .. 31 : Codes[i][1] \in Elem /\ Codes[i][2] \in Elem
  BY CodesFacts DEF Elem, Coded, Known, CodedSymbols, Words

EndsBlank(t) == Len(t) > 0 /\ t[Len(t)] = Blank

(***************************************************************************)
(* One replacement.                                                        *)
(***************************************************************************)
ReplacedPiece(t, i, s, w) ==
  CASE t[i] # s -> <<t[i]>>
    [] t[i] = s -> IF s = Blank /\ i > 1 /\ t[i - 1] = Blank THEN << >>
                   ELSE <<Underscore, w>>

\* What the replacement of s by w makes of symbol x after text t.
Becomes(t, x, s, w) ==
  IF x # s THEN <<x>> ELSE IF s = Blank /\ EndsBlank(t) THEN << >> ELSE <<Underscore, w>>

LEMMA ReplacedIs ==
  ASSUME NEW t, NEW s, NEW w
  PROVE  Replaced(t, s, w) = FlattenSeq([i \in 1 .. Len(t) |-> ReplacedPiece(t, i, s, w)])
  BY Zenon DEF Replaced, ReplacedPiece, Blank, Underscore

LEMMA ReplacedAppend ==
  ASSUME NEW t \in Seq(Elem), NEW x \in Elem, NEW s, NEW w \in Elem
  PROVE  /\ Replaced(t, s, w) \in Seq(Elem)
         /\ Becomes(t, x, s, w) \in Seq(Elem)
         /\ Replaced(Append(t, x), s, w) = Replaced(t, s, w) \o Becomes(t, x, s, w)
  <1> DEFINE n == Len(t)
             u == Append(t, x)
             g == [i \in 1 .. n |-> ReplacedPiece(t, i, s, w)]
             h == [i \in 1 .. n + 1 |-> ReplacedPiece(u, i, s, w)]
  <1>1. /\ n \in Nat /\ Len(u) = n + 1 /\ u[n + 1] = x
        /\ \A i \in 1 .. n : u[i] = t[i] /\ t[i] \in Elem
    OBVIOUS
  <1>2. \A v, i : ReplacedPiece(v, i, s, w) =
           IF v[i] # s THEN <<v[i]>>
           ELSE IF s = Blank /\ i > 1 /\ v[i - 1] = Blank THEN << >> ELSE <<Underscore, w>>
    BY Zenon DEF ReplacedPiece
  <1>3. << >> \in Seq(Elem) /\ \A a, b \in Elem : <<a>> \in Seq(Elem) /\ <<a, b>> \in Seq(Elem)
    BY EmptySeq
  <1> HIDE DEF u, n
  <1>4. /\ n + 1 \in 1 .. n + 1 /\ (n + 1) - 1 = n /\ (n + 1 > 1 <=> n > 0)
        /\ \A i \in 1 .. n : /\ i \in 1 .. n + 1 /\ i # n + 1
                             /\ i > 1 => i - 1 \in 1 .. n
        /\ \A i \in 1 .. n + 1 : i # n + 1 => i \in 1 .. n
        /\ n > 0 => n \in 1 .. n
    BY <1>1
  <1>5. \A i \in 1 .. n + 1 : u[i] \in Elem
    BY <1>1, <1>4
  <1>6. \A i \in 1 .. n : h[i] = g[i]
    <2>1. ASSUME NEW i \in 1 .. n PROVE ReplacedPiece(u, i, s, w) = ReplacedPiece(t, i, s, w)
      BY <1>1, <1>2, <1>4
    <2> QED
      BY <1>4, <2>1
  <1>7. \A i \in 1 .. n + 1 : h[i] \in Seq(Elem)
    <2>1. ASSUME NEW i \in 1 .. n + 1 PROVE ReplacedPiece(u, i, s, w) \in Seq(Elem)
      BY <1>2, <1>3, <1>5, ElemFacts
    <2> QED
      BY <2>1
  <1>8. h[n + 1] = Becomes(t, x, s, w)
    <2>1. ReplacedPiece(u, n + 1, s, w) = Becomes(t, x, s, w)
      <3>1. n > 0 => u[n] = t[n]
        BY <1>1, <1>4
      <3>2. EndsBlank(t) <=> n > 0 /\ t[n] = Blank
        BY DEF EndsBlank, n
      <3> QED
        BY <1>1, <1>2, <1>4, <3>1, <3>2 DEF Becomes
    <2> QED
      BY <1>4, <2>1
  <1>9. g = [i \in 1 .. n |-> g[i]] /\ h = [i \in 1 .. n + 1 |-> h[i]]
    OBVIOUS
  <1>10. /\ Replaced(t, s, w) = FlattenSeq(g) /\ Replaced(u, s, w) = FlattenSeq(h)
    <2>1. Replaced(t, s, w) = FlattenSeq(g)
      BY ReplacedIs DEF n
    <2>2. Replaced(u, s, w) = FlattenSeq([i \in 1 .. Len(u) |-> ReplacedPiece(u, i, s, w)])
      BY ReplacedIs
    <2> QED
      BY <1>1, <2>1, <2>2
  <1> HIDE DEF g, h
  <1>11. FlattenSeq(g) \in Seq(Elem) /\ FlattenSeq(h) \in Seq(Elem)
         /\ FlattenSeq(h) = FlattenSeq(g) \o h[n + 1]
    <2>1. OneMore(g, h, n, Elem)
      BY <1>6, <1>7, <1>9 DEF OneMore
    <2> QED
      BY <1>1, <2>1, FlattenGrows
  <1> QED
    BY <1>4, <1>7, <1>8, <1>10, <1>11 DEF u

LEMMA ReplacedNone == ASSUME NEW s, NEW w PROVE Replaced(<< >>, s, w) = << >>
  <1>1. [i \in 1 .. Len(<< >>) |-> ReplacedPiece(<< >>, i, s, w)] = << >>
    OBVIOUS
  <1> QED
    BY <1>1, ReplacedIs, FlattenNone

(***************************************************************************)
(* Runs of spaces put together, and the id of a row.                       *)
(***************************************************************************)
SpacedPiece(t, i) ==
  IF i > 1 /\ t[i] = Blank /\ t[i - 1] = Blank THEN << >> ELSE <<t[i]>>

Joined(t) == FlattenSeq([i \in 1 .. Len(t) |-> SpacedPiece(t, i)])

LEMMA SpacedIs == ASSUME NEW text PROVE Spaced(text) = Joined(Trimmed(text))
  BY Zenon DEF Spaced, Joined, SpacedPiece, Blank

LEMMA JoinedAppend ==
  ASSUME NEW E, NEW t \in Seq(E), NEW x \in E
  PROVE  /\ Joined(t) \in Seq(E)
         /\ Joined(Append(t, x)) =
              Joined(t) \o (IF x = Blank /\ EndsBlank(t) THEN << >> ELSE <<x>>)
  <1> DEFINE n == Len(t)
             u == Append(t, x)
             g == [i \in 1 .. n |-> SpacedPiece(t, i)]
             h == [i \in 1 .. n + 1 |-> SpacedPiece(u, i)]
  <1>1. /\ n \in Nat /\ Len(u) = n + 1 /\ u[n + 1] = x
        /\ \A i \in 1 .. n : u[i] = t[i] /\ t[i] \in E
    OBVIOUS
  <1>2. << >> \in Seq(E) /\ \A a \in E : <<a>> \in Seq(E)
    BY EmptySeq
  <1> HIDE DEF u, n
  <1>4. /\ n + 1 \in 1 .. n + 1 /\ (n + 1) - 1 = n /\ (n + 1 > 1 <=> n > 0)
        /\ \A i \in 1 .. n : /\ i \in 1 .. n + 1 /\ i # n + 1
                             /\ i > 1 => i - 1 \in 1 .. n
        /\ \A i \in 1 .. n + 1 : i # n + 1 => i \in 1 .. n
        /\ n > 0 => n \in 1 .. n
    BY <1>1
  <1>5. \A i \in 1 .. n + 1 : u[i] \in E
    BY <1>1, <1>4
  <1>6. \A i \in 1 .. n : h[i] = g[i]
    <2>1. ASSUME NEW i \in 1 .. n PROVE SpacedPiece(u, i) = SpacedPiece(t, i)
      BY <1>1, <1>4 DEF SpacedPiece
    <2> QED
      BY <1>4, <2>1
  <1>7. \A i \in 1 .. n + 1 : h[i] \in Seq(E)
    <2>1. ASSUME NEW i \in 1 .. n + 1 PROVE SpacedPiece(u, i) \in Seq(E)
      BY <1>2, <1>5 DEF SpacedPiece
    <2> QED
      BY <2>1
  <1>8. h[n + 1] = IF x = Blank /\ EndsBlank(t) THEN << >> ELSE <<x>>
    <2>1. SpacedPiece(u, n + 1) = IF x = Blank /\ EndsBlank(t) THEN << >> ELSE <<x>>
      <3>1. n > 0 => u[n] = t[n]
        BY <1>1, <1>4
      <3>2. EndsBlank(t) <=> n > 0 /\ t[n] = Blank
        BY DEF EndsBlank, n
      <3> QED
        BY <1>1, <1>4, <3>1, <3>2 DEF SpacedPiece
    <2> QED
      BY <1>4, <2>1
  <1>9. OneMore(g, h, n, E)
    BY <1>6, <1>7 DEF OneMore
  <1>10. Joined(t) = FlattenSeq(g) /\ Joined(u) = FlattenSeq(h)
    BY <1>1 DEF Joined, n
  <1> HIDE DEF g, h
  <1>11. FlattenSeq(g) \in Seq(E) /\ FlattenSeq(h) = FlattenSeq(g) \o h[n + 1]
    BY <1>1, <1>9, FlattenGrows
  <1> QED
    BY <1>8, <1>10, <1>11 DEF u

\* The place of a symbol in the list of codes, and its code in the id of a row.
Num(x) == CHOOSE j \in 1 .. 31 : Codes[j][1] = x

CodeOf(x) ==
  CHOOSE w \in {Other} \cup Words :
    \/ \E j \in DOMAIN Codes : Codes[j] = <<x, w>>
    \/ w = Other /\ \A j \in DOMAIN Codes : Codes[j][1] # x

RowPiece(x) == IF x \in Alphabet THEN <<x>> ELSE <<Underscore, CodeOf(x)>>

LEMMA NumIs ==
  ASSUME NEW x \in CodedSymbols
  PROVE  /\ Num(x) \in 1 .. 31 /\ Codes[Num(x)][1] = x
         /\ \A j \in 1 .. 31 : Codes[j][1] = x => j = Num(x)
  <1>1. \E j \in 1 .. 31 : Codes[j][1] = x
    BY CodesFacts DEF CodedSymbols
  <1>2. Num(x) \in 1 .. 31 /\ Codes[Num(x)][1] = x
    BY <1>1 DEF Num
  <1>3. \A i, j \in 1 .. 31 : i # j => Codes[i][1] # Codes[j][1]
    BY CodesFacts
  <1> QED
    BY <1>2, <1>3

LEMMA CodeOfIs ==
  ASSUME NEW x \in CodedSymbols
  PROVE  CodeOf(x) = Codes[Num(x)][2] /\ CodeOf(x) \in Words /\ x \notin Alphabet
  <1> DEFINE w == Codes[Num(x)][2]
             P(v) == \/ \E j \in DOMAIN Codes : Codes[j] = <<x, v>>
                     \/ v = Other /\ \A j \in DOMAIN Codes : Codes[j][1] # x
  <1>1. /\ Num(x) \in 1 .. 31 /\ Codes[Num(x)][1] = x
        /\ \A j \in 1 .. 31 : Codes[j][1] = x => j = Num(x)
    BY NumIs
  <1>2. DOMAIN Codes = 1 .. 31 /\ Codes[Num(x)] = <<x, w>> /\ x \notin Alphabet
    BY <1>1, CodesFacts
  <1>3. w \in Words /\ P(w)
    BY <1>1, <1>2 DEF Words
  <1>4. ASSUME NEW v, P(v) PROVE v = w
    <2>1. PICK j \in 1 .. 31 : Codes[j] = <<x, v>>
      BY <1>1, <1>2, <1>4
    <2>2. Codes[j][1] = x /\ Codes[j][2] = v
      BY <2>1
    <2> QED
      BY <1>1, <2>2
  <1>5. CodeOf(x) = CHOOSE v \in {Other} \cup Words : P(v)
    BY Zenon DEF CodeOf
  <1> HIDE DEF P
  <1>6. P(CHOOSE v \in {Other} \cup Words : P(v))
    BY <1>3
  <1>7. CodeOf(x) = w
    BY <1>4, <1>5, <1>6, Zenon
  <1> QED
    BY <1>2, <1>3, <1>7

LEMMA RowPieceType ==
  ASSUME NEW x \in Coded PROVE RowPiece(x) \in Seq(Known)
  <1>1. x \in Alphabet \/ x \in CodedSymbols
    BY DEF Coded
  <1>2. CASE x \in Alphabet
    BY <1>2 DEF RowPiece, Known
  <1>3. CASE x \in CodedSymbols
    <2>1. CodeOf(x) \in Known /\ Underscore \in Known /\ x \notin Alphabet
      BY <1>3, CodeOfIs DEF Known
    <2> QED
      BY <2>1 DEF RowPiece
  <1> QED
    BY <1>1, <1>2, <1>3

LEMMA RowMatchNameIs ==
  ASSUME NEW name
  PROVE  RowMatchName(name) = FlattenSeq([i \in 1 .. Len(name) |-> RowPiece(name[i])])
  BY Zenon DEF RowMatchName, RowPiece, CodeOf, Words, Other, Underscore

LEMMA RowMatchNameAppend ==
  ASSUME NEW t \in Seq(Coded), NEW x \in Coded
  PROVE  /\ RowMatchName(t) \in Seq(Known)
         /\ RowMatchName(Append(t, x)) = RowMatchName(t) \o RowPiece(x)
  <1> DEFINE n == Len(t)
             u == Append(t, x)
             g == [i \in 1 .. n |-> RowPiece(t[i])]
             h == [i \in 1 .. n + 1 |-> RowPiece(u[i])]
  <1>1. /\ n \in Nat /\ Len(u) = n + 1 /\ u[n + 1] = x
        /\ \A i \in 1 .. n : u[i] = t[i] /\ t[i] \in Coded
    OBVIOUS
  <1> HIDE DEF u, n
  <1>2. /\ n + 1 \in 1 .. n + 1
        /\ \A i \in 1 .. n : i \in 1 .. n + 1
        /\ \A i \in 1 .. n + 1 : i # n + 1 => i \in 1 .. n
    BY <1>1
  <1>3. \A i \in 1 .. n + 1 : u[i] \in Coded
    BY <1>1, <1>2
  <1>4. OneMore(g, h, n, Known)
    <2>1. \A i \in 1 .. n : h[i] = g[i]
      BY <1>1, <1>2
    <2>2. \A i \in 1 .. n + 1 : h[i] \in Seq(Known)
      BY <1>3, RowPieceType
    <2> QED
      BY <2>1, <2>2 DEF OneMore
  <1>5. RowMatchName(t) = FlattenSeq(g) /\ RowMatchName(u) = FlattenSeq(h)
    <2>1. RowMatchName(t) = FlattenSeq(g)
      BY RowMatchNameIs DEF n
    <2>2. RowMatchName(u) = FlattenSeq([i \in 1 .. Len(u) |-> RowPiece(u[i])])
      BY RowMatchNameIs
    <2> QED
      BY <1>1, <2>1, <2>2
  <1>6. h[n + 1] = RowPiece(x)
    BY <1>1, <1>2
  <1> HIDE DEF g, h
  <1>7. FlattenSeq(g) \in Seq(Known) /\ FlattenSeq(h) = FlattenSeq(g) \o h[n + 1]
    BY <1>1, <1>4, FlattenGrows
  <1> QED
    BY <1>5, <1>6, <1>7 DEF u

(***************************************************************************)
(* One replacement after the other.                                        *)
(***************************************************************************)
LEMMA ReplacedType ==
  ASSUME NEW t \in Seq(Elem), NEW i \in 1 .. 31
  PROVE  Replaced(t, Codes[i][1], Codes[i][2]) \in Seq(Elem)
  BY ReplacedAppend, ElemFacts

\* f[k] is what the first k replacements make of t.
PassedUpto(f, t) ==
  /\ f \in [0 .. 31 -> Seq(Elem)]
  /\ f[0] = t
  /\ \A k \in 0 .. 30 : f[k + 1] = Replaced(f[k], Codes[k + 1][1], Codes[k + 1][2])

LEMMA PassesIs ==
  ASSUME NEW t \in Seq(Elem)
  PROVE  \E f : PassedUpto(f, t) /\ Passes(t, Codes) = f[31]
  <1> DEFINE A == Seq(Elem)
             Left(g) == g = [i \in 0 .. 31 |-> IF i = 0 THEN t
                               ELSE Replaced(g[i - 1], Codes[i][1], Codes[i][2])]
             f == CHOOSE g : Left(g)
             next == [ix \in (1 .. 31) \X A |->
                        Replaced(ix[2], Codes[ix[1]][1], Codes[ix[1]][2])]
  <1>1. Len(Codes) = 31
    BY CodesFacts
  <1>2. Passes(t, Codes) = f[31]
    BY <1>1, Zenon DEF Passes
  <1>3. \A i \in 1 .. 31, x \in A : next[<<i, x>>] = Replaced(x, Codes[i][1], Codes[i][2])
    OBVIOUS
  <1>4. Steps(A, t, 31, next)
    <2>1. ASSUME NEW ix \in (1 .. 31) \X A
          PROVE  Replaced(ix[2], Codes[ix[1]][1], Codes[ix[1]][2]) \in A
      BY ReplacedType
    <2>2. next \in [(1 .. 31) \X A -> A]
      BY <2>1
    <2> QED
      BY <2>2 DEF Steps
  <1> HIDE DEF next, A
  <1>5. \A i \in 0 .. 31 : i # 0 => i \in 1 .. 31 /\ i - 1 \in 0 .. 31
    OBVIOUS
  <1>6. \E g : Left(g)
    <2>1. PICK g : Solves(g, A, t, 31, next)
      BY <1>4, Recursion
    <2>2. \A i \in 0 .. 31 : i # 0 => g[i] = Replaced(g[i - 1], Codes[i][1], Codes[i][2])
      BY <1>3, <1>5, <2>1 DEF Solves
    <2>3. Left(g)
      BY <2>1, <2>2 DEF Solves
    <2> QED
      BY <2>3
  <1>7. Left(f)
    <2> HIDE DEF Left
    <2> QED
      BY <1>6
  <1> HIDE DEF f
  <1>8. /\ 0 \in 0 .. 31
        /\ \A k \in 0 .. 30 : k + 1 \in 0 .. 31 /\ k + 1 # 0 /\ (k + 1) - 1 = k /\ k + 1 \in 1 .. 31
    OBVIOUS
  <1>9. f[0] = t /\ f = [i \in 0 .. 31 |-> f[i]]
    BY <1>7, <1>8
  <1>10. ASSUME NEW k \in 0 .. 30
         PROVE  f[k + 1] = Replaced(f[k], Codes[k + 1][1], Codes[k + 1][2])
    BY <1>7, <1>8
  <1> HIDE DEF Left
  <1> DEFINE T == {m \in 0 .. 31 : f[m] \in A}
  <1>11. 0 .. 31 \subseteq T
    <2>1. 0 \in T
      BY <1>8, <1>9 DEF A
    <2>2. ASSUME NEW m \in 0 .. 31 - 1, m \in T PROVE m + 1 \in T
      <3>1. m \in 0 .. 30
        OBVIOUS
      <3>2. Replaced(f[m], Codes[m + 1][1], Codes[m + 1][2]) \in A
        BY <1>8, <2>2, <3>1, ReplacedType DEF A
      <3> QED
        BY <1>8, <1>10, <3>1, <3>2
    <2> HIDE DEF T
    <2> QED
      BY <2>1, <2>2, Induction
  <1>12. f \in [0 .. 31 -> A]
    BY <1>9, <1>11
  <1>13. PassedUpto(f, t)
    BY <1>9, <1>10, <1>12 DEF PassedUpto, A
  <1> QED
    BY <1>2, <1>13

LEMMA PassesNone == Passes(<< >>, Codes) = << >>
  <1>1. PICK f : PassedUpto(f, << >>) /\ Passes(<< >>, Codes) = f[31]
    <2>1. << >> \in Seq(Elem)
      BY EmptySeq
    <2> QED
      BY <2>1, PassesIs
  <1> DEFINE T == {m \in 0 .. 31 : f[m] = << >>}
  <1>2. 0 \in T
    BY <1>1 DEF PassedUpto
  <1>3. ASSUME NEW m \in 0 .. 31 - 1, m \in T PROVE m + 1 \in T
    <2>1. m \in 0 .. 30 /\ m + 1 \in 0 .. 31
      OBVIOUS
    <2>2. f[m] = << >> /\ f[m + 1] = Replaced(f[m], Codes[m + 1][1], Codes[m + 1][2])
      BY <1>1, <1>3, <2>1 DEF PassedUpto
    <2>3. f[m + 1] = << >>
      BY <2>2, ReplacedNone
    <2> QED
      BY <2>1, <2>3
  <1>4. 0 .. 31 \subseteq T
    <2> HIDE DEF T
    <2> QED
      BY <1>2, <1>3, Induction
  <1>5. 31 \in 0 .. 31
    OBVIOUS
  <1> QED
    BY <1>1, <1>4, <1>5

\* What has become of symbol x after text t when k replacements are done.
PassedPiece(k, t, x) ==
  IF x \in CodedSymbols /\ Num(x) <= k
  THEN IF x = Blank /\ EndsBlank(t) THEN << >> ELSE <<Underscore, CodeOf(x)>>
  ELSE <<x>>

\* The first replacement, that of the underscore, leaves spaces where they are.
LEMMA SpacesStay ==
  ASSUME NEW t \in Seq(Elem)
  PROVE  EndsBlank(Replaced(t, Codes[1][1], Codes[1][2])) <=> EndsBlank(t)
  <1> DEFINE w == Codes[1][2]
             r(v) == Replaced(v, Underscore, w)
  <1>1. Codes[1][1] = Underscore /\ w \in Elem /\ w # Blank /\ Underscore # Blank
    <2>1. 1 \in 1 .. 31 /\ 2 \in 1 .. 31 /\ 1 # 2
      OBVIOUS
    <2>2. Codes[1][1] = Underscore /\ Codes[2][1] = Blank
          /\ Codes[2][1] # Codes[1][2] /\ Codes[2][1] # Codes[1][1] /\ Codes[1][2] \in Elem
      BY <2>1, CodesFacts, ElemFacts
    <2> QED
      BY <2>2
  <1> HIDE DEF w
  <1>2. CASE t = << >>
    <2>1. r(t) = t
      BY <1>2, ReplacedNone
    <2> QED
      BY <1>1, <2>1 DEF w
  <1>3. CASE t # << >>
    <2>1. PICK v \in Seq(Elem), x \in Elem : t = Append(v, x)
      <3>1. /\ SubSeq(t, 1, Len(t) - 1) \in Seq(Elem) /\ t[Len(t)] \in Elem
            /\ t = Append(SubSeq(t, 1, Len(t) - 1), t[Len(t)])
        BY <1>3
      <3> QED
        BY <3>1
    <2>2. EndsBlank(t) <=> x = Blank
      BY <2>1 DEF EndsBlank
    <2>3. r(v) \in Seq(Elem) /\ r(t) = r(v) \o Becomes(v, x, Underscore, w)
      BY <1>1, <2>1, ReplacedAppend
    <2>4. Becomes(v, x, Underscore, w) = IF x # Underscore THEN <<x>> ELSE <<Underscore, w>>
      BY <1>1 DEF Becomes
    <2>6. EndsBlank(r(t)) <=> x = Blank
      <3> PICK a \in Seq(Elem) : r(t) = a \o Becomes(v, x, Underscore, w)
        BY <2>3
      <3>1. CASE x = Underscore
        <4>1. r(t) = a \o <<Underscore, w>>
          BY <2>4, <3>1
        <4>2. EndsBlank(a \o <<Underscore, w>>) <=> w = Blank
          <5>1. w \in Elem /\ Underscore \in Elem
            BY <1>1, ElemFacts
          <5> QED
            BY <5>1 DEF EndsBlank
        <4> QED
          BY <1>1, <3>1, <4>1, <4>2
      <3>2. CASE x # Underscore
        <4>1. r(t) = a \o <<x>>
          BY <2>4, <3>2
        <4>2. EndsBlank(a \o <<x>>) <=> x = Blank
          BY <2>1 DEF EndsBlank
        <4> QED
          BY <4>1, <4>2
      <3> QED
        BY <3>1, <3>2
    <2> QED
      BY <1>1, <2>2, <2>6 DEF w
  <1> QED
    BY <1>2, <1>3

\* Each replacement works on the pieces one by one: it touches no code that an
\* earlier one has put in, and no symbol but its own.
LEMMA NextReplacement ==
  ASSUME NEW t \in Seq(Elem), NEW x \in Elem, NEW f, PassedUpto(f, t), NEW k \in 0 .. 30
  PROVE  /\ Replaced(f[k] \o PassedPiece(k, t, x), Codes[k + 1][1], Codes[k + 1][2])
              = f[k + 1] \o PassedPiece(k + 1, t, x)
  <1> DEFINE s == Codes[k + 1][1]
             w == Codes[k + 1][2]
             v == f[k]
             y == f[k + 1]
  <1>1. /\ k \in 0 .. 31 /\ k + 1 \in 1 .. 31 /\ k + 1 \in 0 .. 31 /\ k \in Nat
        /\ 1 \in 1 .. 31 /\ 2 \in 1 .. 31
    OBVIOUS
  <1>2. v \in Seq(Elem) /\ y \in Seq(Elem) /\ y = Replaced(v, s, w)
    BY <1>1 DEF PassedUpto
  <1>3. /\ s \in Elem /\ w \in Elem
        /\ s = Underscore <=> k + 1 = 1
        /\ s = Blank <=> k + 1 = 2
        /\ s \in CodedSymbols
    BY <1>1, CodesFacts, ElemFacts DEF CodedSymbols
  <1>4. /\ Num(s) = k + 1
        /\ \A z \in CodedSymbols : /\ Num(z) \in 1 .. 31 /\ Codes[Num(z)][1] = z
                                   /\ Num(z) = k + 1 => z = s
                                   /\ CodeOf(z) = Codes[Num(z)][2]
    BY <1>1, <1>3, NumIs, CodeOfIs
  <1>5. \A z \in CodedSymbols : CodeOf(z) # s /\ CodeOf(z) \in Elem
    <2>1. ASSUME NEW z \in CodedSymbols
          PROVE  Codes[Num(z)][2] # s /\ Codes[Num(z)][2] \in Elem
      <3>1. Num(z) \in 1 .. 31
        BY <1>4
      <3> QED
        BY <1>1, <3>1, CodesFacts, ElemFacts
    <2> QED
      BY <1>4, <2>1, Zenon
  <1>6. \A a \in Seq(Elem), z \in Elem :
          /\ Replaced(a, s, w) \in Seq(Elem) /\ Replaced(Append(a, z), s, w) \in Seq(Elem)
          /\ Replaced(Append(a, z), s, w) = Replaced(a, s, w) \o Becomes(a, z, s, w)
          /\ a \o <<z>> = Append(a, z)
    <2>1. ASSUME NEW a \in Seq(Elem), NEW z \in Elem
          PROVE  /\ Replaced(a, s, w) \in Seq(Elem) /\ Replaced(Append(a, z), s, w) \in Seq(Elem)
                 /\ Replaced(Append(a, z), s, w) = Replaced(a, s, w) \o Becomes(a, z, s, w)
                 /\ a \o <<z>> = Append(a, z)
      <3>1. Append(a, z) \in Seq(Elem) /\ a \o <<z>> = Append(a, z)
        OBVIOUS
      <3> HIDE DEF s, w
      <3>2. /\ Replaced(a, s, w) \in Seq(Elem)
            /\ Replaced(Append(a, z), s, w) = Replaced(a, s, w) \o Becomes(a, z, s, w)
        BY <1>3, ReplacedAppend, Zenon
      <3>3. Replaced(Append(a, z), s, w) \in Seq(Elem)
        BY <1>3, <3>1, ReplacedAppend, Zenon
      <3> QED
        BY <3>1, <3>2, <3>3
    <2> QED
      BY <2>1
  <1>7. k = 1 => (EndsBlank(v) <=> EndsBlank(t))
    <2>1. k = 1 => v = Replaced(t, Codes[1][1], Codes[1][2])
      <3>1. 0 \in 0 .. 30 /\ 0 + 1 = 1
        OBVIOUS
      <3>2. f[0 + 1] = Replaced(f[0], Codes[0 + 1][1], Codes[0 + 1][2]) /\ f[0] = t
        BY <3>1 DEF PassedUpto
      <3> QED
        BY <3>1, <3>2
    <2> QED
      BY <2>1, SpacesStay
  <1> HIDE DEF s, w, v, y
  <1>8. CASE x \in CodedSymbols /\ Num(x) <= k
    <2>1. Num(x) \in Nat /\ Num(x) <= k + 1 /\ 1 <= k
      <3>1. Num(x) \in 1 .. 31 /\ Num(x) <= k
        BY <1>4, <1>8
      <3>2. \A m \in 1 .. 31 : m <= k => m \in Nat /\ m <= k + 1 /\ 1 <= k
        BY <1>1
      <3> QED
        BY <3>1, <3>2, Zenon
    <2>2. PassedPiece(k + 1, t, x) = PassedPiece(k, t, x)
      BY <1>8, <2>1 DEF PassedPiece
    <2>3. CASE x = Blank /\ EndsBlank(t)
      <3>1. PassedPiece(k, t, x) = << >>
        BY <1>8, <2>3 DEF PassedPiece
      <3>2. \A a \in Seq(Elem) : a \o << >> = a
        OBVIOUS
      <3>3. v \o << >> = v /\ y \o << >> = y
        BY <1>2, <3>2
      <3> QED
        BY <1>2, <2>2, <3>1, <3>3 DEF s, w, v, y
    <2>4. CASE ~ (x = Blank /\ EndsBlank(t))
      <3> DEFINE c == CodeOf(x)
      <3>1. PassedPiece(k, t, x) = <<Underscore, c>>
        BY <1>8, <2>4 DEF PassedPiece
      <3>2. c \in Elem /\ c # s /\ Underscore # s /\ Underscore \in Elem
        <4>1. k + 1 # 1
          BY <1>1, <2>1
        <4> QED
          BY <1>3, <1>5, <1>8, <4>1, ElemFacts
      <3> HIDE DEF c
      <3>3. \A a \in Seq(Elem), i, j \in Elem : a \o <<i, j>> = Append(Append(a, i), j)
                                               /\ Append(a, i) \in Seq(Elem)
        OBVIOUS
      <3> DEFINE a == Append(v, Underscore)
      <3>4. a \in Seq(Elem) /\ v \o <<Underscore, c>> = Append(a, c)
            /\ y \o <<Underscore, c>> = Append(Append(y, Underscore), c)
            /\ Append(y, Underscore) \in Seq(Elem)
        BY <1>2, <3>2, <3>3
      <3>5. \A b, z : z # s => Becomes(b, z, s, w) = <<z>>
        BY DEF Becomes
      <3>6. Replaced(a, s, w) = Append(y, Underscore)
        <4>1. Replaced(Append(v, Underscore), s, w)
                = Replaced(v, s, w) \o Becomes(v, Underscore, s, w)
          BY <1>2, <1>6, <3>2
        <4>2. Becomes(v, Underscore, s, w) = <<Underscore>>
          BY <3>2, <3>5
        <4> QED
          BY <1>2, <1>6, <3>2, <4>1, <4>2
      <3> HIDE DEF a
      <3>7. Replaced(Append(a, c), s, w) = Append(Append(y, Underscore), c)
        <4>1. Replaced(Append(a, c), s, w) = Replaced(a, s, w) \o Becomes(a, c, s, w)
          BY <1>6, <3>2, <3>4
        <4>2. Becomes(a, c, s, w) = <<c>>
          BY <3>2, <3>5
        <4>3. Append(y, Underscore) \o <<c>> = Append(Append(y, Underscore), c)
          BY <1>6, <3>2, <3>4
        <4> QED
          BY <3>6, <4>1, <4>2, <4>3
      <3> QED
        BY <2>2, <3>1, <3>4, <3>7, Zenon DEF s, w, v, y
    <2> QED
      BY <2>3, <2>4
  <1>9. CASE ~ (x \in CodedSymbols /\ Num(x) <= k)
    <2>1. PassedPiece(k, t, x) = <<x>>
      BY <1>9 DEF PassedPiece
    <2>2. PassedPiece(k + 1, t, x) = Becomes(v, x, s, w)
      <3>1. CASE x = s
        <4>1. Num(x) <= k + 1 /\ x \in CodedSymbols
          BY <1>1, <1>3, <1>4, <3>1
        <4>2. CodeOf(x) = w
          BY <1>3, <1>4, <3>1 DEF w
        <4>3. x = Blank => (EndsBlank(v) <=> EndsBlank(t))
          BY <1>1, <1>3, <1>7, <3>1
        <4> QED
          BY <3>1, <4>1, <4>2, <4>3, Zenon DEF PassedPiece, Becomes
      <3>2. CASE x # s
        <4>1. ~ (x \in CodedSymbols /\ Num(x) <= k + 1)
          <5>1. x \in CodedSymbols => Num(x) \in 1 .. 31 /\ Num(x) # k + 1 /\ ~ (Num(x) <= k)
            BY <1>4, <1>9, <3>2
          <5>2. \A m \in 1 .. 31 : m # k + 1 /\ ~ (m <= k) => ~ (m <= k + 1)
            BY <1>1
          <5> QED
            BY <5>1, <5>2, Zenon
        <4> QED
          BY <3>2, <4>1 DEF PassedPiece, Becomes
      <3> QED
        BY <3>1, <3>2
    <2>3. Replaced(v \o <<x>>, s, w) = y \o Becomes(v, x, s, w)
      BY <1>2, <1>6
    <2> QED
      BY <2>1, <2>2, <2>3, Zenon DEF s, w, v, y
  <1> QED
    BY <1>8, <1>9

LEMMA JoinedType == ASSUME NEW E, NEW t \in Seq(E) PROVE Joined(t) \in Seq(E)
  <1>1. CASE t = << >>
    <2>1. [i \in 1 .. Len(t) |-> SpacedPiece(t, i)] = << >>
      BY <1>1
    <2> QED
      BY <1>1, <2>1, FlattenNone, EmptySeq DEF Joined
  <1>2. CASE t # << >>
    <2>1. t[Len(t)] \in E
      BY <1>2
    <2> QED
      BY <2>1, JoinedAppend
  <1> QED
    BY <1>1, <1>2

LEMMA PassesAppend ==
  ASSUME NEW t \in Seq(Elem), NEW x \in Elem
  PROVE  /\ Passes(t, Codes) \in Seq(Elem)
         /\ PassedPiece(31, t, x) \in Seq(Elem)
         /\ Passes(Append(t, x), Codes) = Passes(t, Codes) \o PassedPiece(31, t, x)
  <1>1. PICK f : PassedUpto(f, t) /\ Passes(t, Codes) = f[31]
    BY PassesIs
  <1>2. PICK h : PassedUpto(h, Append(t, x)) /\ Passes(Append(t, x), Codes) = h[31]
    <2>1. Append(t, x) \in Seq(Elem)
      OBVIOUS
    <2> QED
      BY <2>1, PassesIs
  <1> DEFINE T == {m \in 0 .. 31 : h[m] = f[m] \o PassedPiece(m, t, x)}
  <1>3. 0 \in T
    <2>1. x \in CodedSymbols => ~ (Num(x) <= 0)
      <3>1. x \in CodedSymbols => Num(x) \in 1 .. 31
        BY NumIs
      <3>2. \A m \in 1 .. 31 : ~ (m <= 0)
        OBVIOUS
      <3> QED
        BY <3>1, <3>2, Zenon
    <2>2. PassedPiece(0, t, x) = <<x>>
      BY <2>1 DEF PassedPiece
    <2>3. h[0] = Append(t, x) /\ f[0] = t /\ t \o <<x>> = Append(t, x)
      BY <1>1, <1>2 DEF PassedUpto
    <2>4. h[0] = f[0] \o PassedPiece(0, t, x)
      BY <2>2, <2>3, Zenon
    <2>5. 0 \in 0 .. 31
      OBVIOUS
    <2> QED
      BY <2>4, <2>5, Zenon
  <1>4. ASSUME NEW m \in 0 .. 31 - 1, m \in T PROVE m + 1 \in T
    <2>1. m \in 0 .. 30 /\ m + 1 \in 0 .. 31
      OBVIOUS
    <2>2. h[m] = f[m] \o PassedPiece(m, t, x)
      BY <1>4
    <2>3. h[m + 1] = Replaced(h[m], Codes[m + 1][1], Codes[m + 1][2])
      BY <1>2, <2>1 DEF PassedUpto
    <2>4. Replaced(f[m] \o PassedPiece(m, t, x), Codes[m + 1][1], Codes[m + 1][2])
            = f[m + 1] \o PassedPiece(m + 1, t, x)
      BY <1>1, <2>1, NextReplacement
    <2> QED
      BY <2>1, <2>2, <2>3, <2>4
  <1>5. 0 .. 31 \subseteq T
    <2> HIDE DEF T
    <2> QED
      BY <1>3, <1>4, Induction
  <1>6. 31 \in 0 .. 31 /\ f[31] \in Seq(Elem)
    BY <1>1 DEF PassedUpto
  <1>7. PassedPiece(31, t, x) \in Seq(Elem)
    <2>1. x \in CodedSymbols => CodeOf(x) \in Elem
      BY CodeOfIs DEF Elem, Known
    <2>2. << >> \in Seq(Elem) /\ <<x>> \in Seq(Elem)
          /\ \A y \in Elem : <<Underscore, y>> \in Seq(Elem)
      BY EmptySeq, ElemFacts
    <2> QED
      BY <2>1, <2>2, Zenon DEF PassedPiece
  <1> QED
    BY <1>1, <1>2, <1>5, <1>6, <1>7

\* All replacements together: the id of the row that has the text for a name,
\* if its symbols have codes.
LEMMA PassesCoded ==
  ASSUME NEW t \in Seq(Coded)
  PROVE  Joined(t) \in Seq(Coded) /\ Passes(t, Codes) = RowMatchName(Joined(t))
  <1> DEFINE U == {v \in Seq(Coded) : Passes(v, Codes) = RowMatchName(Joined(v))}
  <1>1. << >> \in U
    <2>1. [i \in 1 .. Len(<< >>) |-> SpacedPiece(<< >>, i)] = << >>
          /\ [i \in 1 .. Len(<< >>) |-> RowPiece(<< >>[i])] = << >>
          /\ << >> \in Seq(Coded)
      BY EmptySeq
    <2>2. Joined(<< >>) = << >> /\ RowMatchName(<< >>) = << >>
      BY <2>1, FlattenNone, RowMatchNameIs DEF Joined
    <2> QED
      BY <2>1, <2>2, PassesNone
  <1>2. ASSUME NEW v \in Seq(Coded), NEW x \in Coded, v \in U PROVE Append(v, x) \in U
    <2>1. v \in Seq(Elem) /\ x \in Elem /\ Append(v, x) \in Seq(Coded)
      BY DEF Elem
    <2>2. Passes(v, Codes) = RowMatchName(Joined(v))
      BY <1>2
    <2>3. Passes(Append(v, x), Codes) = Passes(v, Codes) \o PassedPiece(31, v, x)
      BY <2>1, PassesAppend
    <2>4. /\ Joined(v) \in Seq(Coded)
          /\ Joined(Append(v, x)) =
               Joined(v) \o (IF x = Blank /\ EndsBlank(v) THEN << >> ELSE <<x>>)
      BY JoinedAppend
    <2>5. RowMatchName(Joined(v)) \in Seq(Known)
          /\ RowMatchName(Append(Joined(v), x)) = RowMatchName(Joined(v)) \o RowPiece(x)
      BY <2>4, RowMatchNameAppend
    <2>6. /\ x \in CodedSymbols => Num(x) <= 31 /\ x \notin Alphabet
          /\ x \notin CodedSymbols => x \in Alphabet
          /\ Blank \in CodedSymbols
      <3>1. x \in CodedSymbols => Num(x) \in 1 .. 31 /\ x \notin Alphabet
        BY NumIs, CodeOfIs
      <3>2. \A m \in 1 .. 31 : m <= 31
        OBVIOUS
      <3>3. Blank \in CodedSymbols
        <4>1. 2 \in 1 .. 31
          OBVIOUS
        <4>2. Codes[2][1] = Blank /\ DOMAIN Codes = 1 .. 31
          BY <4>1, CodesFacts
        <4> QED
          BY <4>1, <4>2, Zenon DEF CodedSymbols
      <3> QED
        BY <3>1, <3>2, <3>3, Zenon DEF Coded
    <2>7. CASE x = Blank /\ EndsBlank(v)
      <3>1. PassedPiece(31, v, x) = << >>
        BY <2>6, <2>7 DEF PassedPiece
      <3>2. \A E : \A a \in Seq(E) : a \o << >> = a
        OBVIOUS
      <3>3. Joined(Append(v, x)) = Joined(v)
        BY <2>4, <2>7, <3>2, Zenon
      <3> QED
        BY <2>1, <2>2, <2>3, <2>5, <3>1, <3>2, <3>3
    <2>8. CASE ~ (x = Blank /\ EndsBlank(v))
      <3>1. PassedPiece(31, v, x) = RowPiece(x)
        BY <2>6, <2>8 DEF PassedPiece, RowPiece
      <3>2. Joined(Append(v, x)) = Append(Joined(v), x)
        <4>1. \A a \in Seq(Coded) : a \o <<x>> = Append(a, x)
          OBVIOUS
        <4> QED
          BY <2>4, <2>8, <4>1, Zenon
      <3> QED
        BY <2>1, <2>2, <2>3, <2>5, <3>1, <3>2
    <2> QED
      BY <2>7, <2>8
  <1>3. t \in U
    <2> HIDE DEF U
    <2> QED
      BY <1>1, <1>2, SeqInduction
  <1> QED
    BY <1>3, JoinedType

(***************************************************************************)
(* What no code stands for.                                                *)
(***************************************************************************)
GoesOff(v, i) == i < Len(v) /\ v[i] \notin Known /\ v[i + 1] = "I"

OtherPiece(v, i) ==
  IF GoesOff(v, i) THEN <<Underscore, Other>>
  ELSE IF i > 1 /\ GoesOff(v, i - 1) THEN << >> ELSE <<v[i]>>

LEMMA ReplacedOtherIs ==
  ASSUME NEW v
  PROVE  ReplacedOther(v) = FlattenSeq([i \in 1 .. Len(v) |-> OtherPiece(v, i)])
  BY Zenon DEF ReplacedOther, OtherPiece, GoesOff, Known, Words, Underscore, Other

LEMMA KnownFacts ==
  /\ Other \notin Known /\ Underscore \in CodedSymbols /\ Blank \in CodedSymbols
  /\ Underscore \notin Alphabet /\ Blank \notin Alphabet
  <1>1. 1 \in 1 .. 31 /\ 2 \in 1 .. 31
    OBVIOUS
  <1>2. /\ Codes[1][1] = Underscore /\ Codes[2][1] = Blank /\ DOMAIN Codes = 1 .. 31
        /\ Codes[1][1] \notin Alphabet /\ Codes[2][1] \notin Alphabet
    BY <1>1, CodesFacts
  <1>3. Other \notin Words /\ Other # Underscore
    <2>1. ASSUME NEW i \in 1 .. 31 PROVE Codes[i][2] # Other
      BY CodesFacts
    <2>2. Codes[1][1] # Other
      BY <1>1, CodesFacts
    <2> QED
      BY <1>2, <2>1, <2>2 DEF Words
  <1>4. Other \notin Alphabet
    BY Zenon DEF Other, Alphabet
  <1>5. Underscore \in CodedSymbols /\ Blank \in CodedSymbols
    BY <1>1, <1>2, Zenon DEF CodedSymbols
  <1> QED
    BY <1>2, <1>3, <1>4, <1>5 DEF Known

\* Where every symbol is known, nothing is replaced,
LEMMA OtherStays ==
  ASSUME NEW v \in Seq(Known)
  PROVE  ReplacedOther(v) = v
  <1>1. \A i \in 1 .. Len(v) : v[i] \in Known /\ (i > 1 => i - 1 \in 1 .. Len(v))
    OBVIOUS
  <1>2. \A i \in 1 .. Len(v) : ~ GoesOff(v, i)
    BY <1>1, Zenon DEF GoesOff
  <1>3. \A i \in 1 .. Len(v) : OtherPiece(v, i) = <<v[i]>>
    BY <1>1, <1>2, Zenon DEF OtherPiece
  <1>4. [i \in 1 .. Len(v) |-> OtherPiece(v, i)] = [i \in 1 .. Len(v) |-> <<v[i]>>]
    BY <1>3, Zenon
  <1> QED
    BY <1>4, ReplacedOtherIs, FlattenSingles

LEMMA OtherPieces ==
  ASSUME NEW v \in Seq(Elem)
  PROVE  /\ [i \in 1 .. Len(v) |-> OtherPiece(v, i)] \in Seq(Seq(Elem))
         /\ ReplacedOther(v) \in Seq(Elem)
  <1>1. Len(v) \in Nat /\ \A i \in 1 .. Len(v) : v[i] \in Elem
    OBVIOUS
  <1>2. /\ << >> \in Seq(Elem) /\ <<Underscore, Other>> \in Seq(Elem)
        /\ \A x \in Elem : <<x>> \in Seq(Elem)
    BY EmptySeq, ElemFacts
  <1>3. \A i \in 1 .. Len(v) : OtherPiece(v, i) \in Seq(Elem)
    BY <1>1, <1>2, Zenon DEF OtherPiece
  <1>4. [i \in 1 .. Len(v) |-> OtherPiece(v, i)] \in Seq(Seq(Elem))
    BY <1>1, <1>3
  <1> QED
    BY <1>4, ReplacedOtherIs, FlattenType

\* and where one is not, one stays unknown or _zzz takes its place.
LEMMA OtherShows ==
  ASSUME NEW v \in Seq(Elem), ReplacedOther(v) \in Seq(Known)
  PROVE  v \in Seq(Known)
  <1> DEFINE ss == [i \in 1 .. Len(v) |-> OtherPiece(v, i)]
  <1>1. Len(v) \in Nat /\ \A i \in 1 .. Len(v) : v[i] \in Elem /\ (i > 1 => i - 1 \in 1 .. Len(v))
    OBVIOUS
  <1>4. ss \in Seq(Seq(Elem)) /\ Len(ss) = Len(v) /\ \A i \in 1 .. Len(v) : ss[i] = OtherPiece(v, i)
    BY <1>1, OtherPieces
  <1>5. FlattenSeq(ss) \in Seq(Known)
    BY ReplacedOtherIs
  <1> HIDE DEF ss
  <1>6. ss \in Seq(Seq(Known))
    BY <1>4, <1>5, FlattenFrom
  <1>7. \A i \in 1 .. Len(v) : OtherPiece(v, i) \in Seq(Known)
    <2>1. \A i \in 1 .. Len(ss) : ss[i] \in Seq(Known)
      BY <1>6
    <2> QED
      BY <1>4, <2>1
  <1>8. /\ \A x : <<x>> \in Seq(Known) => x \in Known
        /\ \A x, y : <<x, y>> \in Seq(Known) => y \in Known
    <2>1. ASSUME NEW x, <<x>> \in Seq(Known) PROVE x \in Known
      <3>1. <<x>>[1] \in Known
        BY <2>1
      <3> QED
        BY <3>1
    <2>2. ASSUME NEW x, NEW y, <<x, y>> \in Seq(Known) PROVE y \in Known
      <3>1. <<x, y>>[2] \in Known
        BY <2>2
      <3> QED
        BY <3>1
    <2> QED
      BY <2>1, <2>2
  <1>9. \A i \in 1 .. Len(v) : ~ GoesOff(v, i)
    BY <1>7, <1>8, KnownFacts, Zenon DEF OtherPiece
  <1>10. \A i \in 1 .. Len(v) : OtherPiece(v, i) = <<v[i]>>
    BY <1>1, <1>9, Zenon DEF OtherPiece
  <1>11. \A i \in 1 .. Len(v) : v[i] \in Known
    BY <1>7, <1>8, <1>10
  <1> QED
    BY <1>1, <1>11

(***************************************************************************)
(* Texts with a symbol that has no code.                                   *)
(***************************************************************************)

\* What is typed and what is in names: no word for a code is a symbol.
Symbols == STRING \ (Words \cup {Other})

LEMMA PassesShow ==
  ASSUME NEW t \in Seq(Symbols), Passes(t, Codes) \in Seq(Known)
  PROVE  t \in Seq(Coded)
  <1> DEFINE U == {v \in Seq(Symbols) : Passes(v, Codes) \in Seq(Known) => v \in Seq(Coded)}
  <1>1. << >> \in U
    BY EmptySeq
  <1>2. ASSUME NEW v \in Seq(Symbols), NEW x \in Symbols, v \in U PROVE Append(v, x) \in U
    <2>1. Append(v, x) \in Seq(Symbols) /\ v \in Seq(Elem) /\ x \in Elem
      <3>1. Symbols \subseteq Elem
        BY Zenon DEF Symbols, Elem
      <3> QED
        BY <3>1
    <2>2. ASSUME Passes(Append(v, x), Codes) \in Seq(Known) PROVE Append(v, x) \in Seq(Coded)
      <3>1. /\ Passes(v, Codes) \in Seq(Elem) /\ PassedPiece(31, v, x) \in Seq(Elem)
            /\ Passes(v, Codes) \o PassedPiece(31, v, x) \in Seq(Known)
        BY <2>1, <2>2, PassesAppend
      <3>2. Passes(v, Codes) \in Seq(Known) /\ PassedPiece(31, v, x) \in Seq(Known)
        BY <3>1, ConcatParts
      <3>3. v \in Seq(Coded)
        BY <1>2, <3>2
      <3>4. x \in Coded
        <4>1. CASE x \in CodedSymbols
          BY <4>1 DEF Coded
        <4>2. CASE x \notin CodedSymbols
          <5>1. PassedPiece(31, v, x) = <<x>>
            BY <4>2 DEF PassedPiece
          <5>2. <<x>>[1] \in Known
            <6>1. <<x>> \in Seq(Known)
              BY <3>2, <5>1, Zenon
            <6> QED
              BY <6>1
          <5>3. x \in Known /\ x \notin Words /\ x # Underscore
            BY <4>2, <5>2, KnownFacts DEF Symbols
          <5> QED
            BY <5>3 DEF Known, Coded
        <4> QED
          BY <4>1, <4>2
      <3> QED
        BY <3>3, <3>4
    <2> QED
      BY <2>1, <2>2
  <1>3. t \in U
    <2> HIDE DEF U
    <2> QED
      BY <1>1, <1>2, SeqInduction
  <1> QED
    BY <1>3

LEMMA JoinedShows ==
  ASSUME NEW t \in Seq(Symbols), Joined(t) \in Seq(Coded)
  PROVE  t \in Seq(Coded)
  <1> DEFINE U == {v \in Seq(Symbols) : Joined(v) \in Seq(Coded) => v \in Seq(Coded)}
  <1>1. << >> \in U
    BY EmptySeq
  <1>2. ASSUME NEW v \in Seq(Symbols), NEW x \in Symbols, v \in U PROVE Append(v, x) \in U
    <2>1. Append(v, x) \in Seq(Symbols)
      OBVIOUS
    <2>2. ASSUME Joined(Append(v, x)) \in Seq(Coded) PROVE Append(v, x) \in Seq(Coded)
      <3> DEFINE p == IF x = Blank /\ EndsBlank(v) THEN << >> ELSE <<x>>
      <3>1. /\ Joined(v) \in Seq(Symbols) /\ p \in Seq(Symbols)
            /\ Joined(v) \o p \in Seq(Coded)
        <4>1. << >> \in Seq(Symbols) /\ <<x>> \in Seq(Symbols)
          BY EmptySeq
        <4>2. p \in Seq(Symbols)
          BY <4>1, Zenon
        <4>3. Joined(v) \in Seq(Symbols) /\ Joined(Append(v, x)) = Joined(v) \o p
          BY JoinedAppend
        <4> QED
          BY <2>2, <4>2, <4>3, Zenon
      <3>2. (p = << >> /\ x = Blank) \/ p = <<x>>
        OBVIOUS
      <3> HIDE DEF p
      <3>3. Joined(v) \in Seq(Coded) /\ p \in Seq(Coded)
        BY <3>1, ConcatParts
      <3>4. v \in Seq(Coded)
        BY <1>2, <3>3
      <3>5. x \in Coded
        <4>1. CASE x = Blank
          BY <4>1, KnownFacts DEF Coded
        <4>2. CASE p = <<x>>
          <5>1. <<x>>[1] \in Coded
            BY <3>3, <4>2
          <5> QED
            BY <5>1
        <4> QED
          BY <3>2, <4>1, <4>2
      <3> QED
        BY <3>4, <3>5
    <2> QED
      BY <2>1, <2>2
  <1>3. t \in U
    <2> HIDE DEF U
    <2> QED
      BY <1>1, <1>2, SeqInduction
  <1> QED
    BY <1>3

(***************************************************************************)
(* Ids begin with each other as names do.                                  *)
(***************************************************************************)
LEMMA RowMatchNameType ==
  ASSUME NEW t \in Seq(Coded) PROVE RowMatchName(t) \in Seq(Known)
  <1>1. CASE t = << >>
    <2>1. [i \in 1 .. Len(t) |-> RowPiece(t[i])] = << >>
      BY <1>1
    <2> QED
      BY <2>1, RowMatchNameIs, FlattenNone, EmptySeq
  <1>2. CASE t # << >>
    <2>1. t[Len(t)] \in Coded
      BY <1>2
    <2> QED
      BY <2>1, RowMatchNameAppend
  <1> QED
    BY <1>1, <1>2

LEMMA NamesGrow ==
  ASSUME NEW n \in Seq(Coded), NEW a \in Seq(Coded), Begins(a, n)
  PROVE  Begins(RowMatchName(a), RowMatchName(n))
  <1> DEFINE U == {v \in Seq(Coded) : \A b \in Seq(Coded) :
                     Begins(b, v) => Begins(RowMatchName(b), RowMatchName(v))}
  <1>1. \A b \in Seq(Coded) : Begins(RowMatchName(b), RowMatchName(b))
    BY RowMatchNameType DEF Begins
  <1>2. << >> \in U
    <2>1. ASSUME NEW b \in Seq(Coded), Begins(b, << >>) PROVE b = << >>
      BY <2>1 DEF Begins
    <2> QED
      BY <1>1, <2>1, EmptySeq
  <1>3. ASSUME NEW v \in Seq(Coded), NEW x \in Coded, v \in U PROVE Append(v, x) \in U
    <2> DEFINE w == Append(v, x)
    <2>1. w \in Seq(Coded)
      OBVIOUS
    <2>2. ASSUME NEW b \in Seq(Coded), Begins(b, w) PROVE b = w \/ Begins(b, v)
      BY <2>2, BeginsAppend
    <2>3. Begins(RowMatchName(v), RowMatchName(w))
      <3>1. \A c, d \in Seq(Known) : Begins(c, c \o d)
        BY DEF Begins
      <3> QED
        BY <3>1, RowMatchNameAppend, RowPieceType
    <2> HIDE DEF w
    <2>4. ASSUME NEW b \in Seq(Coded), Begins(b, w)
          PROVE  Begins(RowMatchName(b), RowMatchName(w))
      <3>1. CASE b = w
        BY <1>1, <2>1, <3>1
      <3>2. CASE Begins(b, v)
        <4>1. Begins(RowMatchName(b), RowMatchName(v))
          BY <1>3, <3>2
        <4>2. /\ RowMatchName(b) \in Seq(Known) /\ RowMatchName(v) \in Seq(Known)
              /\ RowMatchName(w) \in Seq(Known)
          BY <2>1, RowMatchNameType
        <4> QED
          BY <2>3, <4>1, <4>2, BeginsTwice
      <3> QED
        BY <2>2, <2>4, <3>1, <3>2
    <2> QED
      BY <2>1, <2>4 DEF w
  <1>4. n \in U
    <2> HIDE DEF U
    <2> QED
      BY <1>2, <1>3, SeqInduction
  <1> QED
    BY <1>4

\* Two symbols after the same text are told apart by their pieces.
LEMMA PiecesMeet ==
  ASSUME NEW p \in Seq(Known), NEW z \in Seq(Known), NEW x \in Coded, NEW y \in Coded,
         Begins(p \o RowPiece(x), z), Begins(p \o RowPiece(y), z)
  PROVE  x = y
  <1>1. ASSUME NEW q \in Seq(Known), Begins(p \o q, z)
        PROVE  \A i \in 1 .. Len(q) : q[i] = z[Len(p) + i]
    BY <1>1, BeginsConcat
  <1>2. /\ \A i \in 1 .. Len(RowPiece(x)) : RowPiece(x)[i] = z[Len(p) + i]
        /\ \A i \in 1 .. Len(RowPiece(y)) : RowPiece(y)[i] = z[Len(p) + i]
    BY <1>1, RowPieceType
  <1>3. ASSUME NEW v \in Coded, \A i \in 1 .. Len(RowPiece(v)) : RowPiece(v)[i] = z[Len(p) + i]
        PROVE  /\ v \in Alphabet => z[Len(p) + 1] = v
               /\ v \notin Alphabet => /\ z[Len(p) + 1] = Underscore
                                       /\ z[Len(p) + 2] = CodeOf(v) /\ v \in CodedSymbols
    <2>1. CASE v \in Alphabet
      <3>1. RowPiece(v) = <<v>>
        BY <2>1 DEF RowPiece
      <3> QED
        BY <1>3, <2>1, <3>1
    <2>2. CASE v \notin Alphabet
      <3>1. RowPiece(v) = <<Underscore, CodeOf(v)>>
        BY <2>2 DEF RowPiece
      <3>2. v \in CodedSymbols
        BY <2>2 DEF Coded
      <3> QED
        BY <1>3, <2>2, <3>1, <3>2
    <2> QED
      BY <2>1, <2>2
  <1>4. /\ x \in Alphabet => z[Len(p) + 1] = x
        /\ x \notin Alphabet => /\ z[Len(p) + 1] = Underscore
                                /\ z[Len(p) + 2] = CodeOf(x) /\ x \in CodedSymbols
        /\ y \in Alphabet => z[Len(p) + 1] = y
        /\ y \notin Alphabet => /\ z[Len(p) + 1] = Underscore
                                /\ z[Len(p) + 2] = CodeOf(y) /\ y \in CodedSymbols
    BY <1>2, <1>3
  <1>5. ASSUME x \in CodedSymbols, y \in CodedSymbols, CodeOf(x) = CodeOf(y)
        PROVE  x = y
    <2>1. /\ Num(x) \in 1 .. 31 /\ Codes[Num(x)][1] = x
          /\ Num(y) \in 1 .. 31 /\ Codes[Num(y)][1] = y
      BY <1>5, NumIs
    <2>2. Codes[Num(x)][2] = Codes[Num(y)][2]
      BY <1>5, CodeOfIs
    <2>3. \A i, j \in 1 .. 31 : Codes[i][2] = Codes[j][2] => i = j
      BY CodesFacts
    <2> QED
      BY <2>1, <2>2, <2>3, Zenon
  <1> QED
    BY <1>4, <1>5, KnownFacts, Zenon

LEMMA NamesAgree ==
  ASSUME NEW n \in Seq(Coded), NEW u \in Seq(Coded)
  PROVE  Begins(RowMatchName(u), RowMatchName(n)) <=> Begins(u, n)
  <1> DEFINE U == {v \in Seq(Coded) :
                     Begins(RowMatchName(v), RowMatchName(n)) => Begins(v, n)}
  <1>1. << >> \in U
    <2>1. Begins(<< >>, n)
      BY DEF Begins
    <2> QED
      BY <2>1, EmptySeq
  <1>2. ASSUME NEW v \in Seq(Coded), NEW x \in Coded, v \in U PROVE Append(v, x) \in U
    <2> DEFINE k == Len(v)
               y == n[k + 1]
    <2>1. Append(v, x) \in Seq(Coded)
      OBVIOUS
    <2>2. ASSUME Begins(RowMatchName(Append(v, x)), RowMatchName(n))
          PROVE  Begins(Append(v, x), n)
      <3>1. /\ RowMatchName(v) \in Seq(Known) /\ RowPiece(x) \in Seq(Known)
            /\ RowMatchName(n) \in Seq(Known)
            /\ Begins(RowMatchName(v) \o RowPiece(x), RowMatchName(n))
            /\ RowPiece(x) # << >>
        <4>1. RowPiece(x) # << >>
          BY Zenon DEF RowPiece
        <4> QED
          BY <2>2, <4>1, RowMatchNameAppend, RowPieceType, RowMatchNameType
      <3>2. /\ Begins(RowMatchName(v), RowMatchName(n))
            /\ Len(RowMatchName(v)) < Len(RowMatchName(n))
        BY <3>1, BeginsConcat
      <3>3. Begins(v, n)
        BY <1>2, <3>2
      <3>4. v # n
        BY <3>1, <3>2
      <3>5. /\ k \in Nat /\ Len(n) \in Nat /\ k < Len(n) /\ y \in Coded
            /\ Begins(Append(v, y), n)
        <4>1. k \in Nat /\ Len(n) \in Nat /\ k <= Len(n) /\ (k = Len(n) => v = n)
          BY <3>3 DEF Begins
        <4>2. k < Len(n)
          BY <3>4, <4>1
        <4>3. y \in Coded
          BY <4>1, <4>2
        <4> HIDE DEF y
        <4>4. Begins(Append(v, y), n)
          <5>1. Len(Append(v, y)) = k + 1
            BY <4>3
          <5>2. \A i \in 1 .. k + 1 : Append(v, y)[i] = n[i]
            <6>1. \A i \in 1 .. k : Append(v, y)[i] = v[i] /\ v[i] = n[i]
              BY <3>3, <4>3 DEF Begins
            <6>2. Append(v, y)[k + 1] = n[k + 1]
              BY <4>3 DEF y
            <6> QED
              BY <4>1, <6>1, <6>2
          <5> QED
            BY <4>1, <4>2, <5>1, <5>2 DEF Begins
        <4> QED
          BY <4>1, <4>2, <4>3, <4>4
      <3> HIDE DEF k, y
      <3>6. Begins(RowMatchName(v) \o RowPiece(y), RowMatchName(n))
        <4>1. Append(v, y) \in Seq(Coded)
          BY <3>5
        <4>2. Begins(RowMatchName(Append(v, y)), RowMatchName(n))
          BY <3>5, <4>1, NamesGrow
        <4> QED
          BY <3>5, <4>2, RowMatchNameAppend
      <3>7. x = y
        BY <3>1, <3>5, <3>6, PiecesMeet
      <3> QED
        BY <3>5, <3>7
    <2> QED
      BY <2>1, <2>2
  <1>3. u \in U
    <2> HIDE DEF U
    <2> QED
      BY <1>1, <1>2, SeqInduction
  <1> QED
    BY <1>3, NamesGrow

(***************************************************************************)
(* The encoding of a text as a whole.                                      *)
(***************************************************************************)
LEMMA LettersStay ==
  ASSUME NEW t \in Seq(Alphabet)
  PROVE  Joined(t) = t /\ RowMatchName(t) = t
  <1>1. \A i \in 1 .. Len(t) : t[i] \in Alphabet
    OBVIOUS
  <1>2. \A i \in 1 .. Len(t) : /\ SpacedPiece(t, i) = <<t[i]>>
                               /\ RowPiece(t[i]) = <<t[i]>>
    BY <1>1, KnownFacts, Zenon DEF SpacedPiece, RowPiece
  <1>3. /\ [i \in 1 .. Len(t) |-> SpacedPiece(t, i)] = [i \in 1 .. Len(t) |-> <<t[i]>>]
        /\ [i \in 1 .. Len(t) |-> RowPiece(t[i])] = [i \in 1 .. Len(t) |-> <<t[i]>>]
    BY <1>2, Zenon
  <1> QED
    BY <1>3, RowMatchNameIs, FlattenSingles DEF Joined

\* A text finds the rows whose names begin with it.
LEMMA EncodingAgrees ==
  ASSUME NEW t \in Seq(Symbols), NEW n \in Seq(Coded)
  PROVE  IsPrefix(Encoded(t), RowMatchName(n)) <=> IsPrefix(Joined(t), n)
  <1>0. RowMatchName(n) \in Seq(Known)
    BY RowMatchNameType
  <1>1. CASE t \in Seq(Coded)
    <2>1. /\ Joined(t) \in Seq(Coded) /\ Passes(t, Codes) = RowMatchName(Joined(t))
          /\ RowMatchName(Joined(t)) \in Seq(Known)
      BY <1>1, PassesCoded, RowMatchNameType
    <2>2. Encoded(t) = RowMatchName(Joined(t))
      <3>1. CASE \A i \in 1 .. Len(t) : t[i] \in Alphabet
        <4>1. t \in Seq(Alphabet)
          BY <3>1
        <4>2. Encoded(t) = t
          BY <3>1, Zenon DEF Encoded
        <4> QED
          BY <4>1, <4>2, LettersStay
      <3>2. CASE ~ \A i \in 1 .. Len(t) : t[i] \in Alphabet
        <4>1. Encoded(t) = ReplacedOther(Passes(t, Codes))
          BY <3>2, Zenon DEF Encoded
        <4> QED
          BY <2>1, <4>1, OtherStays
      <3> QED
        BY <3>1, <3>2
    <2>3. IsPrefix(Encoded(t), RowMatchName(n)) <=> Begins(RowMatchName(Joined(t)), RowMatchName(n))
      BY <1>0, <2>1, <2>2, PrefixIs
    <2>4. IsPrefix(Joined(t), n) <=> Begins(Joined(t), n)
      BY <2>1, PrefixIs
    <2>5. Begins(RowMatchName(Joined(t)), RowMatchName(n)) <=> Begins(Joined(t), n)
      BY <2>1, NamesAgree
    <2> QED
      BY <2>3, <2>4, <2>5, Zenon
  <1>2. CASE t \notin Seq(Coded)
    <2>1. Joined(t) \in Seq(Symbols) /\ t \in Seq(Elem)
      <3>1. Symbols \subseteq Elem
        BY Zenon DEF Symbols, Elem
      <3> QED
        BY <3>1, JoinedType
    <2>2. n \in Seq(Symbols \cup Coded) /\ Joined(t) \in Seq(Symbols \cup Coded)
      BY <2>1
    <2>3. ~ IsPrefix(Joined(t), n)
      <3>1. ASSUME IsPrefix(Joined(t), n) PROVE FALSE
        <4>1. Begins(Joined(t), n)
          BY <2>2, <3>1, PrefixIs
        <4>2. Joined(t) \in Seq(Coded)
          BY <2>1, <4>1, BeginsInto
        <4> QED
          BY <1>2, <4>2, JoinedShows
      <3> QED
        BY <3>1
    <2>4. ~ IsPrefix(Encoded(t), RowMatchName(n))
      <3>1. Encoded(t) = ReplacedOther(Passes(t, Codes))
        <4>1. (\A i \in 1 .. Len(t) : t[i] \in Alphabet) => t \in Seq(Alphabet)
          OBVIOUS
        <4>2. t \notin Seq(Alphabet)
          BY <1>2 DEF Coded
        <4> QED
          BY <4>1, <4>2, Zenon DEF Encoded
      <3>2. Passes(t, Codes) \in Seq(Elem)
        <4>1. PICK f : PassedUpto(f, t) /\ Passes(t, Codes) = f[31]
          BY <2>1, PassesIs
        <4>2. 31 \in 0 .. 31
          OBVIOUS
        <4> QED
          BY <4>1, <4>2 DEF PassedUpto
      <3>3. Encoded(t) \in Seq(Elem)
        BY <3>1, <3>2, OtherPieces
      <3>4. ASSUME IsPrefix(Encoded(t), RowMatchName(n)) PROVE FALSE
        <4>1. RowMatchName(n) \in Seq(Elem)
          BY <1>0 DEF Elem
        <4>2. Begins(Encoded(t), RowMatchName(n))
          BY <3>3, <3>4, <4>1, PrefixIs
        <4>3. Encoded(t) \in Seq(Known)
          BY <1>0, <3>3, <4>2, BeginsInto
        <4>4. Passes(t, Codes) \in Seq(Known)
          BY <3>1, <3>2, <4>3, OtherShows
        <4> QED
          BY <1>2, <4>4, PassesShow
      <3> QED
        BY <3>4
    <2> QED
      BY <2>3, <2>4
  <1> QED
    BY <1>1, <1>2

LEMMA TrimmedType ==
  ASSUME NEW E, NEW text \in Seq(E) PROVE Trimmed(text) \in Seq(E)
  <1> DEFINE n == Len(text)
             kept == {i \in 1 .. n : text[i] # Blank}
  <1>1. Trimmed(text) = IF kept = {} THEN << >> ELSE SubSeq(text, Min(kept), Max(kept))
    BY Zenon DEF Trimmed, Blank
  <1>2. n \in Nat /\ kept \subseteq 1 .. n
    OBVIOUS
  <1>3. \A a, b \in 1 .. n : SubSeq(text, a, b) \in Seq(E)
    OBVIOUS
  <1> HIDE DEF n, kept
  <1>4. CASE kept = {}
    BY <1>1, <1>4, EmptySeq
  <1>5. CASE kept # {}
    <2>1. PICK x \in kept : \A y \in kept : x <= y
      <3>1. kept \subseteq Nat
        BY <1>2
      <3> QED
        BY <1>5, <3>1, Least
    <2>2. PICK z \in kept : \A y \in kept : z >= y
      <3> DEFINE S == {n - y : y \in kept}
      <3>1. S # {} /\ S \subseteq Nat
        BY <1>2, <1>5
      <3>2. PICK s \in S : \A v \in S : s <= v
        <4> HIDE DEF S
        <4> QED
          BY <3>1, Least
      <3>3. PICK w \in kept : s = n - w
        BY <3>2
      <3>4. \A y \in kept : n - w <= n - y
        BY <3>2, <3>3
      <3>5. \A y \in kept : w >= y
        BY <1>2, <3>4
      <3> QED
        BY <3>5
    <2>3. Min(kept) \in kept /\ Max(kept) \in kept
      BY <2>1, <2>2, Zenon DEF Min, Max
    <2> QED
      BY <1>1, <1>2, <1>3, <1>5, <2>3
  <1> QED
    BY <1>4, <1>5

(***************************************************************************)
(* What a search leaves to be seen.                                        *)
(***************************************************************************)

\* The names of rows have symbols that have codes, and nothing that is searched
\* for is itself a word for a code.
NamesCoded ==
  \A page \in Pages :
    /\ \A n \in DOMAIN page.parent :
         page.kind[n] = "SRResult" => page.name[n] \in Seq(Coded)
    /\ Queries[page] \subseteq Seq(Symbols)

\* Rows are shown that have an id which begins with the encoded text.
FindsRow(r) == Matches(r, Encoded(Trimmed(asked)))

SearchedInv ==
  /\ part = "results" => dom \in Pages
  /\ asked # NotYet =>
       /\ dom \in Pages /\ asked \in Queries[dom]
       /\ \A r \in Rows : display[r] = IF FindsRow(r) THEN "block" ELSE "none"
       /\ noMatches <=> \A r \in Rows : ~ FindsRow(r)

LEMMA SearchedStarts == Init => SearchedInv
  BY DEF Init, Loaded, Idle, ResultsInit, SearchedInv

LEMMA SearchSearches ==
  ASSUME RowsInv, dom \in Pages, part' = part, NEW text \in Queries[dom], ResultsSearch(text)
  PROVE  SearchedInv'
  <1> DEFINE e == Encoded(Trimmed(text))
             F(r) == Matches(r, e)
             M == {r \in Rows : F(r)}
  <1>1. /\ dom' = dom /\ asked' = text /\ noMatches' = (M = {})
        /\ display' = [n \in Nodes |-> IF n \notin Rows THEN display[n]
                                       ELSE IF n \in M THEN "block" ELSE "none"]
    BY Zenon DEF ResultsSearch
  <1>2. Rows' = Rows /\ Rows \subseteq Nodes
    BY <1>1, PageStays DEF Rows
  <1>3. \A r : FindsRow(r)' <=> F(r)
    BY <1>1, Zenon DEF FindsRow, Matches
  <1> HIDE DEF F
  <1>4. \A r \in Rows : display'[r] = IF F(r) THEN "block" ELSE "none"
    BY <1>1, <1>2, Zenon
  <1>5. noMatches' <=> \A r \in Rows : ~ F(r)
    BY <1>1, Zenon
  <1>6. /\ \A r \in Rows' : display'[r] = IF FindsRow(r)' THEN "block" ELSE "none"
        /\ noMatches' <=> \A r \in Rows' : ~ FindsRow(r)'
    BY <1>2, <1>3, <1>4, <1>5, Zenon
  <1> QED
    BY <1>1, <1>6, Zenon DEF SearchedInv

LEMMA SearchedStep == RowsInv /\ SearchedInv /\ [Next]_vars => SearchedInv'
  <1> SUFFICES ASSUME RowsInv, SearchedInv, [Next]_vars PROVE SearchedInv'
    OBVIOUS
  <1>1. part' = part /\ (UNCHANGED srVars \/ (part = "results" /\ ResultsNext))
    <2>1. CASE Menu \/ SearchField \/ Documentation
      <3>1. part' = part /\ srVars' = srVars
        BY <2>1 DEF Menu, SearchField, Documentation
      <3> QED
        BY <3>1, Zenon
    <2>2. CASE Results
      BY <2>2, Zenon DEF Results
    <2>3. CASE UNCHANGED vars
      <3>1. part' = part /\ srVars' = srVars
        BY <2>3 DEF vars
      <3> QED
        BY <3>1, Zenon
    <2> QED
      BY <2>1, <2>2, <2>3, Zenon DEF Next
  <1>2. ASSUME dom' = dom, asked' = asked, noMatches' = noMatches,
               \A r \in Rows : display'[r] = display[r]
        PROVE  SearchedInv'
    <2>1. Rows' = Rows
      BY <1>2, PageStays
    <2>2. \A r : FindsRow(r)' <=> FindsRow(r)
      BY <1>2, Zenon DEF FindsRow, Matches
    <2>3. asked # NotYet =>
            /\ \A r \in Rows' : display'[r] = IF FindsRow(r)' THEN "block" ELSE "none"
            /\ noMatches' <=> \A r \in Rows' : ~ FindsRow(r)'
      BY <1>2, <2>1, <2>2, Zenon DEF SearchedInv
    <2>4. /\ part = "results" => dom \in Pages
          /\ asked # NotYet => dom \in Pages /\ asked \in Queries[dom]
      BY Zenon DEF SearchedInv
    <2> QED
      BY <1>1, <1>2, <2>3, <2>4, Zenon DEF SearchedInv
  <1>3. CASE UNCHANGED srVars
    BY <1>2, <1>3 DEF srVars
  <1>4. CASE part = "results" /\ ResultsNext
    <2>1. ASSUME NEW row \in Rows, Toggle(row) PROVE SearchedInv'
      BY <1>2, <2>1 DEF Toggle
    <2>2. CASE ToggleLoop
      <3>1. /\ dom' = dom /\ asked' = asked /\ noMatches' = noMatches
            /\ display' = IF dom.kind[element] = "ISubIndex"
                          THEN [display EXCEPT ![element] = Flipped(@)] ELSE display
        BY <2>2 DEF ToggleLoop
      <3>2. \A r \in Rows : dom.kind[r] # "ISubIndex" /\ r \in Nodes
        BY DEF Rows
      <3>3. display = [n \in Nodes |-> display[n]]
        BY DEF RowsInv
      <3>4. \A r \in Rows : display'[r] = display[r]
        BY <3>1, <3>2, <3>3
      <3> QED
        BY <1>2, <3>1, <3>4
    <2>3. ASSUME NEW text \in Queries[dom], ResultsSearch(text) PROVE SearchedInv'
      BY <1>1, <1>4, <2>3, SearchSearches DEF SearchedInv
    <2> QED
      BY <1>4, <2>1, <2>2, <2>3 DEF ResultsNext
  <1> QED
    BY <1>1, <1>3, <1>4

LEMMA FoundAreNamed == NamesCoded /\ SearchedInv => RowsMatch
  <1> SUFFICES ASSUME NamesCoded, SearchedInv, asked # NotYet
               PROVE  /\ \A r \in Rows : (display[r] = "block") <=>
                                            IsPrefix(Spaced(asked), dom.name[r])
                      /\ noMatches <=> \A r \in Rows : display[r] = "none"
    BY Zenon DEF RowsMatch
  <1> DEFINE P(r) == IsPrefix(Spaced(asked), dom.name[r])
  <1>1. /\ dom \in Pages /\ asked \in Queries[dom]
        /\ \A r \in Rows : display[r] = IF FindsRow(r) THEN "block" ELSE "none"
        /\ noMatches <=> \A r \in Rows : ~ FindsRow(r)
    BY Zenon DEF SearchedInv
  <1>2. asked \in Seq(Symbols) /\ \A r \in Rows : dom.name[r] \in Seq(Coded)
    BY <1>1 DEF NamesCoded, Rows, Nodes
  <1>3. \A r \in Rows : FindsRow(r) <=> P(r)
    <2>1. ASSUME NEW r \in Rows PROVE FindsRow(r) <=> P(r)
      <3>1. Trimmed(asked) \in Seq(Symbols)
        BY <1>2, TrimmedType
      <3>2. IsPrefix(Encoded(Trimmed(asked)), RowMatchName(dom.name[r]))
              <=> IsPrefix(Joined(Trimmed(asked)), dom.name[r])
        BY <1>2, <3>1, EncodingAgrees
      <3>3. Spaced(asked) = Joined(Trimmed(asked))
        BY SpacedIs
      <3> QED
        BY <3>2, <3>3, Zenon DEF FindsRow, Matches
    <2> QED
      BY <2>1, Zenon
  <1> HIDE DEF P
  <1>4. "block" # "none"
    OBVIOUS
  <1>5. \A r \in Rows : /\ (display[r] = "block") <=> P(r)
                        /\ (display[r] = "none") <=> ~ P(r)
    BY <1>1, <1>3, <1>4, Zenon
  <1>6. noMatches <=> \A r \in Rows : display[r] = "none"
    BY <1>1, <1>3, <1>5, Zenon
  <1> QED
    BY <1>5, <1>6, Zenon DEF P

\* After a search the rows to be seen are those whose names begin with the text,
\* whatever the names and the text, although both are compared in an encoding:
\* the thirty-one replacements together encode symbol by symbol, and no two
\* names have encodings of which one begins with the other unless they do.
THEOREM RowsCorrect == ASSUME NamesCoded PROVE Spec => []RowsMatch
  <1>1. RowsInv /\ SearchedInv /\ [Next]_vars => (RowsInv /\ SearchedInv)'
    BY RowsInvStep, SearchedStep
  <1>2. Init => RowsInv /\ SearchedInv
    BY RowsInvStarts, SearchedStarts
  <1>3. RowsInv /\ SearchedInv => RowsMatch
    BY FoundAreNamed
  <1> QED
    BY <1>1, <1>2, <1>3, PTL DEF Spec

(***************************************************************************)
(* Types of all variables.                                                 *)
(***************************************************************************)

\* A panel with fields of the right types, and n timers that can no longer be
\* cleared.
WellTyped(p, n) == /\ IsPanel(p) /\ p.stray = n
               /\ p.field \in Texts \cup {Prompt} /\ p.topic \in Topics
               /\ p.active \in BOOLEAN /\ p.popup \in BOOLEAN
               /\ p.keyTimeout \in BOOLEAN /\ p.inactivateTimeout \in BOOLEAN

LEMMA SearchTyped ==
  ASSUME NEW p, NEW n, WellTyped(p, n) PROVE WellTyped(AfterSearch(p), n)
  BY DEF WellTyped, AfterSearch, IsPanel, PanelFields

LEMMA ChangeTyped ==
  ASSUME NEW p, NEW n, WellTyped(p, n) PROVE WellTyped(OnSearchFieldChange(p), n)
  <1> DEFINE changed == Changed(Squeeze(p.field), p.lastSearchValue)
             empty   == Squeeze(p.field) = << >>
  <1>1. CASE ~changed
    BY <1>1 DEF OnSearchFieldChange, WellTyped, IsPanel, PanelFields
  <1>2. CASE changed /\ ~empty
    BY <1>2 DEF OnSearchFieldChange, WellTyped, IsPanel, PanelFields
  <1>3. CASE changed /\ empty
    BY <1>3 DEF OnSearchFieldChange, WellTyped, IsPanel, PanelFields
  <1> QED
    BY <1>1, <1>2, <1>3

LEMMA ActivateTyped ==
  ASSUME NEW p, NEW n, WellTyped(p, n), NEW isActive \in BOOLEAN, NEW ignore \in BOOLEAN
  PROVE  WellTyped(Activate(p, isActive, ignore), n)
  <1>1. WellTyped(Activated(p), n)
    BY TextsAssumption DEF Activated, WellTyped, IsPanel, PanelFields
  <1>2. WellTyped(Reset(p), n) /\ WellTyped(Deactivating(p), n)
    BY DEF Reset, Deactivating, WellTyped, IsPanel, PanelFields
  <1> QED
    BY <1>1, <1>2 DEF Activate

PanelTypes == /\ \E n \in 0 .. MaxStray : WellTyped(panel, n)
              /\ focus \in Controls \cup {"other"}

LEMMA PanelTypesStart == PanelInit => PanelTypes
  BY BoundAssumption, TopicsAssumption
     DEF PanelInit, PanelTypes, WellTyped, IsPanel, PanelFields

LEMMA PanelTypesStep == PanelTypes /\ (PanelNext \/ UNCHANGED panelVars) => PanelTypes'
  <1> SUFFICES ASSUME PanelTypes, PanelNext \/ UNCHANGED panelVars PROVE PanelTypes'
    OBVIOUS
  <1>0. PICK n \in 0 .. MaxStray : WellTyped(panel, n)
    BY DEF PanelTypes
  <1>1. focus \in Controls \cup {"other"} /\ MaxStray \in Nat
    BY BoundAssumption DEF PanelTypes
  <1>2. ASSUME NEW m \in 0 .. MaxStray, WellTyped(panel', m), UNCHANGED focus
        PROVE  PanelTypes'
    BY <1>1, <1>2 DEF PanelTypes
  <1>3. ASSUME NEW p, NEW m, NEW k, WellTyped(p, m)
        PROVE  WellTyped([p EXCEPT !.stray = k], k)
    BY <1>3 DEF WellTyped, IsPanel, PanelFields
  <1>4. ASSUME NEW to \in Controls \cup {"other"}, FocusMoves(to) PROVE PanelTypes'
    <2>1. WellTyped(Blurred(panel), n)
      BY <1>0, ActivateTyped DEF Blurred
    <2>2. WellTyped(Activate(Blurred(panel), TRUE, FALSE), n)
      BY <2>1, ActivateTyped
    <2> QED
      BY <1>4, <2>1, <2>2 DEF FocusMoves, PanelTypes
  <1>5. ASSUME NEW text \in Texts, KeyUp(text) PROVE PanelTypes'
    <2> DEFINE typed == [panel EXCEPT !.field = text]
    <2>1. WellTyped(typed, n)
      BY <1>0 DEF WellTyped, IsPanel, PanelFields
    <2> HIDE DEF typed
    <2>2. WellTyped(OnSearchFieldChange(typed), n)
      BY <2>1, ChangeTyped
    <2> QED
      BY <1>2, <1>5, <2>2 DEF KeyUp, typed
  <1>6. ASSUME NEW topic \in Topics, ChooseType(topic) PROVE PanelTypes'
    <2> DEFINE chosen == [panel EXCEPT !.topic = topic]
               k == IF panel.keyTimeout THEN AfterSearch(chosen).stray + 1
                    ELSE AfterSearch(chosen).stray
    <2>1. WellTyped(chosen, n)
      BY <1>0 DEF WellTyped, IsPanel, PanelFields
    <2>2. panel' \in {chosen, [AfterSearch(chosen) EXCEPT !.stray = k]}
          /\ UNCHANGED focus
          /\ (panel.keyTimeout => panel.stray < MaxStray)
      BY <1>6 DEF ChooseType
    <2> HIDE DEF chosen
    <2>3. WellTyped(AfterSearch(chosen), n)
      BY <2>1, SearchTyped
    <2>4. WellTyped([AfterSearch(chosen) EXCEPT !.stray = k], k)
      BY <1>3, <2>3
    <2>5. AfterSearch(chosen).stray = n /\ panel.stray = n
      BY <1>0, <2>3 DEF WellTyped
    <2>6. k \in 0 .. MaxStray
      <3>1. panel.keyTimeout => n < MaxStray
        BY <2>2, <2>5
      <3> QED
        BY <1>1, <2>5, <3>1
    <2> HIDE DEF k
    <2> QED
      BY <1>2, <2>1, <2>2, <2>4, <2>6
  <1>7. CASE KeyTimeout
    BY <1>0, <1>2, <1>7, SearchTyped DEF KeyTimeout
  <1>8. CASE StrayTimeout
    <2> DEFINE searched == AfterSearch(panel)
               k == IF panel.keyTimeout THEN searched.stray ELSE searched.stray - 1
    <2>1. WellTyped(searched, n)
      BY <1>0, SearchTyped
    <2>2. panel' = [searched EXCEPT !.stray = k] /\ UNCHANGED focus /\ panel.stray > 0
      BY <1>8 DEF StrayTimeout
    <2> HIDE DEF searched
    <2>3. WellTyped([searched EXCEPT !.stray = k], k)
      BY <1>3, <2>1
    <2>4. searched.stray = n /\ panel.stray = n
      BY <1>0, <2>1 DEF WellTyped
    <2>5. k \in 0 .. MaxStray
      BY <1>1, <2>2, <2>4
    <2> HIDE DEF k
    <2> QED
      BY <1>2, <2>2, <2>3, <2>5
  <1>9. CASE InactivateTimeout
    <2>1. WellTyped(Reset(panel), n)
      BY <1>0 DEF Reset, WellTyped, IsPanel, PanelFields
    <2> QED
      BY <1>2, <1>9, <2>1 DEF InactivateTimeout
  <1>10. CASE CloseResultsWindow
    <2> DEFINE closed == [panel EXCEPT !.popup = FALSE]
    <2>1. WellTyped(closed, n)
      BY <1>0 DEF WellTyped, IsPanel, PanelFields
    <2> HIDE DEF closed
    <2>2. WellTyped(Activate(closed, FALSE, TRUE), n)
      BY <2>1, ActivateTyped
    <2> QED
      BY <1>2, <1>10, <2>2 DEF CloseResultsWindow, closed
  <1>11. CASE Browse \/ FrameCommits \/ FrameScript \/ UNCHANGED panelVars
    BY <1>0, <1>2, <1>11 DEF Browse, FrameCommits, FrameScript, panelVars
  <1> QED
    BY <1>4, <1>5, <1>6, <1>7, <1>8, <1>9, <1>10, <1>11
       DEF PanelNext, Reader, Timers, Frame

BoxTypes == /\ docWidth \in Widths
            /\ hooked \in BOOLEAN /\ resizeTimer \in BOOLEAN
            /\ boxWidth \in [Boxes -> Widths \cup {1}]

LEMMA BoxTypesStart == Init => BoxTypes
  <1> SUFFICES ASSUME Init PROVE BoxTypes
    OBVIOUS
  <1>1. docWidth \in Widths
    BY WidthsAssumption DEF Init
  <1>2. hooked = FALSE /\ resizeTimer = FALSE /\ boxWidth \in [Boxes -> Widths \cup {1}]
    <2>1. CASE part = "doc"
      <3>1. hooked = FALSE /\ resizeTimer = FALSE /\ boxWidth \in [Boxes -> Widths]
        BY <2>1 DEF Init, Loaded, BoxesInit
      <3> QED
        BY <3>1
    <2>2. CASE part # "doc"
      <3>1. hooked = FALSE /\ resizeTimer = FALSE /\ boxWidth = [b \in Boxes |-> 1]
        BY <2>2 DEF Init, Idle
      <3> QED
        BY <3>1
    <2> QED
      BY <2>1, <2>2
  <1> QED
    BY <1>1, <1>2 DEF BoxTypes

LEMMA BoxTypesStep ==
  BoxTypes /\ (BoxesNext \/ UNCHANGED <<pageVars, boxVars>>) => BoxTypes'
  <1> SUFFICES ASSUME BoxTypes, BoxesNext \/ UNCHANGED <<pageVars, boxVars>>
               PROVE  BoxTypes'
    OBVIOUS
  <1>1. ASSUME NDDoResize, docWidth' = docWidth, hooked' \in BOOLEAN PROVE BoxTypes'
    <2>1. boxWidth' = [b \in Boxes |-> docWidth] /\ resizeTimer' = FALSE
      BY <1>1, NarrowedFits DEF NDDoResize, BoxTypes
    <2> QED
      BY <1>1, <2>1 DEF BoxTypes
  <1>2. CASE NDOnLoad
    BY <1>1, <1>2 DEF NDOnLoad, pageVars
  <1>3. CASE ResizeTimeout
    BY <1>1, <1>3 DEF ResizeTimeout, pageVars, BoxTypes
  <1>4. CASE NDOnResize
    BY <1>4 DEF NDOnResize, BoxTypes
  <1>5. CASE UNCHANGED <<pageVars, boxVars>>
    BY <1>5 DEF pageVars, boxVars, BoxTypes
  <1> QED
    BY <1>2, <1>3, <1>4, <1>5 DEF BoxesNext

\* The number of matches: that of some of the rows.
MatchesInv == lastMatchCount \in 0 .. Cardinality(Rows)

LEMMA MatchesStep == RowsInv /\ MatchesInv /\ [Next]_vars => MatchesInv'
  <1> SUFFICES ASSUME RowsInv, MatchesInv, ResultsNext \/ UNCHANGED srVars
               PROVE  MatchesInv'
    BY ResultsSteps
  <1>1. dom' = dom
    BY DEF ResultsNext, Toggle, ToggleLoop, ResultsSearch, srVars
  <1>2. Rows' = Rows
    BY <1>1, PageStays
  <1>3. ASSUME NEW text, ResultsSearch(text) PROVE MatchesInv'
    <2>1. PICK M \in SUBSET Rows : lastMatchCount' = Cardinality(M)
      BY <1>3 DEF ResultsSearch
    <2>2. IsFiniteSet(Rows)
      <3>1. IsFiniteSet(Nodes) /\ Rows \subseteq Nodes
        BY DEF RowsInv, Dom, Nodes, Rows
      <3> QED
        BY <3>1, FS_Subset
    <2>3. /\ Cardinality(M) \in Nat /\ Cardinality(Rows) \in Nat
          /\ Cardinality(M) <= Cardinality(Rows)
      BY <2>1, <2>2, FS_Subset, FS_CardinalityType
    <2> QED
      BY <1>2, <2>1, <2>3 DEF MatchesInv
  <1>4. ASSUME lastMatchCount' = lastMatchCount PROVE MatchesInv'
    BY <1>2, <1>4 DEF MatchesInv
  <1> QED
    BY <1>3, <1>4 DEF ResultsNext, Toggle, ToggleLoop, srVars

LEMMA MatchesStart == Init => MatchesInv
  <1> SUFFICES ASSUME Init PROVE MatchesInv
    OBVIOUS
  <1>1. lastMatchCount = 0
    BY DEF Init, Loaded, Idle, ResultsInit
  <1>2. IsFiniteSet(Rows)
    <2>1. IsFiniteSet(Nodes) /\ Rows \subseteq Nodes
      BY RowsInvStarts DEF RowsInv, Dom, Nodes, Rows
    <2> QED
      BY <2>1, FS_Subset
  <1>3. Cardinality(Rows) \in Nat
    BY <1>2, FS_CardinalityType
  <1> QED
    BY <1>1, <1>3 DEF MatchesInv

Types == /\ part \in Parts /\ open \subseteq 1 .. Groups
         /\ PanelTypes /\ TipsInv /\ BoxTypes /\ RowsInv /\ MatchesInv

LEMMA HiddenAreGroups ==
  ASSUME NEW ids, NEW max
  PROVE  HideAllBut(ids, max) \subseteq 1 .. max - 1
  BY DEF HideAllBut

LEMMA TypesStart == Init => Types
  <1> SUFFICES ASSUME Init PROVE Types
    OBVIOUS
  <1>1. part \in Parts
    BY DEF Init
  <1>2. open \subseteq 1 .. Groups
    <2>1. CASE part = "menu"
      <3>1. open = HideAllBut(<< >>, Groups + 1)
        BY <2>1 DEF Init, Loaded, MenuInit
      <3>2. HideAllBut(<< >>, Groups + 1) \subseteq 1 .. (Groups + 1) - 1
        BY HiddenAreGroups
      <3>3. 1 .. (Groups + 1) - 1 = 1 .. Groups
        BY GroupsAssumption
      <3> QED
        BY <3>1, <3>2, <3>3
    <2>2. CASE part # "menu"
      BY <2>2 DEF Init, Idle
    <2> QED
      BY <2>1, <2>2
  <1> QED
    BY <1>1, <1>2, Starts, PanelTypesStart, TipsInvStarts, BoxTypesStart,
       RowsInvStarts, MatchesStart DEF Types

LEMMA TypesStep == Types /\ [Next]_vars => Types'
  <1> SUFFICES ASSUME Types, [Next]_vars PROVE Types'
    OBVIOUS
  <1>1. part' = part
    BY DEF Next, vars, Menu, SearchField, Documentation, Results
  <1>2. MenuNext \/ UNCHANGED open
    BY DEF Next, vars, Menu, SearchField, Documentation, Results
  <1>3. open' \subseteq 1 .. Groups
    BY <1>2 DEF Types, MenuNext, ToggleMenu
  <1> QED
    BY <1>1, <1>3, PanelSteps, PanelTypesStep, TipSteps, TipsInvStep, BoxSteps,
       BoxTypesStep, RowsInvStep, MatchesStep DEF Types

\* The variables of every part keep their types; in particular no more than
\* MaxStray timers get lost, and what a search counts is rows.
THEOREM TypeCorrect == Spec => []TypeOK
  <1>1. Types => TypeOK
    <2> SUFFICES ASSUME Types PROVE TypeOK
      OBVIOUS
    <2>1. PanelTypeOK
      BY DEF Types, PanelTypes, WellTyped, PanelTypeOK
    <2>2. TipsTypeOK
      BY DEF Types, TipsInv, TipsTypeOK
    <2>3. ResultsTypeOK
      BY DEF Types, RowsInv, MatchesInv, ResultsTypeOK, Shown, Rows
    <2> QED
      BY <2>1, <2>2, <2>3 DEF Types, BoxTypes, TypeOK
  <1> QED
    BY <1>1, TypesStart, TypesStep, PTL DEF Spec
=============================================================================
