------------------------------- MODULE Viewer -------------------------------
(***************************************************************************)
(* The pages of the UVM class reference under docs/html and what main.js   *)
(* does in them.                                                           *)
(*                                                                         *)
(* A page that has been loaded runs one of four parts: the groups of the   *)
(* menu, the search panel, a page of documentation with its tooltips and   *)
(* blockquotes, a page of search results.  The menu page has the first two *)
(* of them; they share no state, so that a behaviour of one says all that  *)
(* a behaviour of both would.  Parts that do not run keep a fixed state.   *)
(***************************************************************************)
EXTENDS MenuGroups, SearchPanel, Tooltips, BlockquoteFix, SearchResults

CONSTANTS Settings,    \* the [agent, mode] a page may be loaded with
          Parts        \* the parts of the instance

ASSUME PartsAssumption == Parts \subseteq {"menu", "search", "doc", "results"}

VARIABLE part

vars == <<part, pageVars, open, panelVars, tipVars, boxVars, srVars>>

Idle(p) ==
  CASE p = "menu"    -> open = {}
    [] p = "search"  -> PanelInit
    [] p = "doc"     -> /\ TipsInit
                        /\ hooked = FALSE /\ resizeTimer = FALSE
                        /\ boxWidth = [b \in Boxes |-> 1]
    [] p = "results" -> /\ dom = [parent |-> [n \in {0} |-> Null],
                                  kind |-> [n \in {0} |-> "div"],
                                  name |-> [n \in {0} |-> << >>]]
                        /\ display = [n \in {0} |-> ""] /\ before = display
                        /\ element = Null /\ parentElement = Null
                        /\ lastMatchCount = 0 /\ noMatches = FALSE
                        /\ asked = NotYet

Loaded(p) ==
  CASE p = "menu"    -> MenuInit
    [] p = "search"  -> PanelInit
    [] p = "doc"     -> TipsInit /\ BoxesInit
    [] p = "results" -> ResultsInit

Init == /\ part \in Parts
        /\ \E s \in Settings : agent = s.agent /\ mode = s.mode
        /\ docWidth \in IF part = "doc" THEN Widths ELSE {CHOOSE w \in Widths : TRUE}
        /\ Loaded(part)
        /\ \A p \in {"menu", "search", "doc", "results"} \ {part} : Idle(p)

-----------------------------------------------------------------------------
Menu == /\ part = "menu"
        /\ MenuNext
        /\ UNCHANGED <<part, pageVars, panelVars, tipVars, boxVars, srVars>>

SearchField == /\ part = "search"
               /\ PanelNext
               /\ UNCHANGED <<part, pageVars, open, tipVars, boxVars, srVars>>

Documentation ==
  /\ part = "doc"
  /\ \/ TipsNext /\ UNCHANGED <<pageVars, boxVars>>
     \/ BoxesNext /\ UNCHANGED tipVars
  /\ UNCHANGED <<part, open, panelVars, srVars>>

Results == /\ part = "results"
           /\ ResultsNext
           /\ UNCHANGED <<part, pageVars, open, panelVars, tipVars, boxVars>>

Next == Menu \/ SearchField \/ Documentation \/ Results

Spec == /\ Init /\ [][Next]_vars
        /\ PanelFairness /\ TipsFairness /\ ResultsFairness

-----------------------------------------------------------------------------
\* The variables of every part have their types.
TypeOK == /\ part \in Parts
          /\ open \subseteq 1 .. Groups
          /\ PanelTypeOK
          /\ TipsTypeOK
          /\ {hooked, resizeTimer} \subseteq BOOLEAN
          /\ boxWidth \in [Boxes -> Widths \cup {1}]
          /\ ResultsTypeOK
=============================================================================
