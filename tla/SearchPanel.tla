---------------------------- MODULE SearchPanel -----------------------------
(***************************************************************************)
(* The search panel of the menu page (class SearchPanel of main.js): a     *)
(* text field, a choice of topic, timers, and the frame the results are    *)
(* shown in, which loads its pages asynchronously.                         *)
(*                                                                         *)
(* A handler runs to its end before anything else happens.  A blur and the *)
(* focus it gives way to are one event.  A text is a sequence of symbols.  *)
(***************************************************************************)
EXTENDS ViewerPage, SearchData, SequencesExt

CONSTANTS Texts,        \* what the reader types, the empty text included
          Prompt,       \* the text "Search", shown while the panel is inactive
          Topics,       \* the topics the reader chooses from
          Entries,      \* [Topics -> set of texts]: the entries of the index
          NoPage,       \* lastResultsPage = ""
          NoResults,    \* NoResults.html
          OtherPage,    \* a page of the frame that is no page of results
          MaxStray      \* bound: searches whose timer can no longer be cleared

ASSUME TextsAssumption == << >> \in Texts /\ Texts \cup {Prompt} \subseteq Seq(STRING)
ASSUME TopicsAssumption ==
  "General" \in Topics /\ Topics \subseteq DOMAIN indexSectionsWithContent
ASSUME FramePagesAssumption ==
  /\ NoPage # NoResults /\ OtherPage \notin {NoPage, NoResults}
  /\ \A topic \in Topics : \A section \in indexSectionsWithContent[topic] :
       <<topic, section>> \notin {NoPage, NoResults, OtherPage}
ASSUME BoundAssumption == MaxStray \in Nat

VARIABLES panel,   \* the object and the elements of the page it works on
          focus,   \* the control that has the focus, or "other"
          frame,   \* the document in the results frame
          coming,  \* the document the frame is going to load
          misled,  \* history: the last search was made in a document on its way out
          astray   \* history: the reader has followed a link from NoResults.html,
                   \* and the panel has not sent the frame anywhere since

panelVars == <<panel, focus, frame, coming, misled, astray>>

Controls == {"field", "type"}

-----------------------------------------------------------------------------
(***************************************************************************)
(* Texts and pages.                                                        *)
(***************************************************************************)

\* replace(/ +/g, "") and replace(/^ +/, "")
Squeeze(text) ==
  LET upTo[i \in 0 .. Len(text)] ==
        IF i = 0 THEN << >>
        ELSE IF text[i] = " " THEN upTo[i - 1] ELSE Append(upTo[i - 1], text[i])
  IN  upTo[Len(text)]

TrimLeft(text) ==
  LET start == SelectInSeq(text, LAMBDA s : s # " ")
  IN  IF start = 0 THEN << >> ELSE SubSeq(text, start, Len(text))

\* substr(0, 1) and its class; letters have no case here.
PageExtension(text) ==
  LET first == text[1]
  IN  CASE text # << >> /\ first \in Letters               -> first
        [] text # << >> /\ first \in {"0", "1"}             -> "Numbers"
        [] text = << >> \/ first \notin Letters \cup {"0", "1"} -> "Symbols"

ResultsPage(topic, text) ==
  IF PageExtension(text) \in indexSectionsWithContent[topic]
  THEN <<topic, PageExtension(text)>> ELSE NoResults

\* Whether the page for a text, searched for it, finds an entry.
Found(page, text) ==
  \E e \in Entries[page[1]] : PageExtension(e) = page[2] /\ IsPrefix(text, e)

\* The reader does not type the prompt itself, with or without spaces.
ASSUME PromptAssumption ==
  Prompt # << >> /\ \A text \in Texts : Squeeze(text) # Squeeze(Prompt)

-----------------------------------------------------------------------------
(***************************************************************************)
(* The results frame.  A page of results has a searchResults object once   *)
(* its script has run.  In Internet Explorer a document in which a search  *)
(* found nothing shows nothing any more.                                   *)
(***************************************************************************)
Document(page, query) ==
  [page |-> page, query |-> query, ready |-> page \in {NoResults, OtherPage},
   shown |-> << >>, lastMatch |-> FALSE, stuck |-> FALSE]

\* That no document is coming can be told from one.
ASSUME NoPageAssumption ==
  \A topic \in Topics, text \in Texts \cup {Prompt} :
    LET query == TrimLeft(text)
    IN  Document(ResultsPage(topic, query), query) # NoPage

HasSearchResults(doc) == doc.ready /\ doc.page \notin {NoResults, OtherPage}

\* SearchResults.Search takes the query of the page for an empty text.
Searched(doc, text) ==
  LET search == IF text = << >> THEN doc.query ELSE text
      found  == Found(doc.page, search)
  IN  [doc EXCEPT !.ready = TRUE, !.shown = search, !.lastMatch = found,
                  !.stuck = @ \/ (BrowserType(agent) = "IE" /\ ~found)]

\* location.href = ...  The old document stays in place until the new one
\* arrives, and the frame gives up one that was still to come.
GoTo(page, query) == /\ coming' = Document(page, query)
                     /\ misled' = FALSE /\ astray' = FALSE
                     /\ UNCHANGED frame

InFrame(text) == /\ frame' = Searched(frame, text)
                 /\ misled' = (coming # NoPage)
                 /\ UNCHANGED <<coming, astray>>

\* Variant: the clause for Internet Explorer is missing.
MustReloadNever == FALSE

\* The bug in IE.
MustReload == /\ BrowserType(agent) = "IE"
              /\ ~HasSearchResults(frame) \/ ~frame.lastMatch

\* Variant: a page that has not finished loading is left alone.
AskAgainLater(page, text) ==
  IF HasSearchResults(frame) THEN InFrame(text)
  ELSE UNCHANGED <<frame, coming, misled, astray>>

AskAgain(page, text) ==
  IF HasSearchResults(frame) THEN InFrame(text)
  ELSE GoTo(page, text)

-----------------------------------------------------------------------------
(***************************************************************************)
(* Activation.                                                             *)
(***************************************************************************)
Reset(p) ==
  [p EXCEPT !.inactivateTimeout = FALSE, !.active = FALSE, !.field = Prompt,
            !.lastSearchValue = << >>, !.lastResultsPage = NoPage]

\* Variant: activating leaves the pending inactivation alone.
ActivatedStillPending(p) ==
  [p EXCEPT !.active = TRUE, !.field = IF @ = Prompt THEN << >> ELSE @]

Activated(p) ==
  [p EXCEPT !.inactivateTimeout = FALSE, !.active = TRUE,
            !.field = IF @ = Prompt THEN << >> ELSE @]

\* Variant: only CloseResultsWindow deactivates.
DeactivatingNever(p) == p

\* The length of this timeout is never set (the constructor sets
\* deactivateTimeoutLength instead), so it is zero.
Deactivating(p) == [p EXCEPT !.inactivateTimeout = TRUE]

Activate(p, isActive, ignoreDeactivateDelay) ==
  CASE isActive \/ (mode = "HTML" /\ p.popup) -> Activated(p)
    [] ~(isActive \/ (mode = "HTML" /\ p.popup)) ->
         IF ignoreDeactivateDelay THEN Reset(p) ELSE Deactivating(p)

\* onblur and onfocus of the page: the control the focus leaves comes first.
Blurred(p) == IF focus \in Controls THEN Activate(p, FALSE, FALSE) ELSE p

\* A timeout of zero passes before the reader does anything else.
ReaderActs == ~panel.inactivateTimeout

FocusMoves(to) ==
  /\ ReaderActs /\ focus # to
  /\ focus' = to
  /\ panel' = IF to \in Controls THEN Activate(Blurred(panel), TRUE, FALSE)
              ELSE Blurred(panel)
  /\ UNCHANGED <<frame, coming, misled, astray>>

InactivateTimeout ==
  /\ panel.inactivateTimeout
  /\ panel' = Reset(panel)
  /\ UNCHANGED <<focus, frame, coming, misled, astray>>

-----------------------------------------------------------------------------
(***************************************************************************)
(* Searching.                                                              *)
(***************************************************************************)

\* What Search leaves in the panel p it is called with.
AfterSearch(p) ==
  LET text == TrimLeft(p.field)
  IN  [p EXCEPT !.keyTimeout = FALSE,
                !.popup = mode = "HTML",
                !.lastSearchValue = text,
                !.lastResultsPage = ResultsPage(p.topic, text)]

\* Variant: the page searched last is not compared with the new one.
SamePageAlways(p, page) == p.lastResultsPage # NoPage

SamePage(p, page) == page = p.lastResultsPage

Search(p) ==
  LET text == TrimLeft(p.field)
      page == ResultsPage(p.topic, text)
  IN  CASE ~SamePage(p, page) \/ (page # NoResults /\ MustReload) ->
             GoTo(page, text)
        [] SamePage(p, page) /\ page # NoResults /\ ~MustReload ->
             AskAgain(page, text)
        [] SamePage(p, page) /\ page = NoResults ->
             UNCHANGED <<frame, coming, misled, astray>>

\* Variant: a text that differs from the last one only at its end is not
\* searched for.
ChangedBeginning(text, last) == ~IsPrefix(last, text)

Changed(text, last) == text # last

OnSearchFieldChange(p) ==
  LET text == Squeeze(p.field)
  IN  CASE ~Changed(text, p.lastSearchValue) -> [p EXCEPT !.keyTimeout = FALSE]
        [] Changed(text, p.lastSearchValue) /\ text # << >> ->
             [p EXCEPT !.keyTimeout = TRUE]
        [] Changed(text, p.lastSearchValue) /\ text = << >> ->
             [p EXCEPT !.keyTimeout = FALSE, !.popup = FALSE,
                       !.lastSearchValue = << >>]

\* A key goes up in the field; the text may be the same as before.
KeyUp(text) ==
  /\ ReaderActs /\ focus = "field"
  /\ panel' = OnSearchFieldChange([panel EXCEPT !.field = text])
  /\ UNCHANGED <<focus, frame, coming, misled, astray>>

\* OnSearchTypeChange searches at once.  A timer that is still pending from
\* the field is forgotten, not cleared.
ChooseType(topic) ==
  /\ ReaderActs /\ focus = "type" /\ topic # panel.topic
  /\ panel.keyTimeout => panel.stray < MaxStray
  /\ LET chosen == [panel EXCEPT !.topic = topic]
     IN  IF Squeeze(panel.field) # << >>
         THEN /\ panel' = [AfterSearch(chosen) EXCEPT
                             !.stray = IF panel.keyTimeout THEN @ + 1 ELSE @]
              /\ Search(chosen)
         ELSE panel' = chosen /\ UNCHANGED <<frame, coming, misled, astray>>
  /\ UNCHANGED focus

KeyTimeout == /\ panel.keyTimeout
              /\ panel' = AfterSearch(panel)
              /\ Search(panel)
              /\ UNCHANGED focus

\* A forgotten timer fires; Search forgets the handle of a later one with it.
StrayTimeout ==
  /\ panel.stray > 0
  /\ panel' = [AfterSearch(panel) EXCEPT
                 !.stray = IF panel.keyTimeout THEN @ ELSE @ - 1]
  /\ Search(panel)
  /\ UNCHANGED focus

CloseResultsWindow ==
  /\ ReaderActs /\ focus = "other" /\ panel.popup
  /\ panel' = Activate([panel EXCEPT !.popup = FALSE], FALSE, TRUE)
  /\ UNCHANGED <<focus, frame, coming, misled, astray>>

\* The reader follows a link in the frame, which the panel does not learn.
Browse == /\ ReaderActs /\ focus = "other" /\ mode = "FramedHTML"
          /\ frame' = Document(OtherPage, << >>)
          /\ coming' = NoPage
          /\ astray' = (panel.lastResultsPage = NoResults)
          /\ UNCHANGED <<panel, focus, misled>>

FrameCommits == /\ coming # NoPage
                /\ frame' = coming
                /\ coming' = NoPage
                /\ UNCHANGED <<panel, focus, misled, astray>>

\* The script at the end of a page of results.
FrameScript == /\ ~frame.ready
               /\ frame' = Searched(frame, frame.query)
               /\ UNCHANGED <<panel, focus, coming, misled, astray>>

-----------------------------------------------------------------------------
PanelInit ==
  /\ panel = [active |-> FALSE, field |-> Prompt, topic |-> "General",
              popup |-> FALSE, keyTimeout |-> FALSE, stray |-> 0,
              inactivateTimeout |-> FALSE, lastSearchValue |-> << >>,
              lastResultsPage |-> NoPage]
  /\ focus = "other"
  /\ frame = Document(OtherPage, << >>)
  /\ coming = NoPage
  /\ misled = FALSE /\ astray = FALSE

Reader == \/ \E to \in Controls \cup {"other"} : FocusMoves(to)
          \/ \E text \in Texts : KeyUp(text)
          \/ \E topic \in Topics : ChooseType(topic)
          \/ CloseResultsWindow
          \/ Browse

Timers == InactivateTimeout \/ KeyTimeout \/ StrayTimeout

Frame == FrameCommits \/ FrameScript

PanelNext == Reader \/ Timers \/ Frame

\* The event loop: as long as a timer or a page of the frame is due, one of them
\* gets its turn.
PanelFairness == WF_panelVars(Timers \/ Frame)

-----------------------------------------------------------------------------
(***************************************************************************)
(* Properties.                                                             *)
(***************************************************************************)
PanelTypeOK ==
  /\ focus \in Controls \cup {"other"}
  /\ panel.field \in Texts \cup {Prompt} /\ panel.topic \in Topics
  /\ panel.stray \in 0 .. MaxStray
  /\ {panel.active, panel.popup, panel.keyTimeout,
      panel.inactivateTimeout} \subseteq BOOLEAN

\* While one of its controls has the focus the panel is active and not about
\* to be reset, however the focus moved between them.
FocusKeepsPanel ==
  focus \in Controls => panel.active /\ ~panel.inactivateTimeout

\* The page for a text is in the frame, filtered by the text, with the entries
\* found to be seen.
ShowsPage(text) == /\ frame.page = ResultsPage(panel.topic, text)
                   /\ mode = "HTML" => panel.popup

ShowsEntries(text) ==
  LET page == ResultsPage(panel.topic, text)
  IN  page # NoResults => /\ frame.shown = text
                          /\ frame.stuck => ~Found(page, text)

\* The reader has gone on from NoResults.html, and the next text searched for
\* has no page either.
LeftAlone == /\ astray /\ frame.page = OtherPage
             /\ panel.lastResultsPage = NoResults

\* The frame shows what was searched for last, with two exceptions.  Search
\* compares the page it wants with the one it remembers, so that a text without
\* a page leaves the reader's page alone if the panel takes it for
\* NoResults.html.  And a search made in a document about to be replaced is
\* lost, since the test for a page that did not finish loading does not see that
\* one: the new page is the right one, but filtered by an older text.
FrameShows(text) == /\ LeftAlone \/ ShowsPage(text)
                    /\ misled \/ ShowsEntries(text)

Quiet == /\ ~panel.keyTimeout /\ panel.stray = 0 /\ ~panel.inactivateTimeout
         /\ frame.ready /\ coming = NoPage

\* With no timer pending and no page on its way, the frame shows the results
\* for the text in the field.  Texts that differ in spaces only count as one:
\* OnSearchFieldChange takes all spaces out before it compares.
ResultsForField ==
  Quiet /\ focus \in Controls /\ Squeeze(panel.field) # << >> =>
    /\ Squeeze(panel.lastSearchValue) = Squeeze(panel.field)
    /\ FrameShows(panel.lastSearchValue)

\* When the reader has left the panel and no results window is open, the
\* panel becomes inactive.
LeavingDeactivates ==
  focus = "other" /\ ~panel.popup ~>
    ~panel.active \/ focus # "other" \/ panel.popup

\* Once the reader rests, the results for the text in the field come up.
RestBringsResults ==
  <>[][Timers \/ Frame]_panelVars =>
    <>[](focus \in Controls /\ Squeeze(panel.field) # << >>
           => FrameShows(panel.lastSearchValue) /\ Quiet)
=============================================================================
