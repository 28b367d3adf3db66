--------------------------- MODULE SearchResults ----------------------------
(***************************************************************************)
(* A page of search results (class SearchResults of main.js): the rows of  *)
(* an index, those that match a text shown, and below each row the places  *)
(* a symbol is found in, opened and closed by a click.                     *)
(*                                                                         *)
(* A text is a sequence of symbols; letters have no case.  Elements are    *)
(* numbered in document order, the element in which all rows are is 0.     *)
(***************************************************************************)
EXTENDS ViewerPage, SequencesExt, FiniteSetsExt

CONSTANTS Pages,      \* the pages: [parent, kind, name], see Dom
          Queries,    \* [Pages -> set of texts]: what is searched for in them
          NotYet      \* no search so far

Null == -1

Alphabet == {"A", "B", "C", "D", "E", "F", "G", "H", "I", "J", "K", "L", "M",
             "N", "O", "P", "Q", "R", "S", "T", "U", "V", "W", "X", "Y", "Z",
             "0", "1", "2", "3", "4", "5", "6", "7", "8", "9"}

\* The three letters that follow "_" in the code of a symbol, in the order of
\* the replacements; each stands here for one symbol.
Codes == << <<"_", "und">>, <<" ", "spc">>, <<"~", "til">>, <<"!", "exc">>,
            <<"@", "att">>, <<"#", "num">>, <<"$", "dol">>, <<"%", "pct">>,
            <<"^", "car">>, <<"&", "amp">>, <<"*", "ast">>, <<"(", "lpa">>,
            <<")", "rpa">>, <<"-", "min">>, <<"+", "plu">>, <<"=", "equ">>,
            <<"{", "lbc">>, <<"}", "rbc">>, <<"[", "lbk">>, <<"]", "rbk">>,
            <<":", "col">>, <<";", "sco">>, <<"quote", "quo">>, <<"apostrophe", "apo">>,
            <<"<", "lan">>, <<">", "ran">>, <<",", "com">>, <<".", "per">>,
            <<"?", "que">>, <<"/", "sla">>, <<"backquote", "tik">> >>

Kinds == {"SRResult", "ISubIndex", "div", "link"}

\* A page is a tree; a "link" stands for every element that is no DIV, texts
\* included.  name is the entry of a row.  In document order an element comes
\* after its parent, with nothing between them but what that parent contains.
Dom(page) == LET nodes == DOMAIN page.parent
             IN  /\ IsFiniteSet(nodes) /\ 0 \in nodes
                 /\ nodes = 0 .. Cardinality(nodes) - 1
                 /\ page.parent[0] = Null
                 /\ \A n \in nodes \ {0} : page.parent[n] \in 0 .. n - 1
                 /\ \A m, n \in nodes :
                      page.parent[n] < m /\ m < n => page.parent[n] <= page.parent[m]
                 /\ page.kind \in [nodes -> Kinds]

ASSUME PagesAssumption == /\ \A page \in Pages : Dom(page)
                          /\ DOMAIN Queries = Pages

VARIABLES dom,             \* the page
          display,         \* style.display of its elements, "" while not set
          element,         \* where the loop of Toggle is, or Null
          parentElement,   \* the row it was called for, or Null
          lastMatchCount, noMatches,
          asked,           \* history: the text searched for last
          before           \* history: display when Toggle was called

srVars == <<dom, display, element, parentElement, lastMatchCount, noMatches,
            asked, before>>

Nodes == DOMAIN dom.parent
IsDiv(n) == dom.kind[n] # "link"
Children(n) == {c \in Nodes : dom.parent[c] = n}
Rows == {n \in Nodes : dom.kind[n] = "SRResult"}

FirstOf(S) == IF S = {} THEN Null ELSE Min(S)
firstChild(n) == FirstOf(Children(n))
nextSibling(n) == FirstOf({s \in Children(dom.parent[n]) : s > n})

-----------------------------------------------------------------------------
(***************************************************************************)
(* Toggle.  Its loop takes one step per element.                           *)
(***************************************************************************)

\* Variant: the way up does not stop at the row.
ClimbPast(from) ==
  LET up[n \in Nodes \cup {Null}] ==
        IF n = Null THEN Null
        ELSE IF nextSibling(n) # Null THEN nextSibling(n)
        ELSE up[dom.parent[n]]
  IN  up[dom.parent[from]]

\* From an element without a next sibling: up until the row or an element with
\* one, and on to that.
Climb(from) ==
  LET up[n \in Nodes \cup {Null}] ==
        IF n = Null \/ n = parentElement THEN n
        ELSE IF nextSibling(n) # Null THEN nextSibling(n)
        ELSE up[dom.parent[n]]
  IN  up[dom.parent[from]]

\* Variant: an element that is entered is visited again on the way up.
SuccessorAgain(n) ==
  CASE IsDiv(n) /\ firstChild(n) # Null -> firstChild(n)
    [] ~(IsDiv(n) /\ firstChild(n) # Null) ->
         IF nextSibling(n) # Null THEN nextSibling(n) ELSE dom.parent[n]

Successor(n) ==
  CASE IsDiv(n) /\ firstChild(n) # Null -> firstChild(n)
    [] ~(IsDiv(n) /\ firstChild(n) # Null) ->
         IF nextSibling(n) # Null THEN nextSibling(n) ELSE Climb(n)

Walking == element # Null /\ element # parentElement

Flipped(d) == IF d = "block" THEN "none" ELSE "block"

Toggle(row) ==
  /\ mode = "HTML" /\ ~Walking
  /\ parentElement' = row
  /\ element' = firstChild(row)
  /\ before' = display
  /\ UNCHANGED <<dom, display, lastMatchCount, noMatches, asked>>

ToggleLoop ==
  /\ Walking
  /\ display' = IF dom.kind[element] = "ISubIndex"
                THEN [display EXCEPT ![element] = Flipped(@)] ELSE display
  /\ element' = Successor(element)
  /\ UNCHANGED <<dom, parentElement, lastMatchCount, noMatches, asked, before>>

-----------------------------------------------------------------------------
(***************************************************************************)
(* SearchResults.Search.                                                   *)
(***************************************************************************)
Trimmed(text) ==
  LET kept == {i \in 1 .. Len(text) : text[i] # " "}
  IN  IF kept = {} THEN << >> ELSE SubSeq(text, Min(kept), Max(kept))

\* Each symbol becomes a piece of the result; of a run of spaces the first.
Replaced(text, symbol, code) ==
  FlattenSeq([i \in 1 .. Len(text) |->
    CASE text[i] # symbol -> <<text[i]>>
      [] text[i] = symbol ->
           IF symbol = " " /\ i > 1 /\ text[i - 1] = " " THEN << >>
           ELSE <<"_", code>>])

Passes(text, codes) ==
  LET pass[i \in 0 .. Len(codes)] ==
        IF i = 0 THEN text ELSE Replaced(pass[i - 1], codes[i][1], codes[i][2])
  IN  pass[Len(codes)]

\* replace(/[^a-z0-9\_]i/gi, "_zzz"), as it stands: the symbol goes only with
\* an I after it, and takes the I along.
ReplacedOther(text) ==
  LET letters == Alphabet \cup {"_"} \cup {Codes[i][2] : i \in DOMAIN Codes}
      Goes(i) == /\ i < Len(text) /\ text[i] \notin letters
                 /\ text[i + 1] = "I"
  IN  FlattenSeq([i \in 1 .. Len(text) |->
        IF Goes(i) THEN <<"_", "zzz">>
        ELSE IF i > 1 /\ Goes(i - 1) THEN << >> ELSE <<text[i]>>])

\* Variant: the underscore is replaced after the other symbols.
EncodedUnderscoreLast(text) ==
  IF \A i \in 1 .. Len(text) : text[i] \in Alphabet THEN text
  ELSE ReplacedOther(Passes(text, Append(Tail(Codes), Head(Codes))))

Encoded(text) ==
  IF \A i \in 1 .. Len(text) : text[i] \in Alphabet THEN text
  ELSE ReplacedOther(Passes(text, Codes))

\* The id of a row without its SR_: what the generator of the pages makes of
\* the name, symbol by symbol.
RowMatchName(name) ==
  FlattenSeq([i \in 1 .. Len(name) |->
    IF name[i] \in Alphabet THEN <<name[i]>>
    ELSE <<"_", CHOOSE w \in {"zzz"} \cup {Codes[j][2] : j \in DOMAIN Codes} :
                  \/ \E j \in DOMAIN Codes : Codes[j] = <<name[i], w>>
                  \/ w = "zzz" /\ \A j \in DOMAIN Codes : Codes[j][1] # name[i]>>])

Matches(row, search) == IsPrefix(search, RowMatchName(dom.name[row]))

ResultsSearch(text) ==
  LET search   == Encoded(Trimmed(text))
      matching == {r \in Rows : Matches(r, search)}
  IN  /\ ~Walking
      /\ display' = [n \in Nodes |-> IF n \notin Rows THEN display[n]
                                     ELSE IF n \in matching THEN "block"
                                     ELSE "none"]
      /\ lastMatchCount' = Cardinality(matching)
      /\ noMatches' = (matching = {})
      /\ asked' = text
      /\ element' = Null /\ parentElement' = Null /\ before' = display'
      /\ UNCHANGED dom

-----------------------------------------------------------------------------
ResultsInit == /\ dom \in Pages
               /\ display = [n \in DOMAIN dom.parent |-> ""]
               /\ element = Null /\ parentElement = Null
               /\ lastMatchCount = 0 /\ noMatches = FALSE
               /\ asked = NotYet
               /\ before = display

ResultsNext == \/ \E row \in Rows : Toggle(row)
               \/ ToggleLoop
               \/ \E text \in Queries[dom] : ResultsSearch(text)

ResultsFairness == WF_srVars(ToggleLoop)

-----------------------------------------------------------------------------
(***************************************************************************)
(* Properties.                                                             *)
(***************************************************************************)
ResultsTypeOK == /\ display \in [Nodes -> {"", "block", "none"}]
                 /\ {element, parentElement} \subseteq Nodes \cup {Null}
                 /\ lastMatchCount \in 0 .. Cardinality(Rows)

\* The elements below a row that can be reached from it through DIVs alone.
Below(row) ==
  LET inside[n \in Nodes] ==
        n > row /\ \/ dom.parent[n] = row
                   \/ dom.parent[n] > row /\ IsDiv(dom.parent[n])
                                          /\ inside[dom.parent[n]]
  IN  {n \in Nodes : inside[n]}

\* However the elements of a page are nested, the loop turns each index below
\* the row over once, and nothing in other rows.
TogglesItsRow ==
  parentElement # Null /\ ~Walking =>
    \A n \in Nodes \ Rows :
      display[n] = IF n \in Below(parentElement) /\ dom.kind[n] = "ISubIndex"
                   THEN Flipped(before[n]) ELSE before[n]

\* The loop of Toggle ends.
WalkEnds == Walking ~> ~Walking

\* Spaces a reader sees no difference in.
Spaced(text) ==
  LET t == Trimmed(text)
  IN  FlattenSeq([i \in 1 .. Len(t) |->
        IF i > 1 /\ t[i] = " " /\ t[i - 1] = " " THEN << >> ELSE <<t[i]>>])

\* After a search the rows to be seen are those whose names begin with the
\* text, although texts and names are compared in an encoding, built up by
\* replacing one symbol after another in what earlier replacements made.
RowsMatch ==
  asked # NotYet =>
    /\ \A r \in Rows : (display[r] = "block") <=>
                          IsPrefix(Spaced(asked), dom.name[r])
    /\ noMatches <=> \A r \in Rows : display[r] = "none"
=============================================================================
