----------------------------- MODULE SearchView -----------------------------
(***************************************************************************)
(* Find in cells: the SearchViewProvider of the sidebar, the match finder  *)
(* and the webview script with its debounce (sidebar/search/*.ts).         *)
(*                                                                         *)
(* VS Code is external: it reports a change of the notebook, of the active *)
(* editor or of the selection some time after the change can be read, and  *)
(* destroys a hidden webview with its state and the messages to it.  A     *)
(* cell's text is how often each query occurs in it; the three toggles     *)
(* are part of the query.                                                  *)
(*                                                                         *)
(* RunSelectedOnly is a faulty variant of runIfReady; no action uses it.    *)
(***************************************************************************)
EXTENDS Integers, Sequences, SequencesExt

CONSTANTS
  Words,          \* queries that compile to a pattern
  Empty, Invalid, \* the empty query, and one that is not a pattern
  Scopes,         \* the scopes on offer, "all" among them
  Notebooks,      \* the contents the notebook may have
  None,
  MaxDisplayed,   \* MAX_DISPLAYED_MATCHES
  PerCellCap,     \* PER_CELL_MATCH_CAP
  MaxQueue        \* bound on the messages under way

Options == [query : Words \cup {Empty, Invalid}, scope : Scopes]

ASSUME SearchAssumption ==
  /\ Empty \notin Words /\ Invalid \notin Words /\ Empty # Invalid
  /\ "all" \in Scopes /\ None \notin Options
  /\ Scopes \subseteq {"all", "inputs", "outputs", "tool_calls", "selected"}
  /\ MaxDisplayed \in Nat /\ PerCellCap \in Nat /\ MaxQueue \in Nat

VARIABLES
  doc, focused, selected, \* the notebook, whether its editor is the active
                          \* one, and the selected cells of that editor
  changed,     \* VS Code has a change to report
  view,        \* the provider has a view
  lastOptions, \* what the provider searched for last
  page,        \* the webview: "gone", "loading" or "live"
  input,       \* the options the operator has entered
  debounce,    \* debounceTimer is running
  found, active,  \* state of the script: the results, the match chosen
  toHost, toView, \* messages posted and not delivered
  revealed     \* history: the match the operator went to, until something
               \* other than that happens to the search

notebook == <<doc, focused, selected, changed>>
content  == <<input, debounce, found, active>>
script   == <<page, content>>
vars == <<notebook, view, lastOptions, script, toHost, toView, revealed>>

\* Nothing is under way between the editor, the provider and the script.
Settled ==
  /\ page = "live" /\ ~debounce /\ ~changed
  /\ toHost = <<>> /\ toView = <<>>

Room == Len(toHost) + Len(toView) < MaxQueue

emptyOptions == [query |-> Empty, scope |-> "all"]
-----------------------------------------------------------------------------
(* The match finder. *)

\* Occurrences of a query in what a scope reads of a cell.  The text of the
\* outputs holds the run records, whose attributes are the tool calls' text.
getSearchableText(cell, scope) ==
  [q \in Words |->
     LET outputs == cell.plain[q] + cell.runs[q] IN
     CASE scope = "inputs"     -> cell.input[q]
       [] scope = "outputs"    -> outputs
       [] scope = "tool_calls" -> cell.runs[q]
       [] OTHER                -> cell.input[q] + outputs + cell.runs[q]]

AtMost(n, bound) == IF n > bound THEN bound ELSE n

findMatchesInText(text, query) == AtMost(text[query], PerCellCap)

NoResults == [matches |-> <<>>, total |-> 0, truncated |-> FALSE, error |-> FALSE]

\* matches is the list of the cells of the matches, in the notebook's order.
findMatches(cells, selection, options) ==
  LET hits == [i \in 1 .. Len(cells) |->
                 IF options.scope = "selected" /\ i \notin selection
                 THEN <<>>
                 ELSE [k \in 1 .. findMatchesInText(
                          getSearchableText(cells[i], options.scope), options.query)
                       |-> cells[i].id]]
      all   == FlattenSeq(hits)
      shown == AtMost(Len(all), MaxDisplayed)
  IN [matches |-> SubSeq(all, 1, shown), total |-> Len(all),
      truncated |-> Len(all) > shown, error |-> FALSE]

\* What the provider answers now: no notebook, no pattern or an invalid one
\* give no matches.
Answer(options) ==
  IF ~focused \/ options.query = Empty THEN NoResults
  ELSE IF options.query = Invalid THEN [NoResults EXCEPT !.error = TRUE]
  ELSE findMatches(doc, selected, options)
-----------------------------------------------------------------------------
(* The provider. *)

\* A page that is loading may find the message when it runs, or not.
postResults(options) ==
  IF ~view THEN UNCHANGED toView
  ELSE \/ toView' = Append(toView, Answer(options))
       \/ page # "live" /\ UNCHANGED toView

PageDestroyed ==
  /\ page' = "gone"
  /\ input' = emptyOptions /\ debounce' = FALSE
  /\ found' = NoResults /\ active' = 0 /\ revealed' = None

resolveWebviewView ==
  /\ ~view
  /\ view' = TRUE /\ page' = "loading"
  /\ UNCHANGED <<notebook, lastOptions, content, toHost, toView, revealed>>

onDidDispose ==
  /\ view
  /\ view' = FALSE /\ PageDestroyed
  /\ toHost' = <<>> /\ toView' = <<>>
  /\ UNCHANGED <<notebook, lastOptions>>

\* llmnb.revealCell: the cell becomes the selection, if it is still there.  That
\* the flash ends and the selection collapses is one of NotebookChanges.
revealCell(id) ==
  LET here == {i \in 1 .. Len(doc) : doc[i].id = id} IN
  IF ~focused \/ here = {} THEN UNCHANGED <<selected, changed>>
  ELSE LET i == CHOOSE i \in here : \A j \in here : i <= j
       IN /\ selected' = {i}
          /\ changed' = IF selected = {i} THEN changed ELSE TRUE

handleMessage ==
  /\ toHost # <<>>
  /\ LET msg == Head(toHost) IN
       \/ /\ msg.type = "search"   \* and ready, which searches for nothing
          /\ lastOptions' = msg.options
          /\ postResults(msg.options)
          /\ UNCHANGED notebook
       \/ /\ msg.type = "navigate"
          /\ revealCell(msg.cellId)
          /\ UNCHANGED <<doc, focused, lastOptions, toView>>
  /\ toHost' = Tail(toHost)
  /\ UNCHANGED <<view, script, revealed>>

RunSelectedOnly ==
  IF ~view \/ lastOptions = None THEN UNCHANGED toView
  ELSE IF lastOptions.scope # "selected" THEN UNCHANGED toView
  ELSE postResults(lastOptions)

runIfReady ==
  IF ~view \/ lastOptions = None THEN UNCHANGED toView
  ELSE IF lastOptions.query = Empty THEN UNCHANGED toView
  ELSE postResults(lastOptions)

onDidChange ==
  /\ changed /\ changed' = FALSE /\ Room
  /\ runIfReady
  /\ UNCHANGED <<doc, focused, selected, view, lastOptions, script, toHost, revealed>>
-----------------------------------------------------------------------------
(* VS Code and the operator in the editor. *)

NotebookChanges ==
  /\ \/ doc' \in Notebooks \ {doc} /\ UNCHANGED <<focused, selected>>
     \/ focused' = ~focused /\ UNCHANGED <<doc, selected>>
     \/ selected' \in SUBSET (1 .. Len(doc)) /\ UNCHANGED <<doc, focused>>
  /\ changed' = TRUE /\ revealed' = None
  /\ UNCHANGED <<view, lastOptions, script, toHost, toView>>

Hide ==
  /\ page # "gone"
  /\ PageDestroyed /\ toView' = <<>>
  /\ UNCHANGED <<notebook, view, lastOptions, toHost>>

Show ==
  /\ view /\ page = "gone"
  /\ page' = "loading"
  /\ UNCHANGED <<notebook, view, lastOptions, content, toHost, toView, revealed>>
-----------------------------------------------------------------------------
(* The webview script. *)

Ready == [type |-> "search", options |-> emptyOptions, cellId |-> None]

Load ==
  /\ page = "loading" /\ Room
  /\ page' = "live"
  /\ toHost' = Append(toHost, Ready)
  /\ UNCHANGED <<notebook, view, lastOptions, content, toView, revealed>>

postSearch ==
  /\ page = "live"
  /\ input' \in Options
  /\ debounce' = TRUE /\ revealed' = None
  /\ UNCHANGED <<notebook, view, lastOptions, page, found, active, toHost, toView>>

DebounceFires ==
  /\ debounce /\ Room
  /\ debounce' = FALSE
  /\ toHost' = Append(toHost, [type |-> "search", options |-> input, cellId |-> None])
  /\ UNCHANGED <<notebook, view, lastOptions, page, input, found, active,
                 toView, revealed>>

\* The operator goes to a match: render and revealActive.
GoTo(i) ==
  /\ page = "live" /\ Room
  /\ active' = i
  /\ toHost' = Append(toHost, [type |-> "navigate", options |-> emptyOptions,
                               cellId |-> found.matches[i + 1]])
  /\ revealed' = IF Settled THEN i ELSE None
  /\ UNCHANGED <<notebook, view, lastOptions, page, input, debounce, found, toView>>

navigateBy(delta) ==
  /\ found.matches # <<>>
  /\ GoTo((active + delta) % Len(found.matches))

Click == \E i \in 0 .. Len(found.matches) - 1 : GoTo(i)

onMessage ==
  /\ page = "live" /\ toView # <<>>
  /\ found' = Head(toView) /\ active' = 0
  /\ toView' = Tail(toView)
  /\ revealed' = IF found'.matches = found.matches THEN revealed ELSE None
  /\ UNCHANGED <<notebook, view, lastOptions, page, input, debounce, toHost>>
-----------------------------------------------------------------------------
Init ==
  /\ doc \in Notebooks /\ focused \in BOOLEAN /\ selected = {} /\ changed = FALSE
  /\ view = FALSE /\ lastOptions = None
  /\ page = "gone" /\ input = emptyOptions /\ debounce = FALSE
  /\ found = NoResults /\ active = 0
  /\ toHost = <<>> /\ toView = <<>> /\ revealed = None

Next ==
  \/ resolveWebviewView \/ onDidDispose \/ handleMessage \/ onDidChange
  \/ NotebookChanges \/ Hide \/ Show
  \/ Load \/ postSearch \/ DebounceFires
  \/ navigateBy(1) \/ navigateBy(-1) \/ Click \/ onMessage

Spec == Init /\ [][Next]_vars
-----------------------------------------------------------------------------
\* Live results (search-view-provider.ts:149): once nothing is under way, the
\* list is what a search for the options on display finds in the notebook, the
\* editor and the selection as they are, whatever was typed, edited, hidden and
\* shown in between, and although messages of the page before may arrive late.
ResultsCurrent == Settled => found = Answer(input)

\* `Enter` = next match: pressed again with nothing else going on, and the list
\* still the same, it goes to the match after the one it went to before
\* (navigateBy, search-view-renderer.ts:115).
EnterGoesOn ==
  [][(navigateBy(1) /\ revealed # None)
     => active' = (revealed + 1) % Len(found.matches)]_vars

\* The total next to the list is the full match count, the matches that are not
\* listed included (types.ts:42, match-finder.ts:113).
TotalIsFull ==
  (Settled /\ focused /\ input.query \in Words /\ input.scope = "all") =>
    found.total = FoldFunction(+, 0, [i \in 1 .. Len(doc) |->
                                getSearchableText(doc[i], "all")[input.query]])
=============================================================================
