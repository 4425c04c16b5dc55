--------------------------- MODULE WebviewProofs ---------------------------
(***************************************************************************)
(* What the two webviews show once nothing is under way to them: the       *)
(* results of Find in cells are current, for every notebook, every set of  *)
(* queries and every bound on the messages, and the map misses no update,  *)
(* for every set of layouts and graphs.                                    *)
(*                                                                         *)
(* Both properties are about a page that is told by messages what to show. *)
(* The invariants say what is true while messages are under way.           *)
(*                                                                         *)
(* Find in cells: which message will make the provider search for the      *)
(* options on display (Asked), and which list, shown or still under way,   *)
(* answers the provider's last search (Answered).  What findMatches        *)
(* returns plays no part: only that it is the same search.                 *)
(*                                                                         *)
(* The map: the messages under way lead the page to what the panel         *)
(* remembers (Converges), which is what the kernel sent (Remembered).      *)
(***************************************************************************)
EXTENDS SearchView, MapView, TLAPS

\* No search request is among the messages q.
NoSearch(q) == \A i \in 1 .. Len(q) : q[i].type # "search"

\* The last search request among the messages q is for the options o.
LastSearch(q, o) ==
  \E i \in 1 .. Len(q) :
    /\ q[i].type = "search" /\ q[i].options = o
    /\ \A j \in 1 .. Len(q) : j > i => q[j].type # "search"

\* The list the script shows once it has seen every message.
Upcoming == IF toView = <<>> THEN found ELSE toView[Len(toView)]

IsSeq(q) == \E S : q \in Seq(S)

Shape ==
  /\ IsSeq(toHost) /\ IsSeq(toView)
  /\ \A i \in 1 .. Len(toHost) : toHost[i].options \in Options

\* A page that does not run has nothing in its input field and no timer.
Pages ==
  /\ page # "gone" => view
  /\ page # "live" => ~debounce /\ input = emptyOptions
  /\ input \in Options

\* Unless the debounce is running, the provider has searched for the options
\* on display or is about to.
Asked ==
  page = "live" /\ ~debounce =>
    \/ NoSearch(toHost) /\ lastOptions = input
    \/ LastSearch(toHost, input)

\* When no request is waiting, the list to be shown answers the last one, or
\* the provider is still to be told of a change.
Answered ==
  page = "live" /\ NoSearch(toHost) =>
    /\ lastOptions \in Options
    /\ ~changed \/ lastOptions.query = Empty => Upcoming = Answer(lastOptions)

IInv == Shape /\ Pages /\ Asked /\ Answered
-----------------------------------------------------------------------------
\* What Append does to a queue.
LEMMA AppendFacts ==
  ASSUME NEW q, IsSeq(q), NEW m
  PROVE  /\ IsSeq(Append(q, m)) /\ Append(q, m) # <<>>
         /\ Len(q) \in Nat /\ Len(Append(q, m)) = Len(q) + 1
         /\ \A i \in 1 .. Len(q) : Append(q, m)[i] = q[i]
         /\ Append(q, m)[Len(q) + 1] = m
<1>1. PICK S : q \in Seq(S)
  BY DEF IsSeq
<1>2. q \in Seq(S \cup {m})
  BY <1>1
<1>3. Append(q, m) \in Seq(S \cup {m})
  BY <1>2
<1>. QED
  BY <1>2, <1>3 DEF IsSeq

\* What taking the first message does to a queue.
LEMMA TailFacts ==
  ASSUME NEW q, IsSeq(q), q # <<>>
  PROVE  /\ IsSeq(Tail(q)) /\ Len(q) \in Nat \ {0} /\ Len(Tail(q)) = Len(q) - 1
         /\ Head(q) = q[1]
         /\ \A i \in 1 .. Len(q) - 1 : Tail(q)[i] = q[i + 1]
         /\ (Tail(q) = <<>>) <=> (Len(q) = 1)
<1>1. PICK S : q \in Seq(S)
  BY DEF IsSeq
<1>2. Tail(q) \in Seq(S) /\ Len(q) \in Nat \ {0} /\ Len(Tail(q)) = Len(q) - 1
  BY <1>1
<1>3. Head(q) = q[1] /\ \A i \in 1 .. Len(q) - 1 : Tail(q)[i] = q[i + 1]
  BY <1>1
<1>4. (Tail(q) = <<>>) <=> (Len(q) = 1)
  BY <1>2
<1>. QED
  BY <1>2, <1>3, <1>4 DEF IsSeq

\* The empty queue.
LEMMA EmptyFacts == IsSeq(<<>>) /\ NoSearch(<<>>) /\ \A o : ~LastSearch(<<>>, o)
BY DEF IsSeq, NoSearch, LastSearch

\* A search request at the end of the queue is the last one.
LEMMA AppendSearch ==
  ASSUME NEW q, IsSeq(q), NEW m, m.type = "search"
  PROVE  ~NoSearch(Append(q, m)) /\ LastSearch(Append(q, m), m.options)
BY AppendFacts, SMTT(30) DEF NoSearch, LastSearch

\* A navigation at the end of the queue changes nothing about the searches.
LEMMA AppendNavigate ==
  ASSUME NEW q, IsSeq(q), NEW m, m.type # "search", NEW o
  PROVE  /\ NoSearch(Append(q, m)) <=> NoSearch(q)
         /\ LastSearch(q, o) => LastSearch(Append(q, m), o)
<1>1. NoSearch(Append(q, m)) <=> NoSearch(q)
  BY AppendFacts, SMTT(30) DEF NoSearch
<1>2. ASSUME LastSearch(q, o) PROVE LastSearch(Append(q, m), o)
  BY <1>2, AppendFacts, SMTT(30) DEF LastSearch
<1>. QED
  BY <1>1, <1>2

\* Taking a message that is no search changes nothing about the searches.
LEMMA TailNavigate ==
  ASSUME NEW q, IsSeq(q), q # <<>>, Head(q).type # "search", NEW o
  PROVE  /\ NoSearch(Tail(q)) <=> NoSearch(q)
         /\ LastSearch(q, o) => LastSearch(Tail(q), o)
<1>1. NoSearch(Tail(q)) <=> NoSearch(q)
  <2>1. ASSUME NoSearch(q) PROVE NoSearch(Tail(q))
    BY <2>1, TailFacts DEF NoSearch
  <2>2. ASSUME NoSearch(Tail(q)), NEW i \in 1 .. Len(q) PROVE q[i].type # "search"
    <3>1. CASE i = 1
      BY <3>1, TailFacts
    <3>2. CASE i # 1
      <4>1. i - 1 \in 1 .. Len(Tail(q)) /\ Tail(q)[i - 1] = q[i]
        BY <3>2, TailFacts
      <4>. QED
        BY <4>1, <2>2 DEF NoSearch
    <3>. QED
      BY <3>1, <3>2
  <2>. QED
    BY <2>1, <2>2 DEF NoSearch
<1>2. ASSUME LastSearch(q, o) PROVE LastSearch(Tail(q), o)
  <2>1. PICK i \in 1 .. Len(q) :
          /\ q[i].type = "search" /\ q[i].options = o
          /\ \A j \in 1 .. Len(q) : j > i => q[j].type # "search"
    BY <1>2 DEF LastSearch
  <2>2. i # 1 /\ i - 1 \in 1 .. Len(Tail(q)) /\ Tail(q)[i - 1] = q[i]
    BY <2>1, TailFacts
  <2>3. \A j \in 1 .. Len(Tail(q)) : j > i - 1 => Tail(q)[j].type # "search"
    BY <2>1, TailFacts
  <2>. QED
    BY <2>1, <2>2, <2>3 DEF LastSearch
<1>. QED
  BY <1>1, <1>2

\* After taking a search request, its options are the last ones asked for, or
\* those of a later request are.
LEMMA TailSearch ==
  ASSUME NEW q, IsSeq(q), q # <<>>, Head(q).type = "search", NEW o, LastSearch(q, o)
  PROVE  (NoSearch(Tail(q)) /\ Head(q).options = o) \/ LastSearch(Tail(q), o)
<1>1. PICK i \in 1 .. Len(q) :
        /\ q[i].type = "search" /\ q[i].options = o
        /\ \A j \in 1 .. Len(q) : j > i => q[j].type # "search"
  BY DEF LastSearch
<1>2. CASE i = 1
  <2>1. NoSearch(Tail(q))
    BY <1>1, <1>2, TailFacts DEF NoSearch
  <2>. QED
    BY <1>1, <1>2, <2>1, TailFacts
<1>3. CASE i # 1
  <2>1. i - 1 \in 1 .. Len(Tail(q)) /\ Tail(q)[i - 1] = q[i]
    BY <1>3, TailFacts
  <2>2. \A j \in 1 .. Len(Tail(q)) : j > i - 1 => Tail(q)[j].type # "search"
    BY <1>1, TailFacts
  <2>. QED
    BY <1>1, <2>1, <2>2 DEF LastSearch
<1>. QED
  BY <1>2, <1>3
-----------------------------------------------------------------------------
\* A message to the provider keeps Shape.
LEMMA ShapeAppend ==
  ASSUME Shape, NEW m, m.options \in Options, toHost' = Append(toHost, m),
         UNCHANGED toView
  PROVE  Shape'
<1>1. IsSeq(toHost') /\ IsSeq(toView')
  BY AppendFacts DEF Shape
<1>2. \A i \in 1 .. Len(toHost') : toHost'[i].options \in Options
  BY AppendFacts, SMTT(30) DEF Shape
<1>. QED
  BY <1>1, <1>2 DEF Shape

\* The initial states.
LEMMA InitIInv == Init => IInv
<1>. SUFFICES ASSUME Init PROVE IInv
  OBVIOUS
<1>1. Shape
  BY EmptyFacts DEF Init, Shape
<1>2. Pages
  BY SearchAssumption DEF Init, Pages, emptyOptions, Options
<1>3. Asked /\ Answered
  BY DEF Init, Asked, Answered
<1>. QED
  BY <1>1, <1>2, <1>3 DEF IInv

\* The page is made, hidden, shown or disposed of.
LEMMA PageStep ==
  ASSUME IInv, resolveWebviewView \/ onDidDispose \/ Hide \/ Show
  PROVE  IInv'
<1>1. emptyOptions \in Options
  BY SearchAssumption DEF emptyOptions, Options
<1>2. Shape'
  BY EmptyFacts DEF IInv, Shape, resolveWebviewView, onDidDispose, Hide, Show
<1>3. page' # "live" /\ Pages'
  BY <1>1 DEF IInv, Pages, resolveWebviewView, onDidDispose, Hide, Show, content,
              PageDestroyed
<1>. QED
  BY <1>2, <1>3 DEF IInv, Asked, Answered

\* The script starts and announces itself.
LEMMA LoadStep == ASSUME IInv, Load PROVE IInv'
<1>1. Ready.type = "search" /\ Ready.options = emptyOptions /\ emptyOptions \in Options
  BY SearchAssumption DEF Ready, emptyOptions, Options
<1>2. Shape'
  BY <1>1, ShapeAppend DEF IInv, Load, notebook
<1>3. input' = emptyOptions /\ view'
  BY DEF IInv, Pages, Load, content
<1>4. Asked'
  BY <1>1, <1>3, AppendSearch DEF IInv, Shape, Load, Asked
<1>5. Answered'
  BY <1>1, AppendSearch DEF IInv, Shape, Load, Answered
<1>. QED
  BY <1>1, <1>2, <1>3, <1>4, <1>5 DEF IInv, Pages, Load

\* A search finds the same as long as the editor is not touched.
LEMMA AnswerSame ==
  ASSUME UNCHANGED <<doc, focused, selected, lastOptions>>
  PROVE  Answer(lastOptions)' = Answer(lastOptions)
BY DEF Answer

\* A search for nothing finds nothing, whatever the editor shows.
LEMMA AnswerEmpty == ASSUME NEW o, o.query = Empty PROVE Answer(o) = NoResults
BY DEF Answer

\* The operator types: the debounce runs.
LEMMA TypeStep == ASSUME IInv, postSearch PROVE IInv'
<1>1. Shape'
  BY DEF IInv, Shape, postSearch
<1>2. Pages' /\ Asked'
  BY DEF IInv, Pages, Asked, postSearch
<1>3. UNCHANGED <<toHost, toView, found, lastOptions, page, changed>>
  BY DEF postSearch, notebook
<1>4. Answer(lastOptions)' = Answer(lastOptions)
  BY AnswerSame DEF postSearch, notebook
<1>5. Answered'
  BY <1>3, <1>4 DEF IInv, Answered, Upcoming
<1>. QED
  BY <1>1, <1>2, <1>5 DEF IInv

\* The debounce fires: the request on its way is for the options on display.
LEMMA DebounceStep == ASSUME IInv, DebounceFires PROVE IInv'
<1>. DEFINE m == [type |-> "search", options |-> input, cellId |-> None]
<1>1. m.type = "search" /\ m.options = input /\ input \in Options
  BY DEF IInv, Pages
<1>2. toHost' = Append(toHost, m) /\ UNCHANGED <<toView, changed, input, page, view>>
      /\ ~debounce'
  BY DEF DebounceFires, notebook
<1>. HIDE DEF m
<1>3. Shape'
  BY <1>1, <1>2, ShapeAppend DEF IInv
<1>4. ~NoSearch(toHost') /\ LastSearch(toHost', input')
  BY <1>1, <1>2, AppendSearch DEF IInv, Shape
<1>5. Pages'
  BY <1>2 DEF IInv, Pages
<1>. QED
  BY <1>3, <1>4, <1>5 DEF IInv, Asked, Answered

\* The operator goes to a match.
LEMMA GoToStep == ASSUME IInv, NEW i, GoTo(i) PROVE IInv'
<1>. DEFINE m == [type |-> "navigate", options |-> emptyOptions,
                  cellId |-> found.matches[i + 1]]
<1>1. m.type # "search" /\ m.options \in Options
  BY SearchAssumption DEF emptyOptions, Options
<1>2. /\ toHost' = Append(toHost, m)
      /\ UNCHANGED <<doc, focused, selected, changed, toView, input, page, view, debounce,
                     found, lastOptions>>
  BY DEF GoTo, notebook
<1>. HIDE DEF m
<1>3. Shape'
  BY <1>1, <1>2, ShapeAppend DEF IInv
<1>4. NoSearch(toHost') <=> NoSearch(toHost)
  BY <1>1, <1>2, AppendNavigate DEF IInv, Shape
<1>5. LastSearch(toHost, input) => LastSearch(toHost', input')
  BY <1>1, <1>2, AppendNavigate DEF IInv, Shape
<1>6. Pages' /\ Asked'
  BY <1>2, <1>4, <1>5 DEF IInv, Pages, Asked
<1>7. Answered'
  BY <1>2, <1>4, AnswerSame DEF IInv, Answered, Upcoming
<1>. QED
  BY <1>3, <1>6, <1>7 DEF IInv

\* The script takes a list: the one shown in the end stays the same.
LEMMA OnMessageStep == ASSUME IInv, onMessage PROVE IInv'
<1>1. /\ toView # <<>> /\ found' = Head(toView) /\ toView' = Tail(toView)
      /\ UNCHANGED <<doc, focused, selected, changed, toHost, input, page, view, debounce,
                     lastOptions>>
  BY DEF onMessage, notebook
<1>2. Shape'
  BY <1>1, TailFacts DEF IInv, Shape
<1>3. Pages' /\ Asked'
  BY <1>1 DEF IInv, Pages, Asked
<1>4. Upcoming' = Upcoming
  <2>1. CASE Len(toView) = 1
    BY <1>1, <2>1, TailFacts DEF IInv, Shape, Upcoming
  <2>2. CASE Len(toView) # 1
    <3>1. /\ Len(toView) - 1 \in 1 .. Len(toView) - 1
          /\ toView'[Len(toView) - 1] = toView[Len(toView)]
          /\ Len(toView') = Len(toView) - 1 /\ toView' # <<>>
      BY <1>1, <2>2, TailFacts DEF IInv, Shape
    <3>. QED
      BY <1>1, <3>1 DEF Upcoming
  <2>. QED
    BY <2>1, <2>2
<1>5. Answered'
  BY <1>1, <1>4, AnswerSame DEF IInv, Answered
<1>. QED
  BY <1>2, <1>3, <1>5 DEF IInv

\* What is posted to a running page is what it will show.
LEMMA PostFacts ==
  ASSUME IInv, NEW o, postResults(o)
  PROVE  /\ IsSeq(toView')
         /\ page = "live" /\ page' = page => Upcoming' = Answer(o)
<1>1. CASE UNCHANGED toView /\ (~view \/ page # "live")
  BY <1>1 DEF IInv, Shape, Pages
<1>2. CASE toView' = Append(toView, Answer(o))
  BY <1>2, AppendFacts DEF IInv, Shape, Upcoming
<1>. QED
  BY <1>1, <1>2 DEF postResults

\* The provider takes a message.
LEMMA HandleStep == ASSUME IInv, handleMessage PROVE IInv'
<1>1. /\ toHost # <<>> /\ toHost' = Tail(toHost)
      /\ UNCHANGED <<view, page, input, debounce, found, active>>
  BY DEF handleMessage, script, content
<1>2. IsSeq(toHost) /\ IsSeq(toHost') /\ Head(toHost).options \in Options
  BY <1>1, TailFacts DEF IInv, Shape
<1>3. \A i \in 1 .. Len(toHost') : toHost'[i].options \in Options
  <2>. SUFFICES ASSUME NEW i \in 1 .. Len(toHost') PROVE toHost'[i].options \in Options
    OBVIOUS
  <2>1. i + 1 \in 1 .. Len(toHost) /\ toHost'[i] = toHost[i + 1]
    BY <1>1, TailFacts DEF IInv, Shape
  <2>. QED
    BY <2>1 DEF IInv, Shape
<1>4. Pages'
  BY <1>1 DEF IInv, Pages
<1>5. CASE /\ Head(toHost).type = "search" /\ lastOptions' = Head(toHost).options
           /\ postResults(Head(toHost).options) /\ UNCHANGED notebook
  <2>1. IsSeq(toView') /\ (page = "live" => Upcoming' = Answer(lastOptions'))
    BY <1>1, <1>5, PostFacts
  <2>2. Answer(lastOptions') = Answer(lastOptions)'
    BY <1>5 DEF Answer, notebook
  <2>3. Shape'
    BY <1>2, <1>3, <2>1 DEF Shape
  <2>4. Answered'
    BY <1>1, <1>2, <1>5, <2>1, <2>2 DEF Answered
  <2>5. Asked'
    <3>. SUFFICES ASSUME page = "live", ~debounce
                  PROVE  (NoSearch(toHost') /\ lastOptions' = input) \/ LastSearch(toHost', input)
      BY <1>1 DEF Asked
    <3>1. ~NoSearch(toHost)
      BY <1>1, <1>2, <1>5, TailFacts DEF NoSearch
    <3>2. LastSearch(toHost, input)
      BY <3>1 DEF IInv, Asked
    <3>. QED
      BY <1>1, <1>2, <1>5, <3>2, TailSearch
  <2>. QED
    BY <1>4, <2>3, <2>4, <2>5 DEF IInv
<1>6. CASE /\ Head(toHost).type = "navigate" /\ revealCell(Head(toHost).cellId)
           /\ UNCHANGED <<doc, focused, lastOptions, toView>>
  <2>1. NoSearch(toHost') <=> NoSearch(toHost)
    BY <1>1, <1>2, <1>6, TailNavigate
  <2>2. LastSearch(toHost, input) => LastSearch(toHost', input)
    BY <1>1, <1>2, <1>6, TailNavigate
  <2>3. Shape'
    BY <1>2, <1>3, <1>6 DEF IInv, Shape
  <2>4. Asked'
    BY <1>1, <1>6, <2>1, <2>2 DEF IInv, Asked
  <2>5. changed' \/ UNCHANGED <<selected, changed>>
    BY <1>6 DEF revealCell
  <2>6. Answered'
    <3>. SUFFICES ASSUME page = "live", NoSearch(toHost)
                  PROVE  /\ lastOptions' \in Options
                         /\ ~changed' \/ lastOptions'.query = Empty =>
                              Upcoming' = Answer(lastOptions)'
      BY <1>1, <2>1 DEF Answered
    <3>1. lastOptions \in Options /\ lastOptions' = lastOptions /\ Upcoming' = Upcoming
      BY <1>1, <1>6 DEF IInv, Answered, Upcoming
    <3>2. CASE lastOptions.query = Empty
      <4>1. Answer(lastOptions) = NoResults /\ Answer(lastOptions)' = NoResults
        BY <3>1, <3>2 DEF Answer
      <4>. QED
        BY <3>1, <3>2, <4>1 DEF IInv, Answered
    <3>3. CASE ~changed' /\ lastOptions.query # Empty
      <4>1. UNCHANGED <<selected, changed>>
        BY <2>5, <3>3
      <4>2. Answer(lastOptions)' = Answer(lastOptions)
        BY <1>6, <4>1, AnswerSame
      <4>. QED
        BY <3>1, <3>3, <4>1, <4>2 DEF IInv, Answered
    <3>. QED
      BY <3>1, <3>2, <3>3
  <2>. QED
    BY <1>4, <2>3, <2>4, <2>6 DEF IInv
<1>. QED
  BY <1>5, <1>6 DEF handleMessage

\* VS Code reports a change: the provider searches again, unless for nothing.
LEMMA ChangeReported == ASSUME IInv, onDidChange PROVE IInv'
<1>1. UNCHANGED <<doc, focused, selected, view, lastOptions, page, input, debounce, found, toHost>>
  BY DEF onDidChange, script, content
<1>2. Pages' /\ Asked'
  BY <1>1 DEF IInv, Pages, Asked
<1>3. Answer(lastOptions)' = Answer(lastOptions)
  BY <1>1, AnswerSame
<1>4. CASE UNCHANGED toView /\ (~view \/ lastOptions = None)
  <2>1. page = "live" /\ NoSearch(toHost) => FALSE
    BY <1>4, SearchAssumption DEF IInv, Pages, Answered
  <2>2. Answered'
    BY <1>1, <2>1 DEF Answered
  <2>. QED
    BY <1>1, <1>2, <1>4, <2>2 DEF IInv, Shape
<1>5. CASE UNCHANGED toView /\ lastOptions.query = Empty
  BY <1>1, <1>2, <1>3, <1>5 DEF IInv, Shape, Answered, Upcoming
<1>6. CASE postResults(lastOptions)
  <2>1. IsSeq(toView') /\ (page = "live" => Upcoming' = Answer(lastOptions))
    BY <1>1, <1>6, PostFacts
  <2>2. Shape'
    BY <1>1, <2>1 DEF IInv, Shape
  <2>3. Answered'
    BY <1>1, <1>3, <2>1 DEF IInv, Answered
  <2>. QED
    BY <1>2, <2>2, <2>3 DEF IInv
<1>. QED
  BY <1>4, <1>5, <1>6 DEF onDidChange, runIfReady

\* The notebook, the active editor or the selection changes.
LEMMA ChangeStep == ASSUME IInv, NotebookChanges PROVE IInv'
<1>1. /\ changed' = TRUE
      /\ UNCHANGED <<view, lastOptions, page, input, debounce, found, toHost, toView>>
  BY DEF NotebookChanges, script, content
<1>2. Shape' /\ Pages' /\ Asked'
  BY <1>1 DEF IInv, Shape, Pages, Asked
<1>3. Answered'
  <2>. SUFFICES ASSUME page = "live", NoSearch(toHost)
                PROVE  /\ lastOptions' \in Options
                       /\ lastOptions'.query = Empty => Upcoming' = Answer(lastOptions)'
    BY <1>1 DEF Answered
  <2>1. lastOptions \in Options /\ lastOptions' = lastOptions /\ Upcoming' = Upcoming
    BY <1>1 DEF IInv, Answered, Upcoming
  <2>2. ASSUME lastOptions.query = Empty PROVE Upcoming' = Answer(lastOptions)'
    <3>1. Answer(lastOptions) = NoResults /\ Answer(lastOptions)' = NoResults
      BY <2>1, <2>2 DEF Answer
    <3>. QED
      BY <2>1, <2>2, <3>1 DEF IInv, Answered
  <2>. QED
    BY <2>1, <2>2
<1>. QED
  BY <1>2, <1>3 DEF IInv

\* Every step keeps the invariant.
LEMMA NextIInv == IInv /\ [Next]_vars => IInv'
<1>. SUFFICES ASSUME IInv, [Next]_vars PROVE IInv'
  OBVIOUS
<1>1. CASE UNCHANGED vars
  <2>1. UNCHANGED <<doc, focused, selected, changed, view, lastOptions, page, input, debounce,
                    found, toHost, toView>>
    BY <1>1 DEF vars, notebook, script, content
  <2>2. Shape' /\ Pages' /\ Asked'
    BY <2>1 DEF IInv, Shape, Pages, Asked
  <2>3. Answered'
    BY <2>1, AnswerSame DEF IInv, Answered, Upcoming
  <2>. QED
    BY <2>2, <2>3 DEF IInv
<1>2. CASE navigateBy(1) \/ navigateBy(-1) \/ Click
  BY <1>2, GoToStep DEF navigateBy, Click
<1>. QED
  BY <1>1, <1>2, PageStep, LoadStep, TypeStep, DebounceStep, OnMessageStep, HandleStep,
     ChangeReported, ChangeStep DEF Next

\* In every state with nothing under way, the list on display is what a search
\* for the options on display finds now (runIfReady and postResults of the
\* provider, the message handler of the script).
THEOREM ResultsAreCurrent == Spec => []ResultsCurrent
<1>1. IInv => ResultsCurrent
  <2>. SUFFICES ASSUME IInv, Settled PROVE found = Answer(input)
    BY DEF ResultsCurrent
  <2>1. NoSearch(toHost) /\ ~LastSearch(toHost, input)
    BY EmptyFacts DEF Settled
  <2>2. lastOptions = input
    BY <2>1 DEF IInv, Asked, Settled
  <2>. QED
    BY <2>1, <2>2 DEF IInv, Answered, Upcoming, Settled
<1>. QED
  BY <1>1, InitIInv, NextIInv, PTL DEF Spec

-----------------------------------------------------------------------------
(* The map view.                                                           *)

\* No message of the kind is among the messages q.
NoneOf(q, kind) == \A i \in 1 .. Len(q) : q[i].kind # kind

\* The last message of the kind among the messages q carries v.
LastOf(q, kind, v) ==
  \E i \in 1 .. Len(q) :
    /\ q[i].kind = kind /\ q[i].payload = v
    /\ \A j \in 1 .. Len(q) : j > i => q[j].kind # kind

\* The messages q, handled by a page that shows now, leave it showing v.
LeadsTo(q, kind, now, v) == (NoneOf(q, kind) /\ now = v) \/ LastOf(q, kind, v)

\* The messages q are updates of one of the two kinds.
Updates(q) ==
  /\ IsSeq(q)
  /\ \A i \in 1 .. Len(q) : q[i].kind \in {"layout.update", "agent_graph.response"}

\* What the panel remembers is what the kernel sent, and a panel that is there
\* has an observer to be told of the next update.
Remembered ==
  /\ sent = [layout |-> lastLayout, graph |-> lastGraph]
  /\ links \in Nat /\ (panel => links # 0)
  /\ visible => panel /\ mapPage # "gone"

\* The messages under way lead the page to what the panel remembers.
Converges ==
  visible => /\ LeadsTo(inbox, "layout.update", tree, lastLayout)
             /\ LeadsTo(inbox, "agent_graph.response", overlay, lastGraph)

MapInv == Updates(inbox) /\ Remembered /\ Converges

\* What the concatenation of two queues is made of.
LEMMA ConcatFacts ==
  ASSUME NEW q, NEW r, IsSeq(q), IsSeq(r)
  PROVE  /\ IsSeq(q \o r) /\ Len(q) \in Nat /\ Len(r) \in Nat
         /\ Len(q \o r) = Len(q) + Len(r)
         /\ \A i \in 1 .. Len(q) : (q \o r)[i] = q[i]
         /\ \A i \in 1 .. Len(r) : (q \o r)[Len(q) + i] = r[i]
         /\ \A i \in 1 .. Len(q) + Len(r) : i <= Len(q) \/ i - Len(q) \in 1 .. Len(r)
<1>1. PICK S : q \in Seq(S)
  BY DEF IsSeq
<1>2. PICK T : r \in Seq(T)
  BY DEF IsSeq
<1>3. q \in Seq(S \cup T) /\ r \in Seq(S \cup T)
  BY <1>1, <1>2
<1>4. q \o r \in Seq(S \cup T) /\ Len(q) \in Nat /\ Len(r) \in Nat
      /\ Len(q \o r) = Len(q) + Len(r)
  BY <1>3
<1>5. \A i \in 1 .. Len(q) : (q \o r)[i] = q[i]
  BY <1>3
<1>6. \A i \in 1 .. Len(r) : (q \o r)[Len(q) + i] = r[i]
  BY <1>3
<1>. QED
  BY <1>4, <1>5, <1>6 DEF IsSeq

\* What LeadsTo says is what Final computes.
LEMMA FinalIs ==
  ASSUME NEW kind, NEW now, NEW v, IsSeq(inbox), LeadsTo(inbox, kind, now, v)
  PROVE  Final(kind, now) = v
<1>. DEFINE hits == {i \in DOMAIN inbox : inbox[i].kind = kind}
<1>1. DOMAIN inbox = 1 .. Len(inbox) /\ Len(inbox) \in Nat
  BY DEF IsSeq
<1>2. CASE NoneOf(inbox, kind) /\ now = v
  <2>1. hits = {}
    BY <1>1, <1>2 DEF NoneOf
  <2>. QED
    BY <1>2, <2>1 DEF Final
<1>3. CASE LastOf(inbox, kind, v)
  <2>1. PICK i \in 1 .. Len(inbox) :
          /\ inbox[i].kind = kind /\ inbox[i].payload = v
          /\ \A j \in 1 .. Len(inbox) : j > i => inbox[j].kind # kind
    BY <1>3 DEF LastOf
  <2>2. i \in hits /\ \A j \in hits : j <= i /\ j \in Nat
    BY <1>1, <2>1
  <2>3. \A k \in hits : (\A j \in hits : j <= k) => k = i
    BY <1>1, <2>2
  <2>4. (CHOOSE k \in hits : \A j \in hits : j <= k) = i
    BY <2>2, <2>3
  <2>. QED
    BY <2>1, <2>2, <2>4 DEF Final
<1>. QED
  BY <1>2, <1>3 DEF LeadsTo

\* Messages added at the end: where they have one of the kind, theirs counts.
LEMMA ConcatLeads ==
  ASSUME NEW q, NEW r, IsSeq(q), IsSeq(r), NEW kind, NEW now, NEW v
  PROVE  /\ LeadsTo(q, kind, now, v) /\ NoneOf(r, kind) => LeadsTo(q \o r, kind, now, v)
         /\ NoneOf(q, kind) /\ NoneOf(r, kind) => NoneOf(q \o r, kind)
         /\ LastOf(q, kind, v) /\ NoneOf(r, kind) => LastOf(q \o r, kind, v)
         /\ LastOf(r, kind, v) => LastOf(q \o r, kind, v) /\ LeadsTo(q \o r, kind, now, v)
<1>1. ASSUME NoneOf(q, kind), NoneOf(r, kind) PROVE NoneOf(q \o r, kind)
  <2>. SUFFICES ASSUME NEW i \in 1 .. Len(q \o r) PROVE (q \o r)[i].kind # kind
    BY DEF NoneOf
  <2>1. CASE i <= Len(q)
    <3>1. i \in 1 .. Len(q) /\ (q \o r)[i] = q[i]
      BY <2>1, ConcatFacts
    <3>. QED
      BY <3>1, <1>1 DEF NoneOf
  <2>2. CASE i - Len(q) \in 1 .. Len(r)
    <3>1. (q \o r)[i] = r[i - Len(q)]
      <4>1. (q \o r)[Len(q) + (i - Len(q))] = r[i - Len(q)]
        BY <2>2, ConcatFacts
      <4>2. Len(q) + (i - Len(q)) = i
        BY ConcatFacts
      <4>. QED
        BY <4>1, <4>2
    <3>. QED
      BY <3>1, <2>2, <1>1 DEF NoneOf
  <2>. QED
    BY <2>1, <2>2, ConcatFacts
<1>2. ASSUME LastOf(q, kind, v), NoneOf(r, kind) PROVE LastOf(q \o r, kind, v)
  <2>1. PICK i \in 1 .. Len(q) :
          /\ q[i].kind = kind /\ q[i].payload = v
          /\ \A j \in 1 .. Len(q) : j > i => q[j].kind # kind
    BY <1>2 DEF LastOf
  <2>2. i \in 1 .. Len(q \o r) /\ (q \o r)[i] = q[i]
    BY ConcatFacts
  <2>3. ASSUME NEW j \in 1 .. Len(q \o r), j > i PROVE (q \o r)[j].kind # kind
    <3>1. CASE j <= Len(q)
      <4>1. j \in 1 .. Len(q) /\ (q \o r)[j] = q[j]
        BY <3>1, ConcatFacts
      <4>. QED
        BY <4>1, <2>1, <2>3
    <3>2. CASE j - Len(q) \in 1 .. Len(r)
      <4>1. (q \o r)[Len(q) + (j - Len(q))] = r[j - Len(q)]
        BY <3>2, ConcatFacts
      <4>2. Len(q) + (j - Len(q)) = j
        BY ConcatFacts
      <4>. QED
        BY <4>1, <4>2, <3>2, <1>2 DEF NoneOf
    <3>. QED
      BY <3>1, <3>2, ConcatFacts
  <2>. QED
    BY <2>1, <2>2, <2>3 DEF LastOf
<1>3. ASSUME LastOf(r, kind, v) PROVE LastOf(q \o r, kind, v)
  <2>1. PICK i \in 1 .. Len(r) :
          /\ r[i].kind = kind /\ r[i].payload = v
          /\ \A j \in 1 .. Len(r) : j > i => r[j].kind # kind
    BY <1>3 DEF LastOf
  <2>2. Len(q) + i \in 1 .. Len(q \o r) /\ (q \o r)[Len(q) + i] = r[i]
    BY ConcatFacts
  <2>3. ASSUME NEW j \in 1 .. Len(q \o r), j > Len(q) + i PROVE (q \o r)[j].kind # kind
    <3>1. j - Len(q) \in 1 .. Len(r) /\ j - Len(q) > i /\ Len(q) + (j - Len(q)) = j
      BY <2>3, ConcatFacts
    <3>2. (q \o r)[Len(q) + (j - Len(q))] = r[j - Len(q)]
      BY <3>1, ConcatFacts
    <3>. QED
      BY <3>1, <3>2, <2>1
  <2>. QED
    BY <2>1, <2>2, <2>3 DEF LastOf
<1>. QED
  BY <1>1, <1>2, <1>3 DEF LeadsTo

\* The page handles the first message: the others lead to the same.
LEMMA TailLeads ==
  ASSUME NEW q, IsSeq(q), q # <<>>, NEW kind, NEW now, NEW v, LeadsTo(q, kind, now, v)
  PROVE  /\ Head(q).kind = kind => LeadsTo(Tail(q), kind, Head(q).payload, v)
         /\ Head(q).kind # kind => LeadsTo(Tail(q), kind, now, v)
<1>1. CASE NoneOf(q, kind) /\ now = v
  <2>1. NoneOf(Tail(q), kind) /\ Head(q).kind # kind
    BY <1>1, TailFacts DEF NoneOf
  <2>. QED
    BY <1>1, <2>1 DEF LeadsTo
<1>2. CASE LastOf(q, kind, v)
  <2>1. PICK i \in 1 .. Len(q) :
          /\ q[i].kind = kind /\ q[i].payload = v
          /\ \A j \in 1 .. Len(q) : j > i => q[j].kind # kind
    BY <1>2 DEF LastOf
  <2>2. CASE i = 1
    <3>1. NoneOf(Tail(q), kind)
      BY <2>1, <2>2, TailFacts DEF NoneOf
    <3>. QED
      BY <2>1, <2>2, <3>1, TailFacts DEF LeadsTo
  <2>3. CASE i # 1
    <3>1. i - 1 \in 1 .. Len(Tail(q)) /\ Tail(q)[i - 1] = q[i]
      BY <2>3, TailFacts
    <3>2. \A j \in 1 .. Len(Tail(q)) : j > i - 1 => Tail(q)[j].kind # kind
      BY <2>1, TailFacts
    <3>. QED
      BY <2>1, <3>1, <3>2 DEF LastOf, LeadsTo
  <2>. QED
    BY <2>2, <2>3
<1>. QED
  BY <1>1, <1>2 DEF LeadsTo

\* Queues of updates stay so.
LEMMA UpdatesFacts ==
  ASSUME NEW q, Updates(q)
  PROVE  /\ q # <<>> => Updates(Tail(q)) /\ Head(q).kind \in {"layout.update", "agent_graph.response"}
         /\ \A r : Updates(r) => Updates(q \o r)
<1>1. ASSUME q # <<>> PROVE Updates(Tail(q)) /\ Head(q).kind \in {"layout.update", "agent_graph.response"}
  BY <1>1, TailFacts DEF Updates
<1>2. ASSUME NEW r, Updates(r) PROVE Updates(q \o r)
  <2>. SUFFICES ASSUME NEW i \in 1 .. Len(q \o r)
                PROVE  (q \o r)[i].kind \in {"layout.update", "agent_graph.response"}
    BY <1>2, ConcatFacts DEF Updates
  <2>1. CASE i <= Len(q)
    <3>1. i \in 1 .. Len(q) /\ (q \o r)[i] = q[i]
      BY <2>1, <1>2, ConcatFacts DEF Updates
    <3>. QED
      BY <3>1 DEF Updates
  <2>2. CASE i - Len(q) \in 1 .. Len(r)
    <3>1. (q \o r)[Len(q) + (i - Len(q))] = r[i - Len(q)]
      BY <2>2, <1>2, ConcatFacts DEF Updates
    <3>2. Len(q) + (i - Len(q)) = i
      BY <1>2, ConcatFacts DEF Updates
    <3>. QED
      BY <3>1, <3>2, <2>2, <1>2 DEF Updates
  <2>. QED
    BY <2>1, <2>2, <1>2, ConcatFacts DEF Updates
<1>. QED
  BY <1>1, <1>2

\* No message, and a single one.
LEMMA SingleFacts ==
  ASSUME NEW m, m.kind \in {"layout.update", "agent_graph.response"}
  PROVE  /\ Updates(<<>>) /\ Updates(<<m>>) /\ \A kind : NoneOf(<<>>, kind)
         /\ LastOf(<<m>>, m.kind, m.payload)
         /\ \A kind : kind # m.kind => NoneOf(<<m>>, kind)
<1>1. <<m>> \in Seq({m}) /\ Len(<<m>>) = 1 /\ <<m>>[1] = m
  OBVIOUS
<1>2. <<>> \in Seq({m}) /\ Len(<<>>) = 0
  OBVIOUS
<1>3. Updates(<<>>) /\ \A kind : NoneOf(<<>>, kind)
  BY <1>2 DEF Updates, IsSeq, NoneOf
<1>4. LastOf(<<m>>, m.kind, m.payload)
  BY <1>1 DEF LastOf
<1>5. Updates(<<m>>)
  <2>1. \A i \in 1 .. Len(<<m>>) : <<m>>[i] = m
    BY <1>1
  <2>. QED
    BY <1>1, <2>1 DEF Updates, IsSeq
<1>6. ASSUME NEW kind, kind # m.kind PROVE NoneOf(<<m>>, kind)
  BY <1>1, <1>6 DEF NoneOf
<1>. QED
  BY <1>3, <1>4, <1>5, <1>6

\* What is sent again to a page that appears or is revealed once more.
LEMMA ResendFacts ==
  /\ Updates(resend)
  /\ IF lastLayout = Absent THEN NoneOf(resend, "layout.update")
     ELSE LastOf(resend, "layout.update", lastLayout)
  /\ IF lastGraph = Absent THEN NoneOf(resend, "agent_graph.response")
     ELSE LastOf(resend, "agent_graph.response", lastGraph)
<1>. DEFINE l == Message("layout.update", lastLayout)
            g == Message("agent_graph.response", lastGraph)
<1>1. /\ l.kind = "layout.update" /\ l.payload = lastLayout
      /\ g.kind = "agent_graph.response" /\ g.payload = lastGraph
  BY DEF Message
<1>2. resend = (IF lastLayout # Absent THEN <<l>> ELSE <<>>)
                   \o (IF lastGraph # Absent THEN <<g>> ELSE <<>>)
  BY DEF resend
<1>. HIDE DEF l, g
<1>. DEFINE first  == IF lastLayout # Absent THEN <<l>> ELSE <<>>
            second == IF lastGraph # Absent THEN <<g>> ELSE <<>>
<1>3. /\ Updates(first) /\ NoneOf(first, "agent_graph.response")
      /\ IF lastLayout = Absent THEN NoneOf(first, "layout.update")
         ELSE LastOf(first, "layout.update", lastLayout)
  BY <1>1, SingleFacts
<1>4. /\ Updates(second) /\ NoneOf(second, "layout.update")
      /\ IF lastGraph = Absent THEN NoneOf(second, "agent_graph.response")
         ELSE LastOf(second, "agent_graph.response", lastGraph)
  BY <1>1, SingleFacts
<1>5. resend = first \o second
  BY <1>2
<1>. HIDE DEF first, second
<1>6. IsSeq(first) /\ IsSeq(second)
  BY <1>3, <1>4 DEF Updates
<1>7. Updates(resend)
  BY <1>3, <1>4, <1>5, UpdatesFacts
<1>8. IF lastLayout = Absent THEN NoneOf(resend, "layout.update")
      ELSE LastOf(resend, "layout.update", lastLayout)
  BY <1>3, <1>4, <1>5, <1>6, ConcatLeads
<1>9. IF lastGraph = Absent THEN NoneOf(resend, "agent_graph.response")
      ELSE LastOf(resend, "agent_graph.response", lastGraph)
  BY <1>3, <1>4, <1>5, <1>6, ConcatLeads
<1>. QED
  BY <1>7, <1>8, <1>9

\* A message for each observer is a queue in which it is the last.
LEMMA CopiesFacts ==
  ASSUME NEW m, m.kind \in {"layout.update", "agent_graph.response"}, links \in Nat, links # 0
  PROVE  /\ Updates(copies(m))
         /\ LastOf(copies(m), m.kind, m.payload)
         /\ \A kind : kind # m.kind => NoneOf(copies(m), kind)
<1>. DEFINE c == copies(m)
<1>1. c \in Seq({m}) /\ Len(c) = links /\ \A i \in 1 .. links : c[i] = m
  BY DEF copies
<1>. HIDE DEF c
<1>2. IsSeq(c)
  BY <1>1 DEF IsSeq
<1>3. Updates(c)
  BY <1>1, <1>2 DEF Updates
<1>4. LastOf(c, m.kind, m.payload)
  <2>1. links \in 1 .. Len(c) /\ c[links] = m /\ \A j \in 1 .. Len(c) : ~(j > links)
    BY <1>1
  <2>. QED
    BY <2>1 DEF LastOf
<1>5. \A kind : kind # m.kind => NoneOf(c, kind)
  BY <1>1 DEF NoneOf
<1>. QED
  BY <1>3, <1>4, <1>5 DEF c
-----------------------------------------------------------------------------
\* A page that appears is sent what the panel remembers.
LEMMA AppearStep ==
  ASSUME MapInv, appear, inbox' = resend, panel' = TRUE, links' \in Nat \ {0},
         UNCHANGED <<lastLayout, lastGraph, sent>>
  PROVE  MapInv'
<1>1. visible' /\ mapPage' = "loading" /\ tree' = Absent /\ overlay' = Absent
  BY DEF appear
<1>2. Updates(inbox')
  BY ResendFacts
<1>3. Remembered'
  BY <1>1 DEF MapInv, Remembered
<1>4. LeadsTo(inbox', "layout.update", tree', lastLayout')
  BY <1>1, ResendFacts DEF LeadsTo
<1>5. LeadsTo(inbox', "agent_graph.response", overlay', lastGraph')
  BY <1>1, ResendFacts DEF LeadsTo
<1>. QED
  BY <1>2, <1>3, <1>4, <1>5 DEF MapInv, Converges

\* The command: a new panel, the hidden one, or the one on display.
LEMMA OpenStep == ASSUME MapInv, OpenMapView PROVE MapInv'
<1>1. panel' = TRUE /\ links' \in Nat \ {0}
  BY DEF MapInv, Remembered, OpenMapView
<1>2. CASE ~panel /\ lastLayout' = Absent /\ lastGraph' = Absent /\ appear
           /\ inbox' = <<>> /\ sent' = Nothing
  <2>1. visible' /\ mapPage' = "loading" /\ tree' = Absent /\ overlay' = Absent
    BY <1>2 DEF appear
  <2>2. Updates(inbox') /\ NoneOf(inbox', "layout.update")
        /\ NoneOf(inbox', "agent_graph.response")
    BY <1>2 DEF Updates, IsSeq, NoneOf
  <2>3. Remembered'
    BY <1>1, <1>2, <2>1 DEF Remembered, Nothing
  <2>4. Converges'
    BY <1>2, <2>1, <2>2 DEF Converges, LeadsTo
  <2>. QED
    BY <2>2, <2>3, <2>4 DEF MapInv
<1>3. CASE appear /\ inbox' = resend /\ UNCHANGED <<lastLayout, lastGraph, sent>>
  BY <1>1, <1>3, AppearStep
<1>4. CASE panel /\ visible /\ UNCHANGED <<lastLayout, lastGraph, visible, webview, sent>>
  BY <1>1, <1>4 DEF MapInv, Remembered, Converges, webview
<1>. QED
  BY <1>2, <1>3, <1>4 DEF OpenMapView

\* A hidden panel and one that is closed have no messages under way.
LEMMA VanishStep == ASSUME MapInv, HidePanel \/ ClosePanel PROVE MapInv'
<1>1. ~visible' /\ inbox' = <<>>
  BY DEF HidePanel, ClosePanel, vanish
<1>2. Updates(inbox')
  BY <1>1 DEF Updates, IsSeq
<1>3. Remembered'
  BY <1>1 DEF MapInv, Remembered, HidePanel, ClosePanel, Nothing
<1>. QED
  BY <1>1, <1>2, <1>3 DEF MapInv, Converges

\* VS Code reports that the panel is visible, which it was: all is sent again.
LEMMA AgainStep == ASSUME MapInv, ViewStateChanges PROVE MapInv'
<1>1. inbox' = inbox \o resend
      /\ UNCHANGED <<panel, links, visible, mapPage, lastLayout, lastGraph, tree, overlay, sent>>
  BY DEF ViewStateChanges, host
<1>2. IsSeq(inbox) /\ IsSeq(resend) /\ Updates(inbox')
  BY <1>1, ResendFacts, UpdatesFacts DEF MapInv, Updates
<1>3. Remembered'
  BY <1>1 DEF MapInv, Remembered
<1>4. visible => LeadsTo(inbox', "layout.update", tree, lastLayout)
  <2>1. CASE lastLayout = Absent
    BY <1>1, <1>2, <2>1, ResendFacts, ConcatLeads DEF MapInv, Converges
  <2>2. CASE lastLayout # Absent
    BY <1>1, <1>2, <2>2, ResendFacts, ConcatLeads
  <2>. QED
    BY <2>1, <2>2
<1>5. visible => LeadsTo(inbox', "agent_graph.response", overlay, lastGraph)
  <2>1. CASE lastGraph = Absent
    BY <1>1, <1>2, <2>1, ResendFacts, ConcatLeads DEF MapInv, Converges
  <2>2. CASE lastGraph # Absent
    BY <1>1, <1>2, <2>2, ResendFacts, ConcatLeads
  <2>. QED
    BY <2>1, <2>2
<1>. QED
  BY <1>1, <1>2, <1>3, <1>4, <1>5 DEF MapInv, Converges

\* An update from the kernel: the panel remembers it and posts it once for each
\* observer, unless it is hidden.
LEMMA EnvelopeStep == ASSUME MapInv, MapEnvelopeArrives PROVE MapInv'
<1>1. panel /\ links \in Nat /\ links # 0 /\ IsSeq(inbox)
      /\ UNCHANGED <<panel, links, visible, mapPage, tree, overlay>>
  BY DEF MapInv, Remembered, Updates, MapEnvelopeArrives
<1>2. CASE \E l \in Layouts : applyLayoutUpdate(l) /\ sent' = [sent EXCEPT !.layout = l]
  <2>1. PICK l \in Layouts : applyLayoutUpdate(l) /\ sent' = [sent EXCEPT !.layout = l]
    BY <1>2
  <2>. DEFINE m == Message("layout.update", l)
  <2>2. m.kind = "layout.update" /\ m.payload = l
    BY DEF Message
  <2>3. /\ lastLayout' = l /\ lastGraph' = lastGraph
        /\ inbox' = IF mapPage = "gone" THEN <<>> ELSE inbox \o copies(m)
    BY <2>1 DEF applyLayoutUpdate
  <2>. HIDE DEF m
  <2>4. Remembered'
    BY <1>1, <2>1, <2>3 DEF MapInv, Remembered
  <2>5. /\ Updates(copies(m)) /\ IsSeq(copies(m))
        /\ LastOf(copies(m), "layout.update", l)
        /\ NoneOf(copies(m), "agent_graph.response")
    BY <1>1, <2>2, CopiesFacts DEF Updates
  <2>6. CASE mapPage = "gone"
    <3>1. ~visible /\ inbox' = <<>>
      BY <2>3, <2>6 DEF MapInv, Remembered
    <3>. QED
      BY <1>1, <2>4, <3>1 DEF MapInv, Converges, Updates, IsSeq
  <2>7. CASE mapPage # "gone"
    <3>1. inbox' = inbox \o copies(m)
      BY <2>3, <2>7
    <3>2. Updates(inbox')
      BY <2>5, <3>1, UpdatesFacts DEF MapInv
    <3>3. LeadsTo(inbox', "layout.update", tree, l)
      BY <1>1, <2>5, <3>1, ConcatLeads
    <3>4. visible => LeadsTo(inbox', "agent_graph.response", overlay, lastGraph)
      BY <1>1, <2>5, <3>1, ConcatLeads DEF MapInv, Converges
    <3>. QED
      BY <1>1, <2>3, <2>4, <3>2, <3>3, <3>4 DEF MapInv, Converges
  <2>. QED
    BY <2>6, <2>7
<1>3. CASE \E g \in Graphs : applyAgentGraphResponse(g) /\ sent' = [sent EXCEPT !.graph = g]
  <2>1. PICK g \in Graphs : applyAgentGraphResponse(g) /\ sent' = [sent EXCEPT !.graph = g]
    BY <1>3
  <2>. DEFINE m == Message("agent_graph.response", g)
  <2>2. m.kind = "agent_graph.response" /\ m.payload = g
    BY DEF Message
  <2>3. /\ lastGraph' = g /\ lastLayout' = lastLayout
        /\ inbox' = IF mapPage = "gone" THEN <<>> ELSE inbox \o copies(m)
    BY <2>1 DEF applyAgentGraphResponse
  <2>. HIDE DEF m
  <2>4. Remembered'
    BY <1>1, <2>1, <2>3 DEF MapInv, Remembered
  <2>5. /\ Updates(copies(m)) /\ IsSeq(copies(m))
        /\ LastOf(copies(m), "agent_graph.response", g)
        /\ NoneOf(copies(m), "layout.update")
    BY <1>1, <2>2, CopiesFacts DEF Updates
  <2>6. CASE mapPage = "gone"
    <3>1. ~visible /\ inbox' = <<>>
      BY <2>3, <2>6 DEF MapInv, Remembered
    <3>. QED
      BY <1>1, <2>4, <3>1 DEF MapInv, Converges, Updates, IsSeq
  <2>7. CASE mapPage # "gone"
    <3>1. inbox' = inbox \o copies(m)
      BY <2>3, <2>7
    <3>2. Updates(inbox')
      BY <2>5, <3>1, UpdatesFacts DEF MapInv
    <3>3. LeadsTo(inbox', "agent_graph.response", overlay, g)
      BY <1>1, <2>5, <3>1, ConcatLeads
    <3>4. visible => LeadsTo(inbox', "layout.update", tree, lastLayout)
      BY <1>1, <2>5, <3>1, ConcatLeads DEF MapInv, Converges
    <3>. QED
      BY <1>1, <2>3, <2>4, <3>2, <3>3, <3>4 DEF MapInv, Converges
  <2>. QED
    BY <2>6, <2>7
<1>. QED
  BY <1>2, <1>3 DEF MapEnvelopeArrives

\* The page handles a message.
LEMMA DeliverStep == ASSUME MapInv, Deliver PROVE MapInv'
<1>1. inbox # <<>> /\ inbox' = Tail(inbox)
      /\ UNCHANGED <<panel, links, visible, mapPage, lastLayout, lastGraph, sent>>
  BY DEF Deliver, host
<1>2. IsSeq(inbox) /\ Updates(inbox')
      /\ Head(inbox).kind \in {"layout.update", "agent_graph.response"}
  BY <1>1, UpdatesFacts DEF MapInv, Updates
<1>3. Remembered'
  BY <1>1 DEF MapInv, Remembered
<1>4. CASE Head(inbox).kind = "layout.update"
  <2>1. tree' = Head(inbox).payload /\ overlay' = overlay
    BY <1>4 DEF Deliver
  <2>2. visible => LeadsTo(inbox', "layout.update", tree', lastLayout)
    BY <1>1, <1>2, <1>4, <2>1, TailLeads DEF MapInv, Converges
  <2>3. visible => LeadsTo(inbox', "agent_graph.response", overlay', lastGraph)
    BY <1>1, <1>2, <1>4, <2>1, TailLeads DEF MapInv, Converges
  <2>. QED
    BY <1>1, <1>2, <1>3, <2>2, <2>3 DEF MapInv, Converges
<1>5. CASE Head(inbox).kind = "agent_graph.response"
  <2>1. overlay' = Head(inbox).payload /\ tree' = tree
    BY <1>5 DEF Deliver
  <2>2. visible => LeadsTo(inbox', "layout.update", tree', lastLayout)
    BY <1>1, <1>2, <1>5, <2>1, TailLeads DEF MapInv, Converges
  <2>3. visible => LeadsTo(inbox', "agent_graph.response", overlay', lastGraph)
    BY <1>1, <1>2, <1>5, <2>1, TailLeads DEF MapInv, Converges
  <2>. QED
    BY <1>1, <1>2, <1>3, <2>2, <2>3 DEF MapInv, Converges
<1>. QED
  BY <1>2, <1>4, <1>5

\* Every step of the map view keeps the invariant.
LEMMA NextMapInv == MapInv /\ [MapNext]_mapVars => MapInv'
<1>. SUFFICES ASSUME MapInv, [MapNext]_mapVars PROVE MapInv'
  OBVIOUS
<1>1. CASE ShowPanel
  <2>1. panel' = TRUE /\ links' \in Nat \ {0}
    BY <1>1 DEF MapInv, Remembered, ShowPanel
  <2>. QED
    BY <1>1, <2>1, AppearStep DEF ShowPanel
<1>2. CASE PageLoads
  BY <1>2 DEF MapInv, Remembered, Converges, PageLoads, host
<1>3. CASE HandleWebviewMessage \/ (\E z \in Ids : beginDrag(z)) \/ onDragEnd
           \/ UNCHANGED mapVars
  <2>1. UNCHANGED <<panel, links, visible, mapPage, lastLayout, lastGraph, inbox, tree,
                    overlay, sent>>
    BY <1>3 DEF HandleWebviewMessage, beginDrag, onDragEnd, mapVars, host,
                webview
  <2>. QED
    BY <2>1 DEF MapInv, Remembered, Converges
<1>. QED
  BY <1>1, <1>2, <1>3, OpenStep, VanishStep, AgainStep, EnvelopeStep, DeliverStep DEF
     MapNext

\* Whatever happened while the panel was hidden, loading or opened twice, the
\* messages under way leave the map showing the last layout and the last agent
\* graph that the kernel sent since the panel was created (the resend of
\* onDidChangeViewState and the observers of the openMapView command).
THEOREM MapMissesNothing == MapSpec => []NothingMissed
<1>1. MapInit => MapInv
  <2>. SUFFICES ASSUME MapInit PROVE MapInv
    OBVIOUS
  <2>1. ~visible /\ ~panel /\ links = 0 /\ inbox = <<>> /\ sent = [layout |-> lastLayout, graph |-> lastGraph]
    BY DEF MapInit, Nothing
  <2>. QED
    BY <2>1 DEF MapInv, Updates, IsSeq, Remembered, Converges
<1>2. MapInv => NothingMissed
  <2>. SUFFICES ASSUME MapInv, visible
                PROVE  /\ Final("layout.update", tree) = sent.layout
                       /\ Final("agent_graph.response", overlay) = sent.graph
    BY DEF NothingMissed
  <2>1. IsSeq(inbox) /\ sent.layout = lastLayout /\ sent.graph = lastGraph
    BY DEF MapInv, Updates, Remembered
  <2>. QED
    BY <2>1, FinalIs DEF MapInv, Converges
<1>. QED
  BY <1>1, <1>2, NextMapInv, PTL DEF MapSpec
=============================================================================
