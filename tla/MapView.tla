------------------------------ MODULE MapView ------------------------------
(***************************************************************************)
(* The map view: the openMapView command and its wiring (extension.ts),    *)
(* the MapViewPanel singleton, and the webview script with its drag state  *)
(* (webviews/map-view-panel.ts, map-view-renderer.ts).                     *)
(*                                                                         *)
(* VS Code is external: a hidden webview is destroyed with its state and   *)
(* its messages; one that is shown again loads its page anew and receives, *)
(* in order, what is posted from then on.  Geometry is in MapLayout; here  *)
(* a layout is what it shows, and a drag is where it started.              *)
(*                                                                         *)
(* ResendLayoutOnly and DeliverUnlessDragging are faulty variants of the   *)
(* definition that follows each; no action uses them.                      *)
(***************************************************************************)
EXTENDS Integers, Sequences

CONSTANTS
  Layouts, Graphs,  \* payloads of layout.update and agent_graph.response
  Ids,              \* the ids of the nodes of the layouts
  Zones(_),         \* the ids of the zones of a layout, which can be dragged
  Absent,           \* no payload, no drag
  MaxLinks,         \* bound on the openMapView calls for one panel
  MaxInbox,         \* bound on the messages under way to the webview
  MaxEdits          \* bound on the edits under way to the host

ASSUME MapAssumption ==
  /\ Absent \notin Layouts \cup Graphs
  /\ MaxLinks \in Nat \ {0} /\ MaxInbox \in Nat /\ MaxEdits \in Nat

VARIABLES
  panel,       \* there is a MapViewPanel.current
  links,       \* its map observers at the router and its edit listeners
  leftover,    \* observers of disposed panels are still at the router
  visible,     \* the panel is visible
  mapPage,     \* its webview: "gone", "loading" or "live"
  lastLayout, lastGraph,  \* what the panel remembers
  inbox,       \* messages posted to the webview and not delivered
  tree, overlay,          \* lastTree and agentOverlay of the webview script
  drag,        \* the zone being dragged and the layout the drag began in
  outbox,      \* layout.edit messages posted to the host and not handled
  shipped,     \* envelopes the last layout.edit message was turned into
  sent         \* history: the kernel's last payloads since the panel was made

host    == <<panel, links, leftover, visible, lastLayout, lastGraph>>
webview == <<mapPage, inbox, tree, overlay, drag>>
mapVars == <<host, webview, outbox, shipped, sent>>

Nothing == [layout |-> Absent, graph |-> Absent]
Message(kind, payload) == [kind |-> kind, payload |-> payload]

MapTypeOK ==
  /\ panel \in BOOLEAN /\ links \in 0 .. MaxLinks /\ leftover \in BOOLEAN
  /\ visible \in BOOLEAN /\ mapPage \in {"gone", "loading", "live"}
  /\ visible <=> mapPage # "gone"
  /\ lastLayout \in Layouts \cup {Absent} /\ lastGraph \in Graphs \cup {Absent}
  /\ tree \in Layouts \cup {Absent} /\ overlay \in Graphs \cup {Absent}
  /\ mapPage # "live" => tree = Absent /\ overlay = Absent /\ drag = Absent
  /\ drag # Absent => drag.zone \in Zones(drag.layout)
  /\ ~panel => ~visible /\ outbox = <<>> /\ links = 0

MapInit ==
  /\ panel = FALSE /\ links = 0 /\ leftover = FALSE
  /\ visible = FALSE /\ mapPage = "gone"
  /\ lastLayout = Absent /\ lastGraph = Absent
  /\ inbox = <<>> /\ tree = Absent /\ overlay = Absent /\ drag = Absent
  /\ outbox = <<>> /\ shipped = 0
  /\ sent = Nothing

-----------------------------------------------------------------------------
(* The host side.                                                          *)

ResendLayoutOnly ==
  IF lastLayout # Absent THEN <<Message("layout.update", lastLayout)>> ELSE <<>>

\* onDidChangeViewState, visible: layout first, overlay second.
resend ==
  (IF lastLayout # Absent THEN <<Message("layout.update", lastLayout)>> ELSE <<>>)
  \o (IF lastGraph # Absent THEN <<Message("agent_graph.response", lastGraph)>> ELSE <<>>)

\* A webview that appears loads its page; nothing of the old one is left.
appear ==
  /\ visible' = TRUE /\ mapPage' = "loading"
  /\ tree' = Absent /\ overlay' = Absent /\ drag' = Absent

vanish ==
  /\ visible' = FALSE /\ mapPage' = "gone" /\ inbox' = <<>>
  /\ tree' = Absent /\ overlay' = Absent /\ drag' = Absent

\* The command creates the panel, or reveals the one there is.  In both cases
\* it registers another map observer and another edit listener, which nothing
\* but the end of the extension disposes.
OpenMapView ==
  /\ links < MaxLinks
  /\ panel' = TRUE /\ links' = links + 1
  /\ \/ /\ ~panel
        /\ lastLayout' = Absent /\ lastGraph' = Absent
        /\ appear /\ inbox' = <<>> /\ sent' = Nothing
     \/ /\ panel /\ ~visible
        /\ appear /\ inbox' = resend
        /\ UNCHANGED <<lastLayout, lastGraph, sent>>
     \/ /\ panel /\ visible
        /\ UNCHANGED <<lastLayout, lastGraph, visible, webview, sent>>
  /\ UNCHANGED <<leftover, outbox, shipped>>

\* The operator changes to another tab, back, or within the window.
HidePanel ==
  /\ panel /\ visible
  /\ vanish
  /\ UNCHANGED <<panel, links, leftover, lastLayout, lastGraph, outbox, shipped, sent>>

ShowPanel ==
  /\ panel /\ ~visible
  /\ appear /\ inbox' = resend
  /\ UNCHANGED <<panel, links, leftover, lastLayout, lastGraph, outbox, shipped, sent>>

ViewStateChanges ==
  /\ panel /\ visible /\ Len(inbox) + 2 <= MaxInbox
  /\ inbox' = inbox \o resend
  /\ UNCHANGED <<host, mapPage, tree, overlay, drag, outbox, shipped, sent>>

\* dispose(), from the tab's close button.
ClosePanel ==
  /\ panel
  /\ panel' = FALSE /\ links' = 0 /\ leftover' = TRUE
  /\ lastLayout' = Absent /\ lastGraph' = Absent
  /\ vanish /\ outbox' = <<>> /\ sent' = Nothing
  /\ UNCHANGED shipped

\* The router calls every map observer; those of panels that were disposed
\* return at once, each one of the current panel applies and posts.
copies(m) == [i \in 1 .. links |-> m]

applyLayoutUpdate(l) ==
  /\ lastLayout' = l
  /\ inbox' = IF mapPage = "gone" THEN <<>> ELSE inbox \o copies(Message("layout.update", l))
  /\ UNCHANGED lastGraph

applyAgentGraphResponse(g) ==
  /\ lastGraph' = g
  /\ inbox' = IF mapPage = "gone" THEN <<>>
              ELSE inbox \o copies(Message("agent_graph.response", g))
  /\ UNCHANGED lastLayout

MapEnvelopeArrives ==
  /\ panel /\ Len(inbox) + links <= MaxInbox
  /\ \/ \E l \in Layouts : applyLayoutUpdate(l) /\ sent' = [sent EXCEPT !.layout = l]
     \/ \E g \in Graphs : applyAgentGraphResponse(g) /\ sent' = [sent EXCEPT !.graph = g]
  /\ UNCHANGED <<panel, links, leftover, visible, mapPage, tree, overlay, drag, outbox, shipped>>

\* handleWebviewMessage fires the emitter: every listener wraps the payload in
\* an envelope of its own.
HandleWebviewMessage ==
  /\ outbox # <<>>
  /\ outbox' = Tail(outbox)
  /\ shipped' = links
  /\ UNCHANGED <<host, webview, sent>>

-----------------------------------------------------------------------------
(* The webview script.                                                     *)

\* The message listener is there when the script has run.
PageLoads ==
  /\ mapPage = "loading" /\ mapPage' = "live"
  /\ UNCHANGED <<host, inbox, tree, overlay, drag, outbox, shipped, sent>>

DeliverUnlessDragging ==
  /\ mapPage = "live" /\ inbox # <<>> /\ drag = Absent
  /\ inbox' = Tail(inbox)
  /\ IF Head(inbox).kind = "layout.update"
     THEN tree' = Head(inbox).payload /\ UNCHANGED overlay
     ELSE overlay' = Head(inbox).payload /\ UNCHANGED tree
  /\ UNCHANGED <<host, mapPage, drag, outbox, shipped, sent>>

\* A new layout is indexed, laid out and drawn with the overlay there is; a
\* drag goes on, with the coordinates it started from.
Deliver ==
  /\ mapPage = "live" /\ inbox # <<>>
  /\ inbox' = Tail(inbox)
  /\ IF Head(inbox).kind = "layout.update"
     THEN tree' = Head(inbox).payload /\ UNCHANGED overlay
     ELSE overlay' = Head(inbox).payload /\ UNCHANGED tree
  /\ UNCHANGED <<host, mapPage, drag, outbox, shipped, sent>>

\* Only zones have a mousedown listener.  A drag whose mouseup was missed is
\* replaced.
beginDrag(z) ==
  /\ mapPage = "live" /\ tree # Absent /\ z \in Zones(tree)
  /\ drag' = [zone |-> z, layout |-> tree]
  /\ UNCHANGED <<host, mapPage, inbox, tree, overlay, outbox, shipped, sent>>

onDragEnd ==
  /\ drag # Absent /\ Len(outbox) < MaxEdits
  /\ drag' = Absent
  /\ outbox' = Append(outbox, drag.zone)
  /\ UNCHANGED <<host, mapPage, inbox, tree, overlay, shipped, sent>>

MapNext ==
  \/ OpenMapView \/ HidePanel \/ ShowPanel \/ ViewStateChanges \/ ClosePanel
  \/ MapEnvelopeArrives \/ HandleWebviewMessage
  \/ PageLoads \/ Deliver
  \/ (\E z \in Ids : beginDrag(z))
  \/ onDragEnd

\* A page that is shown loads, and VS Code delivers what was posted.
MapFairness == WF_mapVars(PageLoads) /\ WF_mapVars(Deliver)

MapSpec == MapInit /\ [][MapNext]_mapVars /\ MapFairness

-----------------------------------------------------------------------------
(* Properties.                                                             *)

\* What a message sequence leaves on the map: the last of each kind.
Final(kind, now) ==
  LET hits == {i \in DOMAIN inbox : inbox[i].kind = kind}
  IN  IF hits = {} THEN now
      ELSE inbox[CHOOSE i \in hits : \A j \in hits : j <= i].payload

\* The map never misses an update: whatever happened while the panel was
\* hidden, loading or opened twice, the map will show the last layout and the
\* last agent graph that the kernel sent since the panel was created, as soon
\* as the messages under way are handled.
NothingMissed ==
  visible => /\ Final("layout.update", tree) = sent.layout
             /\ Final("agent_graph.response", overlay) = sent.graph

\* And it gets there: every layout and every agent graph that the kernel sends,
\* while the panel is visible or before, comes to be shown, unless the operator
\* hides the panel or a newer one replaces it first.
MapCatchesUp ==
  /\ \A l \in Layouts :
       (visible /\ sent.layout = l) ~> (~visible \/ sent.layout # l \/ tree = l)
  /\ \A g \in Graphs :
       (visible /\ sent.graph = g) ~> (~visible \/ sent.graph # g \/ overlay = g)

\* "Tear the wiring down with the panel" (extension.ts:798): no observer of a
\* panel that was disposed is left at the router.
WiringTornDown == ~leftover
=============================================================================
