----------------------------- MODULE WaypointPanel -----------------------------
(***************************************************************************)
(* The panel of the waypoint editor: its buttons call services, most of    *)
(* them the editor tool's, and answers come back as events of the window.  *)
(* Panel and tool share RViz's thread, so a handler is one action; but     *)
(* calls wait to be served, answers to be taken and what they ask of the   *)
(* window to be done, and calls of different services have no order.       *)
(***************************************************************************)
EXTENDS Integers, Sequences

CONSTANTS Topics, Types, Distances,  \* what the controls of the capture may show
          Buttons,                   \* of the waypoints: undo, redo, clear, load, save
          MaxClicks                  \* bound

ASSUME PanelAssumption == /\ MaxClicks \in Nat /\ Distances \subseteq Nat \ {0}
                          /\ "start" \notin Buttons /\ "stop" \notin Buttons

VARIABLES
  checked, locked,  \* the capture's button and whether its controls are disabled
  shown,            \* what the controls show
  statusLine,       \* the status line
  calls,            \* requests without their answer taken; ok is the answer, or "none"
  posted,           \* what answers ask of the window, in order
  distance,         \* the distance on its way to the tool, 0 for none
  cloud,            \* has a 3D map been published
  tool,             \* the tool: does it capture, at what distance, from which subscription
  clicks,           \* calls made
  clean             \* history: the last click on the capture's button was undisturbed
panelVars == <<checked, locked, shown, statusLine, calls, posted, distance, cloud, tool, clicks, clean>>

PanelInit ==
  /\ checked = FALSE /\ locked = FALSE
  /\ shown \in [topic : Topics, type : Types, dist : Distances]
  /\ statusLine = "start" /\ calls = {} /\ posted = <<>> /\ distance = 0 /\ cloud = FALSE
  /\ tool \in [on : {FALSE}, topic : Topics, type : Types, dist : Distances]
  /\ clicks = 0 /\ clean = TRUE

Settled == calls = {} /\ posted = <<>> /\ distance = 0
Call(svc) == [n |-> clicks, svc |-> svc, ok |-> "none"]
Post(ops) == posted' = posted \o ops
Say(text) == <<[op |-> "status", to |-> text]>>

\* The button, text and controls as they are without a capture.
Released == checked' = FALSE /\ locked' = FALSE

\* set_parameters, in whose callback the tool subscribes anew.
Subscribed == tool' = [tool EXCEPT !.topic = shown.topic, !.type = shown.type]

\* onAutoToggle
OnAutoToggle ==
  /\ clicks < MaxClicks /\ clicks' = clicks + 1
  /\ distance' = shown.dist
  /\ \/ /\ Subscribed
        /\ calls' = calls \cup {Call(IF ~checked THEN "start" ELSE "stop")}
        /\ checked' = ~checked /\ locked' = (~checked \/ locked)
        /\ clean' = Settled /\ UNCHANGED posted
     \/ \* the service does not answer within 500 ms
        /\ Subscribed /\ Released /\ clean' = FALSE
        /\ Post(Say("unavailable")) /\ UNCHANGED calls
     \/ \* someone rejects the parameters
        /\ Released /\ clean' = FALSE
        /\ Post(Say("rejected")) /\ UNCHANGED <<calls, tool>>
  /\ UNCHANGED <<shown, statusLine, cloud>>

Edit ==
  /\ ~locked
  /\ \/ \E t \in Topics : shown' = [shown EXCEPT !.topic = t]
     \/ \E t \in Types : shown' = [shown EXCEPT !.type = t]
     \/ \E d \in Distances : shown' = [shown EXCEPT !.dist = d]
  /\ UNCHANGED <<checked, locked, statusLine, calls, posted, distance, cloud, tool, clicks, clean>>

\* The buttons of the waypoints, and that of the 2D map once a file is chosen: without the
\* service nothing happens, not even to the status line.
Press ==
  /\ clicks < MaxClicks /\ clicks' = clicks + 1
  /\ \E b \in Buttons \cup {"map"} : calls' = calls \cup {Call(b)}
  /\ UNCHANGED <<checked, locked, shown, statusLine, posted, distance, cloud, tool, clean>>

\* The 3D map is read and published by the panel itself.
Load3DMap ==
  /\ \/ cloud' = TRUE /\ Post(Say("loaded"))
     \/ UNCHANGED cloud /\ Post(Say("failed"))
  /\ clicks < MaxClicks /\ clicks' = clicks + 1
  /\ UNCHANGED <<checked, locked, shown, statusLine, calls, distance, tool, clean>>

-------------------------------------------------------------------------------
\* The tool: auto_waypoint_min_distance, and the services.
TakeDistance ==
  /\ distance # 0 /\ distance' = 0
  /\ tool' = [tool EXCEPT !.dist = distance]
  /\ UNCHANGED <<checked, locked, shown, statusLine, calls, posted, cloud, clicks, clean>>

Answered(c, ok) == calls' = (calls \ {c}) \cup {[c EXCEPT !.ok = ok]}
Capture(c) ==
  c.svc \in {"start", "stop"} /\ tool' = [tool EXCEPT !.on = c.svc = "start"] /\ Answered(c, "yes")
Other(c) ==
  /\ c.svc \notin {"start", "stop"} /\ UNCHANGED tool
  /\ \E ok \in {"yes", "no"} : Answered(c, ok)
Serve ==
  /\ \E c \in calls : c.ok = "none" /\ (Capture(c) \/ Other(c))
  /\ UNCHANGED <<checked, locked, shown, statusLine, posted, distance, cloud, clicks, clean>>

\* Mutant of Asked: the controls are only ever disabled.
AskedOnStart(c) ==
  Say(c.svc) \o (IF c.svc # "start" THEN <<>> ELSE <<[op |-> "enable", to |-> FALSE]>>)
\* What the answer to c asks of the window.
Asked(c) ==
  Say(c.svc) \o
  (IF c.svc \notin {"start", "stop"} THEN <<>>
   ELSE IF c.ok = "yes" THEN <<[op |-> "enable", to |-> c.svc # "start"]>>
   ELSE <<[op |-> "uncheck"], [op |-> "enable", to |-> TRUE]>>)

TakeAnswer ==
  /\ \E c \in calls : c.ok # "none" /\ calls' = calls \ {c} /\ Post(Asked(c))
  /\ UNCHANGED <<checked, locked, shown, statusLine, distance, cloud, tool, clicks, clean>>

\* The window does what was asked of it, in order.
WindowEvent ==
  /\ posted # <<>> /\ posted' = Tail(posted)
  /\ LET e == Head(posted)
     IN  /\ statusLine' = IF e.op = "status" THEN e.to ELSE statusLine
         /\ checked' = (checked /\ e.op # "uncheck")
         /\ locked' = IF e.op = "enable" THEN ~e.to ELSE locked
  /\ UNCHANGED <<shown, calls, distance, cloud, tool, clicks, clean>>

PanelNext ==
  \/ OnAutoToggle \/ Edit \/ Press \/ Load3DMap
  \/ TakeDistance \/ Serve \/ TakeAnswer \/ WindowEvent
PanelSpec == PanelInit /\ [][PanelNext]_panelVars
-------------------------------------------------------------------------------
\* Whatever clicks crossed their answers before, one undisturbed click on the capture's
\* button brings panel and tool together: the button is down, and the controls are
\* locked, exactly while the tool captures, and it captures what they show.
ClickRestoresAgreement ==
  Settled /\ clean =>
    /\ checked = tool.on /\ locked = tool.on
    /\ tool.on => \A k \in DOMAIN shown : tool[k] = shown[k]
================================================================================
