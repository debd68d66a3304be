------------------------------ MODULE RefereeMock ------------------------------
(***************************************************************************)
(* The window that stands in for the referee system: a form with the       *)
(* fields of game_state, published on a button, on a timer or by a preset, *)
(* and a monitor of what the decision tree sends.  Everything happens in   *)
(* the thread of the window; a timer of 20 ms runs the node's callbacks.   *)
(*                                                                         *)
(* Of the eleven fields those that a preset sets are kept, and one more    *)
(* for the rest.                                                           *)
(***************************************************************************)
EXTENDS Integers, FiniteSetsExt

CONSTANTS Configs,     \* values of the node's parameters
          Typed,       \* what the operator types, for each field a set of values
          Rates,       \* publish rates, in tenths of a hertz
          Outputs,     \* the monitored topics
          Payloads,    \* their messages
          StaleAfter,  \* display_stale_timeout_sec, in time units of many timer periods
          LastSecond   \* bound: time is not followed further

ASSUME RefereeAssumption == StaleAfter \in Nat /\ "none" \notin Payloads

VARIABLES fields, rate,        \* the node: what it publishes, and how often
          form, rateBox,       \* the window: what it shows
          autoPublish, period, \* is the button down; period of the timer in ms, 0 stopped
          published,           \* the last game_state, or Nothing
          scenario,            \* history: the preset since which nothing was typed
          inbox, output,       \* of each topic: message not yet taken, and what is known
          label, arrived,      \* what the monitor shows; history: when a message last came
          second, spun, ended  \* the clock, has the timer run since it moved, is it over
formVars == <<fields, rate, form, rateBox, autoPublish, period, published, scenario>>
monitorVars == <<inbox, output, label, arrived, second, spun>>
refereeVars == <<formVars, monitorVars, ended>>

Nothing == [gp |-> 0-1]
Names == {"gp", "hp", "stage", "ammo", "outpost", "other"}

\* Parameters are cast to the widths of the fields.
Cast(c) == [k \in Names |-> c[k] % (IF k \in {"gp", "other"} THEN 256 ELSE 65536)]

\* A phase that the list does not have leaves it as it is; the boxes keep to their ranges.
Limit == [hp |-> 10000, stage |-> 65535, ammo |-> 10000, outpost |-> 10000, other |-> 255]
Shown(old, f) ==
  [k \in Names |-> IF k = "gp" THEN (IF f.gp \in 0 .. 5 THEN f.gp ELSE old.gp)
                   ELSE Min({f[k], Limit[k]})]
RateShown(hz) == Max({5, Min({hz, 500})})

\* The presets: what each sets, and what it leaves.
Presets == {"battle", "countdown", "outpost", "supply", "healed"}
Sets(p) ==
  CASE p = "battle" -> [gp |-> 4, hp |-> 400, stage |-> 400, ammo |-> 500,
                        outpost |-> 1500, other |-> 0]
    [] p = "countdown" -> [gp |-> 3, stage |-> 10]
    [] p = "outpost" -> [gp |-> 4, stage |-> 420, outpost |-> 0]
    [] p = "supply" -> [gp |-> 4, stage |-> 400, outpost |-> 1500, hp |-> 100, ammo |-> 0]
    [] p = "healed" -> [gp |-> 4, outpost |-> 0, hp |-> 400, ammo |-> 500]
Preset(p, f) == [k \in Names |-> IF k \in DOMAIN Sets(p) THEN Sets(p)[k] ELSE f[k]]

RefereeInit ==
  /\ \E c \in Configs :
       /\ fields = Cast(c) /\ rate = c.rate
       /\ form = Shown([k \in Names |-> 0], fields) /\ rateBox = RateShown(c.rate)
       /\ autoPublish = FALSE /\ period = 0
  /\ published = Nothing /\ scenario = "none"
  /\ inbox = [o \in Outputs |-> "none"]
  /\ output = [o \in Outputs |-> [value |-> "none", at |-> 0, stale |-> TRUE]]
  /\ label = [o \in Outputs |-> [mode |-> "waiting", value |-> "none"]]
  /\ arrived = [o \in Outputs |-> 0]
  /\ second = 0 /\ spun = TRUE /\ ended = FALSE

\* sync_node_from_ui; a new period waits until the button is used.
Synced == fields' = form' /\ rate' = Max({1, rateBox})

\* Mutant of PublishForm: the node's own copy is published.
PublishFormOld == Synced /\ published' = fields
PublishForm == Synced /\ published' = fields'

Type ==
  /\ ~ended
  /\ \/ \E k \in Names : \E v \in Typed[k] : form' = [form EXCEPT ![k] = v] /\ UNCHANGED rateBox
     \/ \E hz \in Rates : rateBox' = RateShown(hz) /\ UNCHANGED form
  /\ scenario' = "none"
  /\ UNCHANGED <<fields, rate, autoPublish, period, published, monitorVars, ended>>

Apply ==
  /\ ~ended /\ UNCHANGED form /\ PublishForm
  /\ UNCHANGED <<rateBox, autoPublish, period, scenario, monitorVars, ended>>

\* Also what the constructor does at last, when auto_publish says so.
Toggle ==
  /\ ~ended /\ UNCHANGED form /\ Synced
  /\ autoPublish' = ~autoPublish
  /\ period' = IF autoPublish' THEN 10000 \div rate' ELSE 0
  /\ UNCHANGED <<rateBox, published, scenario, monitorVars, ended>>

PublishTimer ==
  /\ ~ended /\ period # 0 /\ UNCHANGED form /\ PublishForm
  /\ UNCHANGED <<rateBox, autoPublish, period, scenario, monitorVars, ended>>

ClickPreset ==
  /\ ~ended
  /\ \E p \in Presets : form' = Shown(form, Preset(p, form)) /\ scenario' = p
  /\ PublishForm
  /\ UNCHANGED <<rateBox, autoPublish, period, monitorVars, ended>>

\* A message of the decision tree.
Output ==
  /\ ~ended
  /\ \E o \in Outputs, v \in Payloads :
       inbox' = [inbox EXCEPT ![o] = v] /\ arrived' = [arrived EXCEPT ![o] = second]
  /\ UNCHANGED <<formVars, output, label, second, spun, ended>>

\* What is known of a topic when its message v, if any, has been taken and its age looked at.
\* Mutant of Updated: the age is only looked at when a message comes.
UpdatedOnMessage(o, v) ==
  IF v # "none" THEN [value |-> v, at |-> second, stale |-> FALSE] ELSE output[o]
Updated(o, v) ==
  LET known == IF v # "none" THEN [output[o] EXCEPT !.value = v, !.at = second] ELSE output[o]
  IN  [known EXCEPT !.stale = known.value = "none" \/ second - known.at > StaleAfter]

Labelled(u) ==
  [mode |-> IF u.value = "none" THEN "waiting" ELSE IF u.stale THEN "stale" ELSE "live",
   value |-> u.value]

\* The timer of 20 ms: the callbacks that wait, then the ages, then the labels.
SpinTimer ==
  /\ ~ended
  /\ inbox' = [o \in Outputs |-> "none"]
  /\ output' = [o \in Outputs |-> Updated(o, inbox[o])]
  /\ label' = [o \in Outputs |-> Labelled(output'[o])]
  /\ spun' = TRUE
  /\ UNCHANGED <<formVars, arrived, second, ended>>

\* Time units are long for the timer: it runs in every one.
Later ==
  /\ ~ended /\ spun /\ second < LastSecond /\ second' = second + 1 /\ spun' = FALSE
  /\ UNCHANGED <<formVars, inbox, output, label, arrived, ended>>

\* The context has been shut down: the timers stop and the window closes.
Close ==
  /\ ~ended /\ ended' = TRUE /\ period' = 0
  /\ UNCHANGED <<fields, rate, form, rateBox, autoPublish, published, scenario, monitorVars>>

RefereeNext ==
  Type \/ Apply \/ Toggle \/ PublishTimer \/ ClickPreset \/ Output \/ SpinTimer \/ Later \/ Close
RefereeSpec == RefereeInit /\ [][RefereeNext]_refereeVars
----------------------------------------------------------------------------
(* Properties *)

\* The tree gets the scenario that was asked for, and keeps getting it: since the click no
\* publication, of the timer or of the button, has carried other values.
ScenarioHolds ==
  scenario # "none" => \A k \in DOMAIN Sets(scenario) : published[k] = Sets(scenario)[k]

\* An output shown as live came within the timeout, up to the units in which it waited to be
\* taken and in which the label waits; one that the tree no longer sends does not look alive.
LiveIsRecent ==
  \A o \in Outputs : label[o].mode = "live" => second - arrived[o] <= StaleAfter + 2

\* What the form publishes and what the monitor shows: see each.
MockIsTruthful == ScenarioHolds /\ LiveIsRecent
================================================================================
