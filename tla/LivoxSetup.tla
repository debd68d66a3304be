------------------------------- MODULE LivoxSetup -------------------------------
(***************************************************************************)
(* livox_lidar_callback.cpp: how the driver configures a lidar that        *)
(* appears.  The options of the user's file are sent one by one with       *)
(* config_mutex_ held, and each leaves a bit until the lidar accepts it;   *)
(* the answers come on threads of the SDK, and the one that clears the     *)
(* last bit lets the poll threads publish what the lidar measures.         *)
(***************************************************************************)
EXTENDS Naturals

CONSTANTS
  Lidars,     \* 1..n, the slots of Lds::lidars_
  Options,    \* the options that leave a bit in set_bits
  Unmarked,   \* those that leave none: "attitude", "mode", "imu"
  MaxInfos    \* bound: times the SDK reports a lidar

ASSUME LidarAssumption == Lidars \subseteq Nat \ {0}
ASSUME OptionAssumption == Options \cap Unmarked = {}
ASSUME InfoAssumption == MaxInfos \in Nat

VARIABLES
  config,     \* the options the user's file sets for each lidar
  informing,  \* the lidar whose callback holds config_mutex_, or 0
  todo,       \* the options that callback has still to send
  setBits,    \* livox_config.set_bits
  asked,      \* how many requests for each setting are unanswered
  accepted,   \* history: the options each lidar has accepted
  connected,  \* connect_state = kConnectStateSampling
  infos       \* the reports so far, for the bound

setupVars == <<config, informing, todo, setBits, asked, accepted, connected, infos>>

Settings == Options \cup Unmarked

SetupInit ==
  /\ config \in [Lidars -> SUBSET Options]
  /\ informing = 0 /\ todo = {} /\ infos = 0
  /\ setBits = [l \in Lidars |-> {}]
  /\ asked = [l \in Lidars |-> [o \in Settings |-> 0]]
  /\ accepted = [l \in Lidars |-> {}]
  /\ connected = [l \in Lidars |-> FALSE]

\* LidarInfoChangeCallback for a lidar of the user's file, and again when it reconnects.
InfoChange(l) ==
  /\ informing = 0 /\ infos < MaxInfos
  /\ informing' = l /\ todo' = config[l] /\ infos' = infos + 1
  /\ UNCHANGED <<config, setBits, asked, accepted, connected>>

SendOption(o) ==
  /\ informing # 0 /\ o \in todo
  /\ todo' = todo \ {o}
  /\ setBits' = [setBits EXCEPT ![informing] = @ \cup {o}]
  /\ asked' = [asked EXCEPT ![informing][o] = @ + 1]
  /\ UNCHANGED <<config, informing, accepted, connected, infos>>

\* The lock is released, and the settings without a bit are sent.
SendRest ==
  /\ informing # 0 /\ todo = {}
  /\ asked' = [asked EXCEPT ![informing] =
                 [o \in Settings |-> IF o \in Options THEN @[o] ELSE @[o] + 1]]
  /\ informing' = 0
  /\ UNCHANGED <<config, todo, setBits, accepted, connected, infos>>

Answered(l, o) == asked' = [asked EXCEPT ![l][o] = @ - 1]

\* Mutant of Unlocked: an answer does not wait for config_mutex_.
Always == TRUE
Unlocked == informing = 0

\* Set...Callback with kLivoxLidarStatusSuccess.
Accepts(l, o) ==
  /\ asked[l][o] > 0 /\ Answered(l, o)
  /\ accepted' = [accepted EXCEPT ![l] = @ \cup {o}]
  /\ IF o \in Options
     THEN /\ Unlocked
          /\ setBits' = [setBits EXCEPT ![l] = @ \ {o}]
          /\ connected' = [connected EXCEPT ![l] = @ \/ setBits'[l] = {}]
     ELSE UNCHANGED <<setBits, connected>>
  /\ UNCHANGED <<config, informing, todo, infos>>

\* A timeout: every setting is sent again.  WorkModeChangedCallback does so after any
\* failure.
TimesOut(l, o) ==
  /\ asked[l][o] > 0
  /\ UNCHANGED setupVars

\* Any other failure is reported and given up: the bit stays.
Refuses(l, o) ==
  /\ asked[l][o] > 0 /\ o # "mode"
  /\ Answered(l, o)
  /\ UNCHANGED <<config, informing, todo, setBits, accepted, connected, infos>>

Answer(l, o) == Accepts(l, o) \/ TimesOut(l, o) \/ Refuses(l, o)

SetupNext ==
  \/ \E l \in Lidars : InfoChange(l) \/ \E o \in Settings : Answer(l, o)
  \/ \E o \in Options : SendOption(o)
  \/ SendRest

SetupSpec == SetupInit /\ [][SetupNext]_setupVars

-------------------------------------------------------------------------------
\* A lidar is published only when it has accepted every option of the user's file: an
\* answer that overtakes the callback which is still sending does not find the bits
\* cleared.
SamplesAsConfigured == \A l \in Lidars : connected[l] => config[l] \subseteq accepted[l]
===============================================================================
