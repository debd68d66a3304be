------------------------------ MODULE Localization ------------------------------
(***************************************************************************)
(* The relocalization and the manager of map -> odom: what one accepts     *)
(* reaches the other over a topic, while the clock moves between them.     *)
(***************************************************************************)
EXTENDS MapOdomTfManager, GicpRelocalization

LocalizationInit == Init /\ mode = "gicp" /\ GicpInit

Deliver ==
  /\ results # <<>>
  /\ OnGicp(Head(results).stamp)
  /\ results' = Tail(results)
  /\ UNCHANGED <<targetTree, lastScan, gathered, estimate, matched>>

Managing ==
  /\ \/ NothingPending \/ TrySlam \/ Tick \/ Publish \/ PublishStatus
     \/ \E t \in Times : SetClock(t)
  /\ UNCHANGED gicpVars

LocalizationNext ==
  \/ Deliver
  \/ Managing
  \/ GicpNext /\ UNCHANGED vars

LocalizationSpec == LocalizationInit /\ [][LocalizationNext]_<<vars, gicpVars>>

\* "No heartbeat on failure: the manager must distinguish fresh matches from held TF":
\* every result under way is the pose of a registration at the newest scan it used, and
\* the manager holds and reports as tracking nothing else, however scans, results, the
\* operator's poses and the clock are interleaved.
OnlyMatchesHeld ==
  /\ \A i \in DOMAIN results : results[i].pose = results[i].stamp
  /\ mode = "gicp" /\ hasResult => current \in matched
===============================================================================
