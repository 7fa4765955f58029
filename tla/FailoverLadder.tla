--------------------------- MODULE FailoverLadder ---------------------------
(***************************************************************************)
(* What the A/B slot manager promises, without attempts, versions or       *)
(* statuses (the comment of fw_update_mark_boot_failed: "Slot A, N         *)
(* failures, Slot B, N failures, Recovery").                               *)
(*                                                                         *)
(* Some slots are live.  The booting slot changes only when a main slot is *)
(* reflashed or when the booting slot dies, and then a live main slot is   *)
(* preferred to Recovery, and any live slot to a dead one.  The promise    *)
(* ends when an operator overrides the selection.                          *)
(***************************************************************************)
CONSTANTS Main, Recovery

VARIABLES live, booting, overridden

vars == <<live, booting, overridden>>

All == Main \cup {Recovery}

Init == live = All /\ booting \in Main /\ overridden = FALSE

\* A main slot receives new firmware and boots next.
Reflash(s) ==
  /\ live' = live \cup {s}
  /\ booting' = s
  /\ UNCHANGED overridden

\* The slots that may follow when only the slots in l are left alive.
Successors(l) ==
  IF l \cap Main # {} THEN l \cap Main
  ELSE IF Recovery \in l THEN {Recovery} ELSE All

\* The booting slot has failed once too often.
Die ==
  /\ live' = live \ {booting}
  /\ booting' \in Successors(live')
  /\ UNCHANGED overridden

\* The operator takes the choice away from the ladder.
Override == overridden' = TRUE

Next ==
  \/ ~overridden /\ (Die \/ \E s \in Main : Reflash(s))
  \/ Override

Spec == Init /\ [][Next]_vars
=============================================================================
