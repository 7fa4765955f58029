---------------------------- MODULE EventReplay -----------------------------
(***************************************************************************)
(* The replay of an event log for one PCR, which every measured boot of the *)
(* repository checks its PCRs against: from zero, the digest of each event  *)
(* that names the PCR is extended into it, in the order of the log.         *)
(*                                                                         *)
(* As everywhere here hashes do not collide, so the value of a PCR is the   *)
(* sequence of the digests extended into it.                               *)
(***************************************************************************)
EXTENDS Integers, Sequences

\* The loop of mb_event_log_validate over the events of a log.
Replay(log, p) ==
  LET value[n \in 0 .. Len(log)] ==
        IF n = 0 THEN << >>
        ELSE IF log[n].pcr = p THEN Append(value[n - 1], log[n].digest)
        ELSE value[n - 1]
  IN  value[Len(log)]
=============================================================================
