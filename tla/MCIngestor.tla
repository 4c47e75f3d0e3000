----------------------------- MODULE MCIngestor -----------------------------
(***************************************************************************)
(* Ingestor for TLC.  No action reads the samples, the report and the start *)
(* of a cycle that is over, or the end of a sleep that is: the view leaves  *)
(* them out.                                                               *)
(***************************************************************************)
EXTENDS Ingestor

(* What the properties but SamplesAreSwept, and the actions, can see. *)
WithoutSamples ==
    <<now, environment, stage, lastRead, lastError, feed, cycle % PruneEvery,
      IF stage = "sleep" THEN wake ELSE started,
      IF stage \in {"ufw", "store"} THEN report ELSE Never>>

=============================================================================
