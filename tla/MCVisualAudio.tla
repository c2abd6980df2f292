------------------------------ MODULE MCVisualAudio ------------------------------
(* TLC instance of VisualAudioIngestion: the candidate and a stand-in, in
   front of the camera or speaking.  One observation of the stand-in may fire
   the detector alone, or only together with a second. *)
EXTENDS VisualAudioIngestion

CONSTANTS candidate, standIn

MCPeople == { candidate, standIn }

Capture(frame, clip) == [b \in Bundles |-> IF b = "visual" THEN frame ELSE clip]

MCCaptures ==
    { Capture(candidate, candidate), Capture(standIn, standIn),
      Capture(standIn, Nothing), Capture(Nobody, standIn) }

\* For the run about lost detections.
MCTwoCaptures == { Capture(candidate, candidate), Capture(standIn, standIn) }

MCAlike == { 90 }

MCUnlike == { 20, 60 }

MCNows == {0}

\* The batches come from the adapters.
MCBatches == {}

MCScores ==
    { [posterior |-> [probability |-> 55, bundles |-> 1, events |-> 1], tight |-> TRUE] }

MCEvaluations ==
    { [kind |-> "evaluate", posterior |-> score.posterior,
       contradiction |-> contradiction, now |-> 0] :
          score \in MCScores, contradiction \in ContradictionSignal }

Requests == Permutations(Ingests)
=============================================================================
