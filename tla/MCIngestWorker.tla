--------------------------- MODULE MCIngestWorker ---------------------------
(***************************************************************************)
(* Instances of IngestWorker for TLC: what the uploaded files contain and  *)
(* under whom they are filed.                                              *)
(***************************************************************************)
EXTENDS IngestWorker, TLC

CONSTANTS ann, ben, temp

\* Workers are interchangeable.
WorkerSymmetry == Permutations(Workers)

MCDrivers == {ann, ben, temp}

\* The same session for two drivers, and a file of two for nobody yet.
SharedBatches  == 1..3
SharedContent  == <<<<"a1">>, <<"a1">>, <<"b1", "b2">>>>
SharedDriverOf == <<ann, ben, NoDriver>>
SharedSessions == {"a1", "b1", "b2"}

\* The same file twice for one driver.
TwiceBatches  == 1..2
TwiceContent  == <<<<"a1">>, <<"a1">>>>
TwiceDriverOf == <<ann, ann>>
TwiceSessions == {"a1"}

=============================================================================
