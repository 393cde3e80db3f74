SPECIFICATION Spec
CONSTANTS
    Batches <- MCBatches
    Size <- MCSize
    Outcomes <- MCOutcomes
    MaxConcurrent = 1
    MaxCrashes = 1
    MaxFaults = 1
INVARIANTS NothingIsReplayed OneWorkerPerBatch CompletedIsWhole CancelStopsSending
PROPERTIES VerdictsStand AnswersAreKept BatchesEnd
CHECK_DEADLOCK FALSE
