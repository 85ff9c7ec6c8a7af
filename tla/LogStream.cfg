CONSTANTS
    Runs = {1, 2, 3}
    Streams = {1}
    MaxTests = 2
SPECIFICATION PageFairSpec
INVARIANTS PageTypeOK TellsEachRunOnce DoneIsComplete
PROPERTIES EveryStreamEnds ComponentComesToRest PollingCatchesUp
