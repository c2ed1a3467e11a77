SPECIFICATION Spec
CONSTANTS
    Absent = Absent
    Junk = Junk
    NaN = NaN
    DatasetSize = 2
    Threshold = 2
    Seed <- MCSeed
    Runtime = 3
    Slots <- MCSlots
    Requests <- MCRequests
INVARIANTS
    AnswersAsDocumented
    EncodingWasOffered
    DelaysAreKept
PROPERTIES
    EveryRequestIsAnswered
