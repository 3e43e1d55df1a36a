SPECIFICATION FairSpec
CONSTANTS
    s1 = s1
    Slots <- MCSlots
    Inputs <- MCInputs
    PersonOf <- MCPersonOf
    Timeout = 2
    MaxTries = 1
    MaxLost = 2
    AllowEmailPassword = FALSE
INVARIANTS RunsForTheRightPerson SentTwiceOnlyIfLost
PROPERTIES ClosesAfterDeadlines AnswersTruthfully Stops RequestsAnswered
CHECK_DEADLOCK FALSE
