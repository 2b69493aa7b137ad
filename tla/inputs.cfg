SPECIFICATION InputsSpec
CHECK_DEADLOCK FALSE
CONSTANTS
    None = None
    Bad = Bad
    Failed = Failed
    Unspecified = Unspecified
    a1 = a1
    a2 = a2
    Bodies <- MCBodies
    Offers <- MCOffers
    Subs <- MCSubs
    Names <- MCNames
    Runs <- MCRuns
    Calls <- MCCalls
    Responses <- MCResponses
INVARIANTS AnswerIsTheMedias OptionsRead ConfigSound RequestsReach
