SPECIFICATION FairSpec
CONSTANTS
    c1 = c1
    c2 = c2
    Callers <- MCCallers
    Offers <- MCOffers
    None = None
    MaxWire = 2
INVARIANTS TypeOK OneCall CallerTold
PROPERTIES Confirmed TakenIsAnswered
CHECK_DEADLOCK FALSE
