CONSTANTS
    a = a
    b = b
    c = c
    Ids = {a, b, c}
    InitialPlan <- TwoSteps
    Proposals <- SmallProposals
    Modes <- AllModes
    MaxAmendments = 2
    MaxAdditions = 1
    MaxTotal = 2
    MaxInvalidations = 1
    NoProposal = NoProposal
SPECIFICATION FairSpec
CHECK_DEADLOCK FALSE
 
PROPERTIES RetiredStaysRetired 
