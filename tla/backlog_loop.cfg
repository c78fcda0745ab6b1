SPECIFICATION FairSpec
CONSTANTS
    Keys <- MCKeys
    TitleOf <- MCTitleOf
    Askers <- MCAskers
    VoterOf <- MCVoterOf
    CompanyOf <- MCCompanyOf
    Wants <- MCWants
    MinVotes = 1
    PromoteBatch = 2
    ReconcileBatch = 1
    MaxIssues = 6
    MaxUpsets = 2
    MaxByHand = 1
    Scenarios <- MCScenarios
CHECK_DEADLOCK FALSE
INVARIANTS
    HonestDemand
    OneOpenIssue
    ToldOnce
PROPERTIES
    AllAreTold
    DemandIsFiled
