CONSTANTS
    Repos = {r1}
    NoRepo = NoRepo
    Urls = {u1}
    NoUrl = NoUrl
    Scenarios <- MCScenarios
SPECIFICATION FairSpec
INVARIANTS TypeOK SecretIsGuarded CounterpartIsGuarded RestShowsUrl
PROPERTIES DeletedRepoGoes
CHECK_DEADLOCK FALSE
