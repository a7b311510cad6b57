CONSTANTS
    tab1 = tab1
    tab2 = tab2
    city1 = city1
    city2 = city2
    Tabs <- MCTabs
    Names = {name1, name2}
    Cities <- MCCities
    None = none
    MaxDays = 2
    MaxCalls = 4
SPECIFICATION Spec
SYMMETRY Interchangeable
INVARIANTS
    TypeOK
    FirstEntryWins
    AnswersFollowCalls
