SPECIFICATION MCSpec
CONSTANTS
    Params = {"p", "q", "c"}
    ModuleOf <- MCModuleOf
    Programmes = {"q"}
    Controls = {"c"}
    Scraped = {"s"}
    Meant <- MCMeant
    NoRow = "none"
    StaleAfter = 2
    DeadAfter = 2
    LosesAll = FALSE
INVARIANTS
    ValuesAreCurrent
PROPERTIES
    ScrapedValuesStay
