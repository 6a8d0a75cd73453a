SPECIFICATION FairSpec
CONSTANTS
    h1 = h1
    h2 = h2
    Handlers = {h1, h2}
    Batches <- MCBatches
    Imports <- MCImports
    MaxAnswers = 2
    MaxRuns = 2
    UnlockedRace = FALSE
    ReadFails = FALSE
INVARIANTS SummaryIsOfTheDay
PROPERTIES ImplementsDayBook SummarisedOrGivenUp
