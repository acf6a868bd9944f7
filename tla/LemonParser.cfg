SPECIFICATION MCSpec
CONSTANTS
    Grammars <- MCGrammars
    Tables <- MCTables
    YYSTACKDEPTH = 7
INVARIANTS FirstErrorAtFirstBadToken AcceptsCompleteLines
PROPERTIES ResultIsWorth OverflowExactlyWhenNeeded EveryCallReturns
CHECK_DEADLOCK FALSE
