SPECIFICATION FairSpec
CHECK_DEADLOCK FALSE
CONSTANTS
    m1 = m1
    m2 = m2
    m3 = m3
    w1 = w1
    w2 = w2
    h1 = h1
    Chain <- Three
    MaxTokens <- Allowance
    Price <- Prices
    Registered = {m1, m3}
    TokenBudget = 2
    CostBudget = 3
    UsageBound = 3
    Worker = {w1, w2}
    Handler = {h1}
    MaxCrashes = 1
INVARIANTS
    ThinkingIsBounded
PROPERTIES
    ThinkingEnds
