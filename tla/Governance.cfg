CONSTANTS
    openai = openai
    deepseek = deepseek
    qwen = qwen
    Contracts <- MCContracts
    OfferSets <- MCOfferSets
    Families = {openai, deepseek, qwen}
    OpenAI = openai
    NoFamily = none
    Unpriced = Unpriced
    MaxRedesigns = 1

SPECIFICATION GovernanceSpec

INVARIANTS
    GovernanceTypeOK
    ReadyPlanIsSound
    RunStaysWithinPlan

CHECK_DEADLOCK FALSE
