\* Histories of up to five messages; growth stops at the bound.
CONSTANTS
    MaxTokens = 7
    ReserveTokens = 1
    SummaryTriggerTokens = 5
    PromptTokens = 1
    Messages <- MCMessages
    SummaryTokens = {1, 2}
    MaxLength = 5
SPECIFICATION Spec
INVARIANTS
    SelectsLongestTail
    WithinWindow
PROPERTIES
    OmittedStayOmitted
    OnlyGrowthSqueezes
CHECK_DEADLOCK FALSE
