SPECIFICATION Spec
CONSTANTS
    Parts <- MCParts
    Urls <- MCUrls
    RuleUrls <- MCRuleUrls
    Rules <- MCRules
    Index <- MCIndex
INVARIANTS
    IInv
    LongestRuleWins
    ShowsWhatItUses
    CutsItsPrefix
    FilesStayBelowRoot
CHECK_DEADLOCK FALSE
