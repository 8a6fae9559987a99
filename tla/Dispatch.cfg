SPECIFICATION Spec
CONSTANTS
    d1 = d1
    d2 = d2
    d3 = d3
    Calls = {d1, d2, d3}
    ToolOf <- MCToolOf
    CaseOf <- MCCaseOf
    Does <- MCDoes
    MaxOpens = 1
    NoCall = NoCall
INVARIANTS TypeOK OutcomeIsTheBodys CardHasItsChildren AddedLayerIsSaved
