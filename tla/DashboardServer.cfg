CONSTANTS
    c1 = c1
    c2 = c2
    agents = agents
    mcp = mcp
    NoAnswer = NoAnswer
    Clients = {c1, c2}
    Sources = {agents, mcp}
    MaxVersion = 1
    MaxFailures = 1

SPECIFICATION FairSpec

INVARIANTS
    NoSharedSort

PROPERTIES
    ImplementsLiveView
    CatchesUp
    AnswersEventually
