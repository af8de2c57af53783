CONSTANTS
    alice = alice
    bot = bot
    tool = tool
    policy = policy
    pass = pass
    v1 = v1
    v2 = v2
    l1 = l1
    l2 = l2
    l3 = l3
    b1 = b1
    u1 = u1
    NoValue = NoValue
    NoLoad = NoLoad
    s1 = s1
    s2 = s2
    Sessions = {s1, s2}
    IDs = {alice, bot}
    Names = {policy, tool}
    Actions = {pass}
    Fields = {"owner", "on_behalf_of"}
    Lists = {"on_behalf_of"}
    Values = {v1, v2}
    Records = {l1, l2, l3, b1, u1}
    Subject <- MCSubject
    TimeOf <- MCTimeOf
    Row <- MCRow
    Operator = {alice}
    Loads <- MCLoads
    Earlier <- MCEarlier
    MaxStarts = 2

SPECIFICATION Spec

PROPERTIES
    PassportsOnlyEnrich
