CONSTANTS
    bot = bot
    sub = sub
    ghost = ghost
    jane = jane
    Stem <- MCStem
    Sources = {"newplane", "tokenfuse", "wardryx"}
    Order <- MCOrder
    Agents = {bot, sub}
    Claimed = {ghost}
    Humans = {jane}
    Lines <- MCLines
    MaxLines = 2
    Default <- MCDefault
    Extras <- MCExtras
    MaxNamed = 1

SPECIFICATION BusSpec

CHECK_DEADLOCK FALSE

INVARIANTS
    StreamRule
    NothingDroppedUncounted
    ChainVerdict
