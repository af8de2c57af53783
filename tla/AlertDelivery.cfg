CONSTANTS
    bot = bot
    foreign = foreign
    broken = broken
    ghost = ghost
    jane = jane
    r1 = r1
    r2 = r2
    None = None
    Identities = {bot, foreign, broken, ghost, jane}
    Namespace <- MCNamespace
    Severities = {1, 2}
    Runs = {r1, r2}
    Batches <- MCBatches
    Configs <- MCConfigs
    Fallible = {"otlp"}

SPECIFICATION Spec

CHECK_DEADLOCK FALSE

INVARIANTS
    ExitCodeTells
    JournalAccounts

PROPERTIES
    EveryRunEnds
