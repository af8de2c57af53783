CONSTANTS
    user = user
    account = account
    bot = bot
    server = server
    l1 = l1
    l2 = l2
    l3 = l3
    NoValue = NoValue
    IDs = {user, account, bot, server}
    Names = {"s3-deploy", "scoped", "roles/editor", "search", "shell"}
    Actions = {"read", "passrole", "actas", "*"}
    Star = "*"
    Escalating = {"passrole", "actas"}
    AdminNames = {}
    HighRisk = {"shell"}
    RoleActions <- MCRoleActions
    ServicesOf <- MCServicesOf
    Policies <- MCPolicies
    Principals <- MCPrincipals
    IAMUsers = {user}
    AgeOf <- MCAgeOf
    RotationMaxAge = 3
    StaleAfter = 3
    Now = 9
    Fields = {"type", "source", "owner", "created", "runtime", "attestation"}
    Values = {"service_account", "agent", "mcp_server", "aws_iam", "gcp_iam", "azure", "agents", "mcp", "ops", "bedrock", "none", "old", "recent"}
    Records = {l1, l2, l3}
    Subject <- MCSubject
    FreshZones = {l1}
    MaxParses = 2
    Marks <- MCMarks
    Inventory <- MCInventory

SPECIFICATION Spec

INVARIANTS
    EventsCountedOnce
    EscalationIsReported

PROPERTIES
    EvidenceRetained
    ImplementsLedger
    VerdictsMoveOneWay
    RevokesNothingUsed
