SPECIFICATION ServicesSpec
CONSTANTS
    a1 = a1  a2 = a2  r1 = r1  r2 = r2
    o1 = o1  o2 = o2  k1 = k1  k2 = k2  d1 = d1
    e1 = e1  risk = risk  dash = dash
    Addresses = {a1, a2}
    Requests = {r1, r2}
    MaxChallenges = 3
    MaxAuthSessions = 4
    Nodes = {o1, o2}
    Calls = {k1, k2}
    EventNames = {"e1", "e2", "e3"}
    DisputeIds = {d1}
    StakeAmounts = {0, 1}
    RequiredSigs = 2
    MAX_CONFIRMATIONS_PER_MINUTE = 1
    MaxCalls = 4
    Ids = {e1}
    MaxDisputes = 2
    MaxDuplicates = 2
    Pages = {risk, dash}
    RiskPages = {risk}
    MaxSockets = 2
    MAX_FAILURES = 3
    MaxChanges = 2
INVARIANTS ServicesTypeOK OnePrimaryWallet SpentTokensStaySpent OverlapsBounded SlashesAreFailures SettlementKept PageMatchesSocket
PROPERTIES PenaltiesBeforeVerdict LegalTransitions SettlementReachesMirror
PROPERTIES DeadConnectionsLeave RiskPagesSettle
CHECK_DEADLOCK FALSE
