SPECIFICATION AuthFairSpec
CONSTANTS
    Addresses = {a1, a2}
    Requests = {r1, r2}
    MaxChallenges = 2
    MaxAuthSessions = 1
PROPERTY ChallengesLinkWallets
CHECK_DEADLOCK FALSE
