SPECIFICATION ContractsSpec
CONSTANTS
    Owners = {alice, bob}
    Hashes = {h1, h2}
    Classes = {commodity}
    RegistryAdmin = admin
    RegistryOracle = valuer
    Willing = {alice, bob, admin, valuer}
    Reluctant = {}
    MaxCollaterals = 2
    Valuations <- MCValuations
    LockRefs <- MCLockRefs
    Voters = {v1, v2, v3}
    DefaultBalance = 4
    GovConfigs <- TwoConfigs
    FirstConfig <- Default
    TotalPowers = {10, 40}
    ParamRange = {1, 2}
    ParamValues = {0, 1}
    VoteCounts = {2, 3}
    MaxProposals = 1
    MaxDelegations = 3
    MaxRules = 1
    MaxGovTime = 3
INVARIANTS TypeOK IndexesAgree TalliesMatchBallots
PROPERTIES VotesWithinTokens EffectAfterTimelock
SYMMETRY VoterSymmetry
CHECK_DEADLOCK FALSE
