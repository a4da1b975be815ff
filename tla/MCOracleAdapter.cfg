CONSTANTS
    Oracles = {o1, o2, o3}
    Admins = {a1, a2}
    InitialAdmin = a1
    Willing = {o1, o2, o3, a1, a2}
    EscrowIds <- MCEscrowIds
    EventTypes <- MCEventTypes
SPECIFICATION Spec
INVARIANTS ConfirmationsListed ConsensusCountsOracles
SYMMETRY OracleSymmetry
