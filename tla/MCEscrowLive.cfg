CONSTANTS
    buyer = buyer  seller = seller  lender = lender
    usd = usd  eur = eur  o1 = o1  o2 = o2  t1 = t1  t2 = t2
    Parties = {buyer, seller, lender}
    Contract = contract
    Assets = {usd, eur}
    InitialBalance <- MCBalance
    Willing = {buyer, seller, lender, o1, o2, m1, m2, a1}
    Reluctant = {}
    Rates <- NoRates
    Managers = {m1}
    InitialManager = m1
    Treasuries = {t1}
    InitialTreasury = t1
    FeeBps <- TenPercent
    MaxEscrows = 2
    MaxTime = 1
    Configs <- LiveConfigs
    LockParams = 1
    ConsensusParams = 4
    DirectLocking = FALSE
    Owners = {buyer}
    Hashes = {h1, h2}
    Valuations <- OneValuation
    Classes = {}
    LockRefs <- NoRef
    RegistryAdmin = a1
    RegistryOracle = a1
    MaxCollaterals = 2
    Oracles = {o1, o2}
    Admins = {a1}
    EventTypes <- FirstEvent
    InitialAdmin = a1
SPECIFICATION FairSpec
PROPERTY ExpiredEscrowSettles
PROPERTY ConsensusSettles
