CONSTANTS
    buyer = buyer  seller = seller  lender = lender
    usd = usd  eur = eur  o1 = o1  o2 = o2  t1 = t1  t2 = t2
    Parties = {buyer, seller, lender}
    Contract = contract
    Assets = {usd, eur}
    InitialBalance <- MCBalance
    Willing = {buyer, seller, lender, o1, o2, m1, m2, a1}
    Reluctant = {}
    Rates <- SomeRates
    Managers = {m1, m2}
    InitialManager = m1
    Treasuries = {t1, t2}
    InitialTreasury = t1
    FeeBps <- TenPercent
    MaxEscrows = 2
    MaxTime = 1
    Configs <- DirectConfigs
    LockParams = 1
    ConsensusParams = 4
    DirectLocking = TRUE
    Owners = {buyer, seller}
    Hashes = {h1}
    Valuations <- OneValuation
    Classes = {}
    LockRefs <- NoRef
    RegistryAdmin = a1
    RegistryOracle = a1
    MaxCollaterals = 1
    Oracles = {o1}
    Admins = {a1}
    EventTypes <- Events
    InitialAdmin = a1
SPECIFICATION Spec
PROPERTY ImplementsLifecycle
PROPERTY SlippageProtected
