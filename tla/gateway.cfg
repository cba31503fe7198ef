SPECIFICATION FairSpec
CONSTANTS
    k1 = k1
    wallet = wallet
    ip = ip
    c1 = c1
    n1 = n1
    n2 = n2
    p1 = p1
    Handlers = {h1, h2}
    Customers = {c1}
    ApiKeys = {k1}
    OwnerOf <- Owner
    Payers = {wallet}
    Ips = {ip}
    Populations <- Together
    Quota <- Quotas
    DefaultQuota = 1
    Window = 1
    NonceLife = 2
    Nonces = {n1, n2}
    Price = 1
    Proofs <- Presented
    Costs = {0, 1, 2, 4}
    Grant = 1
    Purchases = {p1}
    BuyerOf <- Buyer
    CreditsOf <- Credits
    MaxTime = 3
INVARIANTS TypeOK PaysOnce WithinQuota
PROPERTIES LedgerKept PurchaseCredited
