SPECIFICATION BillingSpec
CONSTANTS
    eur = eur
    usd = usd
    Currencies = {eur, usd}
    Reqs = {r1}
    Agreements <- MCAgreements
    Patches <- MCPrices
    MonthDays = 1
    MaxAmount = 2
    LastDate = 4
PROPERTY FullPaymentRenews
CHECK_DEADLOCK FALSE
