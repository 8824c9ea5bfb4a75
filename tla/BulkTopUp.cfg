SPECIFICATION FairSpec
CONSTANTS
    Wallets = {w1, w2, w3}
INVARIANTS
    ReportIsTrue
PROPERTIES
    CreditsNeedConsent
    EveryCreditReported
