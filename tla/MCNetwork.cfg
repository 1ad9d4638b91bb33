SPECIFICATION FairSpec
CONSTANTS
    Countries = {"US"}
    NoCountry = ""
    Clients <- MCClients
    Legacy <- MCLegacy
    Hold = 2
    Retry = 2
    MaxFailures = 1
INVARIANTS
    SettingsKept
    OnlyOnSavedBand
PROPERTIES
    RecoveryAvailable
