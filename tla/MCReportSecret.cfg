SPECIFICATION Spec
CONSTANTS
    DefaultThreshold = 2
    DefaultMinLength = 4
    Entropy <- MCEntropy
    MatchesPattern <- MCMatchesPattern
    Forms <- MCForms
    Encoded <- MCEncoded
    Blanks = {" "}
    SystemNames = {"HOME"}
    ConfigNames = {"PORT"}
    PlainValues = {}
    CredentialNames = {"TOKEN"}
    ShortestSecret = 2
    VariantFloor = 3
    ClampMax = 20
    Window = 3
    BodyWindow = 2
    Setups <- MCSetups
    Conns <- MCConns
    Ports = {"80", "443"}
    OtherNumbers = {"99999"}
    DnsShortest = 3
    MaxExpiries = 1
INVARIANTS
    ReportHoldsNoSecret
CHECK_DEADLOCK FALSE
