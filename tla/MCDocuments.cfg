SPECIFICATION Spec
CONSTANTS
    RouteId = {"r1", "r2"}
    UpstreamId = {"u1", "u2"}
    PresetId = {"p1", "p2", "p3"}
    Text = {"a", "/a"}
    None = None
    Host <- MCHost
    Document <- MCDocument
    Cidr <- MCCidr
    Redirect <- MCRedirect
    AskUrl <- MCAskUrl
    Destination <- MCDestination
    Presets <- MCPresets
    Capabilities <- MCCapabilities
    Mutation <- MCMutation
    MaxVersion = 4
    Behind <- MCBehind
    Positions <- MCPositions
    PointerLength <- MCPointerLength
    IdOrder <- MCIdOrder
CHECK_DEADLOCK FALSE
INVARIANTS
    ReferencesExist RoutesStayValid ChangesTellAll GateCoversApply
    OnlyUncheckedFieldsFail ConfigChangesShow DiffNeverMisleads
