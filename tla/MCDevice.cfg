SPECIFICATION DeviceSpec
CONSTANTS
    NumSlots = 2
    Services = {s1, s2}
    Clients = {c1, c2}
    Main = main
    Handles = {h1, h2}
    MaxGeneration = 3
    None = none
    Talks <- SomeTalks
    MaxAttempts = 1
    Listens <- SomeListens
    Frames = 2
    Recorder = recorder
    Upload = upload
    Candidates <- Names
    Targets <- Uploads
    Roots <- Places
    MaxChanges = 3
SYMMETRY Symmetry
INVARIANTS
    DeviceTypeOK
    OnlyParkedDeleted
    RequiresHold
    ReferencesExact
    JoinMeansReclaimed
    DrainedForEver
    Consistent
    PlayerIsQuiet
    WriterKeepsItsFile
PROPERTIES
    QuietBeforeMusic
CHECK_DEADLOCK FALSE
