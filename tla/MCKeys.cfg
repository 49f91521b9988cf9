SPECIFICATION Spec
CONSTANTS
    Absent = Absent
    Torn = Torn
    Dir = Dir
    NoKey = NoKey
    None = None
    Intact = Intact
    DefaultACL = DefaultACL
    OtherACL = OtherACL
    Pivotal = pivotal
    Validator = validator
    Users = {pivotal, alice}
    alice = alice
    Managed = {alice}
    Guarded = {alice}
    Clients = {validator}
    Default = default
    Names = {default, extra}
    CallerKeys = {k}
    StartKeys = {s}
    WithOrg = TRUE
    WithTLS = TRUE
    Unparsable = {}
    MayFail <- SidecarOrACL
    MaxStale = 1
INVARIANTS TypeOK KeysAreOnDisk
PROPERTY CrashKeepsKeys
CHECK_DEADLOCK FALSE
