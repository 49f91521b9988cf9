SPECIFICATION Spec
CONSTANTS
    Absent = Absent
    Torn = Torn
    Dir = Dir
    None = None
    bag = bag
    item1 = item1
    Crud = {node}
    DefaultEnv = env
    Containers = {builtin}
    BuiltIn = {builtin}
    Bags = {bag}
    Items = {item1}
    BagOf <- MCBagOf
    Bodies = {v1, v2}
    Malformed = {bad}
    OwnBody = own
    Perms = {read}
    Grants = {g1, g2}
    DefaultGrant = g1
    Guarded = {node, bag}
    Unsafe = {}
    Hidden = {}
    MaxStale = 1
INVARIANTS TypeOK ObjectsAreOnDisk ACLsAreOnDisk ItemsHaveBags
PROPERTY ImplementsMap
CHECK_DEADLOCK FALSE
