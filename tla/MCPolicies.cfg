SPECIFICATION Spec
CONSTANTS
    Absent = Absent
    Torn = Torn
    Dir = Dir
    None = None
    MaxStale = 1
    web = web
    webx = webx
    web1 = web1
    webx1 = webx1
    wx1 = wx1
    bad = bad
    fbad = fbad
    f1 = f1
    fx1 = fx1
    Revisions = {web1, webx1, bad, wx1}
    PolicyOf <- MCPolicyOf
    PolicyGroups = {prod}
    FileName <- MCFileName
    ReadAs <- MCReadAs
    Docs = {doc}
    Guarded = {prod}
    ACLs = {acl0, acl1}
    DefaultACL = acl0
    Unsafe = {bad}
    Hidden = {}
INVARIANTS TypeOK RevisionsAreOnDisk GroupsAreOnDisk GroupACLsAreOnDisk
PROPERTY AssignmentsFollowRevisions
CHECK_DEADLOCK FALSE
