SPECIFICATION Spec
CONSTANTS
    Absent = Absent
    Torn = Torn
    Dir = Dir
    None = None
    MaxStale = 0
    c1 = c1
    a1 = a1
    cookbook = cookbook
    artifact = artifact
    bad = bad
    dotfrozen = dotfrozen
    gitconfig = gitconfig
    metadata = metadata
    m = m
    r1 = r1
    u1 = u1
    u2 = u2
    Generated = generated
    Uploaders = {u1}
    Versions = {c1, a1}
    Artifacts = {a1}
    Names = {cookbook}
    NameOf <- MCNameOf
    Sums = {m, r1}
    Files <- MCFiles
    Metadata = metadata
    Unwritable = {bad}
    Skipped = {dotfrozen, gitconfig}
    Mark = dotfrozen
    NotJSON = {}
    Jobs <- MCJobs
    ACLs = {acl0}
    DefaultACL = acl0
INVARIANT AlwaysLoadable
CHECK_DEADLOCK FALSE
