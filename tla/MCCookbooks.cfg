SPECIFICATION Spec
CONSTANTS
    Absent = Absent
    Torn = Torn
    Dir = Dir
    None = None
    MaxStale = 1
    c1 = c1
    a1 = a1
    cookbook = cookbook
    artifact = artifact
    bad = bad
    dotfrozen = dotfrozen
    gitconfig = gitconfig
    metadata = metadata
    m = m
    r1 = r1
    u1 = u1
    u2 = u2
    Generated = generated
    Uploaders = {u1, u2}
    Versions = {c1, a1}
    Artifacts = {a1}
    Names = {cookbook}
    NameOf <- MCNameOf
    Sums = {m, r1}
    Files <- MCFiles
    Metadata = metadata
    Unwritable = {bad}
    Skipped = {dotfrozen, gitconfig}
    Mark = dotfrozen
    NotJSON = {r1}
    Jobs <- MCJobs
    ACLs = {acl0}
    DefaultACL = acl0
INVARIANTS TypeOK ContentIsServed FrozenAgrees VersionsAreOnDisk UploadsGoThrough
PROPERTY FrozenContentStays
SYMMETRY MCSymmetry
CHECK_DEADLOCK FALSE
