CONSTANTS
    Plan <- MCPlan
    PlanACLs <- MCPlanACLs
    Users <- MCUsers
    OrgMembers <- MCUsers
    Members <- MCMembers
    Assigned <- MCAssigned
    SourceKeys <- MCSourceKeys
    Actors <- MCActors
    USAGs <- MCUSAGs
    Frozen <- MCFrozen
    Others <- MCOthers
    Existing <- MCExisting
    Held <- MCHeld
    MayVanish <- MCVanish
    MayAppear <- MCAppear
    Options <- MCOptions
    Perms <- MCPerms
    Self <- gnife
    None = None
    Workers = 2
    Retries = 2
    MaxFaults = 1
    i1 = i1
    r0 = r0
    r1 = r1
    v1 = v1
SPECIFICATION Spec
CHECK_DEADLOCK FALSE
PROPERTY OnlyAbsentAreDropped
