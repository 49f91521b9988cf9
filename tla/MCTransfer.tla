---------------------------- MODULE MCTransfer -----------------------------
(* A plan with every way in which an object is written, for Transfer.        *)
EXTENDS Transfer, TLC

CONSTANTS i1, r0, r1, v1

O(kind, name) == <<kind, name, None>>
web == O("client", "web")
gnife == O("client", "gnife")
old == O("client", "old")
ops == O("group", "ops")
sub == O("group", "sub")
usag == O("group", "usag")
alice == O("user", "alice")
bag == O("databag", "bag")
item == <<"item", "bag", i1>>
oldBag == O("databag", "old")
oldItem == <<"item", "old", i1>>
app == <<"cookbook", "app", v1>>
lock == <<"artifact", "app", r1>>
policy == <<"policy", "p", r1>>
pg == O("policygroup", "pg")
before == <<"policy", "p", r0>>
other == <<"policy", "q", r0>>
clients == O("group", "clients")

MCPlan == {web, ops, sub, bag, item, app, lock, policy, pg}
MCPlanACLs == {OrgACL, web}
MCUsers == {alice}
MCMembers == (ops :> {alice, web, sub, usag}) @@ (sub :> {old})
MCAssigned == pg :> {policy}
MCSourceKeys == (web :> {"default", "dev"}) @@ (alice :> {})  @@ (gnife :> {}) @@ (old :> {})
MCActors == (OrgACL :> {alice}) @@ (web :> {web, ops}) @@ (alice :> {alice})
MCUSAGs == {usag}
MCFrozen == {app}
MCOthers == {gnife, old, oldBag, oldItem, usag, clients, before, other}
MCExisting == {{}, {old, oldBag, oldItem, usag, app}, {web, bag, sub, old, app, pg, before, clients}}
\* Somebody else's groups have members and assignments, the old revision of a
\* planned policy and another policy among them.
MCHeld == (sub :> {web}) @@ (clients :> {gnife, old}) @@ (pg :> {before, other})
          @@ [g \in {ops, usag} |-> {}]
MCVanish == {policy}
MCAppear == {web, lock}
Opt(o, p, r, s) == [overwrite |-> o, force |-> FALSE, purge |-> p, restore |-> r, superuser |-> s]
MCOptions == {Opt(FALSE, FALSE, FALSE, TRUE), Opt(TRUE, TRUE, TRUE, TRUE),
              Opt(FALSE, TRUE, TRUE, FALSE)}
MCPerms == <<"read", "grant">>

\* The plan of this instance is one that CleanRun is about.
ASSUME MCPlanIsWhole == PlanIsWhole
=============================================================================
