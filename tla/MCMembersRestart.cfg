SPECIFICATION Spec
CONSTANTS
    Absent = Absent
    Torn = Torn
    Dir = Dir
    None = None
    File = File
    Pivotal = pivotal
    Users = {pivotal}
    Clients = {c}
    Groups = {clientsgroup, admins}
    BuiltInGroups = {clientsgroup, admins}
    ClientsGroup = clientsgroup
    AdminsGroup = admins
    Nested = {admins}
    Ids = {id}
    MaxStale = 0
INVARIANT RestartAddsNobody
CHECK_DEADLOCK FALSE
