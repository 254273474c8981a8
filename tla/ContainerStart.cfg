SPECIFICATION Spec
CONSTANTS
    root = root
    guest = guest
    report = report
    other = other
    objectReport = objectReport
    roleAdmin = roleAdmin
    roleViewer = roleViewer
    Users = {root, guest}
    RoleAdmins = {root}
    Admin = roleAdmin
    Roles = {roleViewer}
    ObjectOf <- MCObjectOf
    Groups0 <- MCGroups0
    Items0 <- MCItems0
    Configs0 <- MCConfigs0
    Calls <- MCCalls
    Grants <- MCGrants
    OldTuples <- MCOldTuples
    Slots = {1, 2}
    MaxRows = 3
    MaxEvents = 2
INVARIANT StoreIsCreatedOnce
CHECK_DEADLOCK FALSE
