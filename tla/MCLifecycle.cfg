SPECIFICATION LifecycleSpec
CONSTANTS
    ed = ed  app = app  adm = adm  v1 = v1
    User = {ed, app, adm}
    RoleOf <- Roles
    ObjectVersion = {v1}
INVARIANTS StateAudited TrailMatchesLog NothingSkipped
CHECK_DEADLOCK FALSE
