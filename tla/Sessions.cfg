SPECIFICATION Spec
CONSTANTS
    Request = {r1, r2, r3}
    Device = {d1, d2}
    NoDevice = NoDevice
    NoRequest = NoRequest
    Operation = {"login", "refresh", "logout", "setStatus", "setRole", "resetPassword", "resetDevice", "delete", "approveAll", "forgotPassword", "resetByLink"}
SYMMETRY SessionSymmetry
INVARIANTS
    TypeOK
    ActiveHasSession
PROPERTIES
    DeadSessionStaysDead
    DeadLinkStaysDead
CHECK_DEADLOCK FALSE
