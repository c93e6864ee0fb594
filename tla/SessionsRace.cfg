SPECIFICATION Spec
CONSTANTS
    Request = {r1, r2}
    Device = {d1, d2}
    NoDevice = NoDevice
    NoRequest = NoRequest
    Operation = {"login"}
INVARIANT
    SingleDevice
CHECK_DEADLOCK FALSE
