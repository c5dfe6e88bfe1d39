SPECIFICATION Spec
CONSTANTS
    Users = {u1, u2}
    Managers = {u1}
    Requests = {a, b}
    Timers = {x, y}
    Peers = {a, b}
    Controls = {x, y}
    Devices = {a, b}
    Handlers = {x, y}
    Senders = {x, y}
    GroupCallIds = {1, 2}
    CallBudgets <- GroupBudgets
    SfuJoins = {1, 2, 3}
    SfuBudgets <- RoomBudgets
    CallIds = {1, 2, 3}
    MaxHandled = 5
    MaxQts = 3
SYMMETRY Symmetry
INVARIANTS
      PhoneCallsAreInOrder SecretsAreKept
PROPERTIES
    CallStepsAreRight
CHECK_DEADLOCK FALSE
