SPECIFICATION Spec
CONSTANTS
    p1 = p1
    p2 = p2
    alice = alice
    bob = bob
    alice2 = alice2
    None = None
    Processes = {p1, p2}
    Users = {alice, bob, alice2}
    Registered = {bob}
    Superusers = {bob}
    Clash <- Same
    Roles = {"admin", "member"}
    MaxRequests = 5
SYMMETRY Twins
INVARIANTS AccountsAreUnique OneRowEach RowsNameOrganizations InsidersOnly
CHECK_DEADLOCK FALSE
