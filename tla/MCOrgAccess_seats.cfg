SPECIFICATION Spec
CONSTANTS
  Users = {u1, u2, u3}
  Creator = u1
  Requests = {r1, r2}
  Granted = {"member", "admin", "owner"}
  Plans = {"free", "team"}
  MaxMembers <- Seats
  MaxInvites = 2
  MaxFaults = 1
SYMMETRY Symmetry
INVARIANTS
  TypeOK
  SeatsHeld
  SoftSeats
  OwnerRemains
CHECK_DEADLOCK FALSE
