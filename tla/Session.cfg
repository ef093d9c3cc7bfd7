\* Two people and one device; two sign-ins; two requests under way.
SPECIFICATION Spec
CONSTANTS
  Users = {ann, bob}
  MaxLogins = 2
  MaxAsked = 2
  Null = Null
INVARIANTS OwnLines SameKeepsAll TokenInStep
SYMMETRY Symmetric
CHECK_DEADLOCK FALSE
