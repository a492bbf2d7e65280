SPECIFICATION Spec
CONSTANTS
    Users = {o, u1, u2}
    Owner = o
    Invitations = {i1, i2}
    Slots = {s1, s2, s3}
    None = None
SYMMETRY MembershipSymmetry
INVARIANTS SpentOnce MembersLegitimate
PROPERTY ImplementsGuestlist
