\* A statement about the character and a rule; two candidates, two faults.
CONSTANTS
    CharClaims = {c1}
    RuleClaims = {r1}
    Profile = Profile
    Typed = {"world"}
    MaxItems = 2
    MaxNumber = 2
    MaxFaults = 2
    c1 = c1
    r1 = r1
SPECIFICATION CanonSpec
INVARIANTS
    AcceptedIsCanon
PROPERTIES
    AnsweredStaysClosed
    IdsNotReused
