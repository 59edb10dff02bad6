SPECIFICATION Spec
CONSTANTS
    Word = {"w", "v"}
    OtherName = {"error"}
    Challenges <- McChallenges
    Logins <- McLogins
    Implied = Implied
    None = None
INVARIANTS
    TypeOK
    AsksAsChallenged
    LoginIsBase64
CHECK_DEADLOCK FALSE
