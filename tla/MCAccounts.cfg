SPECIFICATION Spec
CONSTANTS
    r1 = r1
    r2 = r2
    Request = {r1, r2}
    t1 = t1
    t2 = t2
    Token = {t1, t2}
    c1 = c1
    Child = {c1}
    None = None
    Email <- MCEmail
    Lower <- MCLower
    Secret <- MCSecret
    Long <- MCLong
    Blockable <- MCBlockable
    SeedEmail <- MCSeedEmail
    SeedPassword <- MCSeedPassword
    HasBlocked = TRUE
INVARIANTS
    TypeOK
    DeadTokensOpenNothing
    OnlyOwnersWrite
    NothingOfADeletedChild
    PinLoginsAreCurrent
    
PROPERTY
    AccountsStay
\* Requests and tokens are interchangeable; every property is a safety property.
SYMMETRY Symmetry
