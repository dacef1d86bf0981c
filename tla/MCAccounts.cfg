SPECIFICATION Spec
SYMMETRY Interchangeable
CONSTANTS
    old = old
    new = new
    r1 = r1
    r2 = r2
    r3 = r3
    Requests = {r1, r2, r3}
    Emails = {"ann", "Bob"}
    Lower <- LowerCase
    Passwords = {old, new}
    Weak = Weak
    Asks <- Everything
    First = First
    Holder = "ann"
    Original = old
    SessionLifetime = 2
    RenewThreshold = 2
    ResetLifetime = 1
    Window = 2
    Limit <- Limits
    MaxTime = 2
    MaxFaults = 1
    Free = Free
    None = None
    NoUser = NoUser
INVARIANTS
    OldPasswordNeedsOverlap
    LinksWorkOnce
    BudgetHolds
PROPERTIES
    TokensEnd
