\* One user, one refresh at a time, failures and restarts at any step.
CONSTANTS
    default = default
    local = local
    g1 = g1
    g2 = g2
    m1 = m1
    m2 = m2
    user = user
    refresher = refresher
    None = None
    DefaultAccount <- default
    DefaultEmail <- local
    GoogleIds <- MCGoogleIds
    Emails <- MCEmails
    Users <- MCUsers
    Refreshers <- MCRefreshers
SPECIFICATION Spec
SYMMETRY Names
INVARIANTS
    TypeOK
    NoStrandedSecret
    SessionHasAccount
    SignInComplete
    OnePrimaryPerUser
    StoresAgree
