CONSTANTS
    Emails = {ann}
    Codes = {c1, c2}
    NoCode = NoCode
    RegisterRequests = {r1, r2}
    VerifyRequests = {v1, v2, v3}
    ResendRequests = {s1}
    LoginRequests = {l1}
    NoUser = NoUser
    MAX_OTP_ATTEMPTS = 2
    MaxFailures = 1
SPECIFICATION Spec
SYMMETRY Symmetry
INVARIANTS OneAccountPerEmail TokenMeansVerified
PROPERTIES ImplementsAccounts ActivatedByIssuedCode AttemptsForgottenWithCode
\* Once every request is answered and every code expired nothing is left to do.
CHECK_DEADLOCK FALSE
