\* Three changes of the account by two requests; two calls; two printers and three names.
CONSTANTS
    Tokens = {t1, t2}
    NoToken = NoToken
    Handlers = {h1, h2}
    MaxFailures = 4
    BanFailures = 2
    MaxChanges = 3
    CloudCalls = {c1, c2}
    AccountTokens = {t1, t2}
    NoAccount = NoAccount
    JwtTokens = {t1}
    LoginInterval = 2
    RequestTimeout = 1
    CodeInterval = 1
    BindInterval = 2
    CloudflareHold = 3
    Serials = {s1, s2}
    CloudNames = {a, b, c}
    NoSerial = NoSerial
    NoCloudName = NoCloudName
    MaxListChanges = 3
SPECIFICATION MCSpec
INVARIANT OneLoop
INVARIANT HoldComes
INVARIANT FollowsAccountIfAlone
INVARIANT PrintersFollow
PROPERTY StopEnds
PROPERTY SignInIsRight
CHECK_DEADLOCK FALSE
