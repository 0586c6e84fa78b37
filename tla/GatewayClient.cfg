\* Three calls in a row, three attempts each, a gateway with every kind of redirect.
CONSTANTS
    http = http
    https = https
    login = login
    login_http = login_http
    served_ = served_
    short = short
    slash = slash
    private = private
    form = form
    circle = circle
    back = back
    moved = moved
    stray = stray
    None = None
    Host = {http, https, login, login_http}
    Path = {served_, short, slash, private, form, circle, back, moved, stray}
    Configured = http
    Target <- Gateway
    MaxRetries = 3
    MaxRedirects = 3
    MaxCalls = 3
SPECIFICATION FairSpec
INVARIANTS RequestBound ServedPerAttempt ToldTheLast SameDestination
PROPERTY CallEnds
\* All calls made is a normal end.
CHECK_DEADLOCK FALSE
