--------------------------- MODULE GatewayClient ---------------------------
(***************************************************************************)
(* GatewayHttpClient: every call of ushnotice to another service goes      *)
(* through _request, which follows redirects itself, retries transient     *)
(* failures with a growing delay and raises what remains.  A client makes  *)
(* one call after the other; the base URL it adopts from a redirect stays  *)
(* for its later calls.                                                    *)
(***************************************************************************)
EXTENDS Naturals

CONSTANTS
    Host,          \* scheme and host of a URL
    Path,          \* service path and path of a URL
    Configured,    \* API_GATEWAY_BASE_URL
    Target,        \* Target[u]: where URL u is redirected; u itself when it is served
    MaxRetries,    \* max_retries of the client
    MaxRedirects,  \* _MAX_REDIRECTS
    MaxCalls,      \* bound: calls of a client
    None           \* no call under way

Url == Host \X Path

ASSUME ConfiguredAssumption == Configured \in Host
ASSUME TargetAssumption == Target \in [Url -> Url]
ASSUME RetriesAssumption == MaxRetries \in Nat \ {0}
ASSUME RedirectsAssumption == MaxRedirects \in Nat
ASSUME CallsAssumption == MaxCalls \in Nat
ASSUME PathAssumption == Path # {} /\ None \notin Path

VARIABLES
    base,       \* self._base_url
    asked,      \* path of the call under way
    url,        \* the URL of the next request
    attempt,    \* attempt of the retry loop
    redirects,  \* redirects followed by this call
    lastExc,    \* last_exc
    outcome,    \* what _request returned or raised; "none" while it runs
    reply,      \* the reply to the latest request
    requests,   \* requests sent by this call, counted up to MostRequests + 1
    served,     \* times this call was executed by the other service
    calls,      \* calls so far
    followed    \* history: the URLs whose redirects the client has followed

vars == <<base, asked, url, attempt, redirects, lastExc, outcome, reply, requests, served,
          calls, followed>>

Reply == {"none", "redirect", "json", "unavailable", "refused", "timeout", "broken"}
Outcome == {"none", "json", "ServiceClientError", "ServiceTimeoutError", "other"}

\* What a caller should be told, given the latest reply.
Verdict(r) ==
    CASE r = "json" -> "json"
      [] r = "timeout" -> "ServiceTimeoutError"
      [] r = "broken" -> "other"
      [] OTHER -> "ServiceClientError"

Init ==
    /\ base = Configured
    /\ asked = None
    /\ url = <<Configured, CHOOSE p \in Path : TRUE>>
    /\ attempt = 1
    /\ redirects = 0
    /\ lastExc = "none"
    /\ outcome = "none"
    /\ reply = "none"
    /\ requests = 0
    /\ served = 0
    /\ calls = 0
    /\ followed = {}

MostRequests == MaxRetries + MaxRedirects
Count(n) == IF n <= MostRequests THEN n + 1 ELSE n

Waiting == asked # None /\ outcome = "none"
CanRetry == attempt < MaxRetries

\* One request of the call under way is answered by r; it was executed or not.
Got(r, done) ==
    /\ Waiting
    /\ requests' = Count(requests)
    /\ reply' = r
    /\ served' = IF done THEN Count(served) ELSE served
    /\ UNCHANGED <<asked, calls>>

\* An answer is returned or raised at once; after the loop last_exc is raised.
Finished(o) ==
    outcome' = o /\ UNCHANGED <<base, url, attempt, redirects, lastExc, followed>>
RaiseLast(e) ==
    /\ lastExc' = e
    /\ outcome' = lastExc'
    /\ UNCHANGED <<base, url, attempt, redirects, followed>>

-----------------------------------------------------------------------------
(* Slips.                                                                  *)

\* redirects = 0 inside the retry loop.
TimedOutResetsRedirects ==
    /\ CanRetry
    /\ \E done \in BOOLEAN : Got("timeout", done)
    /\ attempt' = attempt + 1
    /\ redirects' = 0
    /\ lastExc' = "ServiceTimeoutError"
    /\ UNCHANGED <<base, url, outcome, followed>>

\* The redirects are not counted.
FollowUncounted ==
    /\ Target[url] # url
    /\ Got("redirect", FALSE)
    /\ url' = Target[url]
    /\ base' = IF Target[url][2] = url[2] THEN Target[url][1] ELSE base
    /\ followed' = followed \cup {url}
    /\ UNCHANGED <<attempt, redirects, lastExc, outcome>>

\* The host of every redirect is adopted.
FollowAnywhere ==
    /\ Target[url] # url
    /\ redirects < MaxRedirects
    /\ Got("redirect", FALSE)
    /\ redirects' = redirects + 1
    /\ url' = Target[url]
    /\ base' = Target[url][1]
    /\ followed' = followed \cup {url}
    /\ UNCHANGED <<attempt, lastExc, outcome>>

\* The last retryable status leaves the loop for `raise last_exc'.
UnavailableLastStale ==
    /\ ~CanRetry
    /\ \E done \in BOOLEAN : Got("unavailable", done)
    /\ Finished(IF lastExc = "none" THEN "ServiceClientError" ELSE lastExc)

\* A retryable status does not use up an attempt.
UnavailableUncounted ==
    /\ CanRetry
    /\ \E done \in BOOLEAN : Got("unavailable", done)
    /\ UNCHANGED <<base, url, attempt, redirects, lastExc, outcome, followed>>

-----------------------------------------------------------------------------
(* _request                                                                *)

\* get, post or patch of a path: the three run the same loop.
Request(p) ==
    /\ asked = None
    /\ calls < MaxCalls
    /\ calls' = calls + 1
    /\ asked' = p
    /\ url' = <<base, p>>
    /\ attempt' = 1
    /\ redirects' = 0
    /\ lastExc' = "none"
    /\ reply' = "none"
    /\ requests' = 0
    /\ served' = 0
    /\ UNCHANGED <<base, outcome, followed>>

\* A redirect within the budget, which all attempts share.  A redirect to the same path
\* changes the base URL for later calls.
Follow ==
    /\ Target[url] # url
    /\ redirects < MaxRedirects
    /\ Got("redirect", FALSE)
    /\ redirects' = redirects + 1
    /\ url' = Target[url]
    /\ base' = IF Target[url][2] = url[2] THEN Target[url][1] ELSE base
    /\ followed' = followed \cup {url}
    /\ UNCHANGED <<attempt, lastExc, outcome>>

\* The budget is used up: raise_for_status raises for the 3xx itself.
FollowNoMore ==
    /\ Target[url] # url
    /\ redirects = MaxRedirects
    /\ Got("redirect", FALSE)
    /\ Finished("ServiceClientError")

Succeed ==
    /\ Target[url] = url
    /\ Got("json", TRUE)
    /\ Finished("json")

\* 429, 500, 502, 503 or 504, from the gateway or after the service did its work.
Unavailable ==
    /\ CanRetry
    /\ \E done \in BOOLEAN : Got("unavailable", done)
    /\ attempt' = attempt + 1
    /\ UNCHANGED <<base, url, redirects, lastExc, outcome, followed>>

UnavailableLast ==
    /\ ~CanRetry
    /\ \E done \in BOOLEAN : Got("unavailable", done)
    /\ Finished("ServiceClientError")

\* Another error status.
Refused ==
    /\ Got("refused", FALSE)
    /\ Finished("ServiceClientError")

TimedOut ==
    /\ CanRetry
    /\ \E done \in BOOLEAN : Got("timeout", done)
    /\ attempt' = attempt + 1
    /\ lastExc' = "ServiceTimeoutError"
    /\ UNCHANGED <<base, url, redirects, outcome, followed>>

TimedOutLast ==
    /\ ~CanRetry
    /\ \E done \in BOOLEAN : Got("timeout", done)
    /\ RaiseLast("ServiceTimeoutError")

\* No connection, or a success without a JSON body: the exception is raised as it is.
Broken ==
    /\ \E done \in BOOLEAN : Got("broken", done)
    /\ RaiseLast("other")

\* The caller takes the answer or the exception.
Return ==
    /\ asked # None
    /\ outcome # "none"
    /\ asked' = None
    /\ outcome' = "none"
    /\ UNCHANGED <<base, url, attempt, redirects, lastExc, reply, requests, served, calls,
                   followed>>

Step ==
    \/ Follow \/ FollowNoMore \/ Succeed \/ Unavailable \/ UnavailableLast \/ Refused
    \/ TimedOut \/ TimedOutLast \/ Broken \/ Return

Next == Step \/ \E p \in Path : Request(p)

Spec == Init /\ [][Next]_vars

\* Every request has a timeout and every sleep ends.
FairSpec == Spec /\ WF_vars(Step)

-----------------------------------------------------------------------------
(* Properties                                                              *)

\* Types, with the limits of the attempt and redirect counters.
TypeOK ==
    /\ base \in Host
    /\ asked \in Path \cup {None}
    /\ url \in Url
    /\ attempt \in 1 .. MaxRetries
    /\ redirects \in 0 .. MaxRedirects
    /\ lastExc \in {"none", "ServiceTimeoutError", "other"}
    /\ outcome \in Outcome
    /\ reply \in Reply
    /\ requests \in 0 .. MostRequests + 1
    /\ served \in 0 .. MostRequests + 1
    /\ calls \in 0 .. MaxCalls
    /\ followed \subseteq Url

\* A call sends at most max_retries requests and the ones for its redirects: the retry
\* loop does not renew the redirect budget, whatever order failures and redirects take.
RequestBound == requests <= MostRequests

\* The caller is told how the latest request ended, not how an earlier one did: last_exc
\* of a timeout that was retried is never raised after another kind of reply.
ToldTheLast == outcome # "none" => outcome = Verdict(reply)

\* Where requests for path p end that start at host h, after n redirects.
Destination(h, p) ==
    LET hop[n \in 0 .. MaxRedirects] ==
            IF n = 0 THEN <<h, p>> ELSE Target[hop[n - 1]]
    IN  hop[MaxRedirects]

\* Requests for u are not redirected.
Settled(u) == Target[u] = u

\* Only the host changes: the redirects that are adopted.
Adoptable(u) == ~Settled(u) /\ Target[u][2] = u[2]

\* The redirect of u is the rule of its host, also for path p (http to https).
Covers(u, p) == Target[<<u[1], p>>] = <<Target[u][1], p>>

\* The redirect of u leaves the host with another path, and ends elsewhere.
Strays(u) == Target[u][1] # u[1] /\ Target[u][2] # u[2] /\ ~Settled(Target[u])

\* Whatever the gateway redirects, a path that is served, directly or through redirects, from
\* the configured host is served by the same URL from the adopted one, unless the client has
\* followed a redirect of one of the two kinds that _request adopts without a look: one of
\* a single path, taken for its host's, or one met on another host that it had strayed to.
SameDestination ==
    \A p \in Path :
        LET d == Destination(Configured, p)
        IN  (Settled(d) /\ \A u \in followed : ~Strays(u) /\ (Adoptable(u) => Covers(u, p)))
                => Destination(base, p) = d

\* Every call returns or raises, even if the gateway redirects in a circle.
CallEnds == asked # None ~> asked = None

\* A service may have executed a request that ended in a timeout or a 5xx, and executes it
\* again when it is repeated: once per attempt at most, whatever redirects the attempt takes.
ServedPerAttempt == served <= attempt
=============================================================================
