------------------------ MODULE GatewayClientProofs ------------------------
(***************************************************************************)
(* GatewayClient for every gateway, retry limit and redirect budget.  The  *)
(* inductive invariant counts: a waiting call has sent one request for     *)
(* each earlier attempt and each redirect, a finished one a request more;  *)
(* it was executed at most once per attempt that has ended.                *)
(***************************************************************************)
EXTENDS GatewayClient, Counting

\* Between calls there is no outcome.
IdleOK == asked = None => outcome = "none"

\* Requests and executions so far, against attempts and redirects.
CountOK ==
    /\ Waiting => requests = attempt - 1 + redirects /\ served < attempt
    /\ requests <= attempt + redirects
    /\ ServedPerAttempt

\* The inductive invariant.
IInv == TypeOK /\ IdleOK /\ CountOK /\ ToldTheLast

\* A new client satisfies it.
LEMMA IInvInit == Init => IInv
  <1> USE ConfiguredAssumption, RetriesAssumption, RedirectsAssumption, CallsAssumption,
          PathAssumption
  <1>1. ASSUME Init PROVE TypeOK
    <2>1. url \in Url
      BY <1>1 DEF Init, Url
    <2> QED
      BY <1>1, <2>1 DEF Init, TypeOK, MostRequests, Outcome, Reply
  <1>2. Init => IdleOK /\ CountOK /\ ToldTheLast
    BY DEF Init, IdleOK, CountOK, Waiting, ToldTheLast, ServedPerAttempt
  <1> QED
    BY <1>1, <1>2 DEF IInv

\* The counter of requests has not reached its cap while a call waits for a reply.
LEMMA CountUncapped ==
  ASSUME IInv, Waiting
  PROVE  Count(requests) = requests + 1 /\ Count(requests) \in 0 .. MostRequests + 1
  BY RetriesAssumption, RedirectsAssumption
  DEF IInv, TypeOK, CountOK, Count, MostRequests

\* A redirect leads to a URL.
LEMMA TargetIsUrl ==
  ASSUME TypeOK
  PROVE  Target[url] \in Url /\ Target[url][1] \in Host
  BY TargetAssumption DEF TypeOK, Url

\* Every reply and every call preserves it.
LEMMA IInvStep == IInv /\ [Next]_vars => IInv'
  <1> SUFFICES ASSUME IInv, [Next]_vars PROVE IInv'
    OBVIOUS
  <1> USE RetriesAssumption, RedirectsAssumption, CallsAssumption, PathAssumption
      DEF IInv, TypeOK, IdleOK, CountOK, ServedPerAttempt, ToldTheLast, Verdict, Outcome, Reply,
          Waiting
  <1>1. ASSUME Waiting, NEW r \in Reply, NEW done \in BOOLEAN, Got(r, done)
        PROVE  /\ requests' = requests + 1 /\ requests' \in 0 .. MostRequests + 1
               /\ served' \in 0 .. MostRequests + 1
               /\ served' \in {served, served + 1}
               /\ reply' = r /\ asked' = asked /\ calls' = calls
    BY <1>1, CountUncapped DEF Got, Count, MostRequests
  <1>2. ASSUME NEW p \in Path, Request(p) PROVE IInv'
    BY <1>2 DEF Request, MostRequests, Url
  <1>3. CASE Follow
    <2>1. Got("redirect", FALSE) /\ Waiting
      BY <1>3 DEF Follow, Got
    <2>2. url' \in Url /\ base' \in Host /\ followed' \subseteq Url
      BY <1>3, TargetIsUrl DEF Follow
    <2>3. /\ redirects < MaxRedirects /\ redirects' = redirects + 1
          /\ attempt' = attempt /\ lastExc' = lastExc /\ outcome' = outcome
      BY <1>3 DEF Follow
    <2>4. /\ requests' = requests + 1 /\ requests' \in 0 .. MostRequests + 1
          /\ served' \in 0 .. MostRequests + 1
          /\ reply' \in Reply /\ asked' = asked /\ calls' = calls
      BY <1>1, <2>1
    <2>5. served' = served
      BY <2>1 DEF Got
    <2> QED
      BY <2>1, <2>2, <2>3, <2>4, <2>5
  <1>4. CASE FollowNoMore \/ Succeed \/ Refused
    <2>1. PICK r \in {"redirect", "json", "refused"}, done \in BOOLEAN :
              Got(r, done) /\ Waiting /\ Finished(Verdict(r))
      BY <1>4 DEF FollowNoMore, Succeed, Refused, Got
    <2> QED
      BY <1>1, <2>1 DEF Finished
  <1>5. CASE UnavailableLast
    <2>1. PICK done \in BOOLEAN : Got("unavailable", done) /\ Waiting
      BY <1>5 DEF UnavailableLast, Got
    <2> QED
      BY <1>1, <1>5, <2>1 DEF UnavailableLast, Finished
  <1>6. CASE Unavailable
    <2>1. PICK done \in BOOLEAN : Got("unavailable", done) /\ Waiting
      BY <1>6 DEF Unavailable, Got
    <2> QED
      BY <1>1, <1>6, <2>1 DEF Unavailable, CanRetry
  <1>7. CASE TimedOut
    <2>1. PICK done \in BOOLEAN : Got("timeout", done) /\ Waiting
      BY <1>7 DEF TimedOut, Got
    <2> QED
      BY <1>1, <1>7, <2>1 DEF TimedOut, CanRetry
  <1>8. CASE TimedOutLast
    <2>1. PICK done \in BOOLEAN : Got("timeout", done) /\ Waiting
      BY <1>8 DEF TimedOutLast, Got
    <2> QED
      BY <1>1, <1>8, <2>1 DEF TimedOutLast, RaiseLast
  <1>9. CASE Broken
    <2>1. PICK done \in BOOLEAN : Got("broken", done) /\ Waiting
      BY <1>9 DEF Broken, Got
    <2> QED
      BY <1>1, <1>9, <2>1 DEF Broken, RaiseLast
  <1>10. CASE Return
    BY <1>10 DEF Return
  <1>11. CASE UNCHANGED vars
    BY <1>11 DEF vars
  <1> QED
    BY <1>2, <1>3, <1>4, <1>5, <1>6, <1>7, <1>8, <1>9, <1>10, <1>11 DEF Next, Step

\* The inductive invariant holds in every behaviour of _request.
THEOREM Invariance == Spec => []IInv
  BY IInvInit, IInvStep, PTL DEF Spec

\* Types; the attempt and redirect counters stay within their limits.
THEOREM TypeCorrect == Spec => []TypeOK
  <1>1. IInv => TypeOK
    BY DEF IInv
  <1> QED
    BY <1>1, Invariance, PTL

\* A call never sends more than max_retries requests and _MAX_REDIRECTS redirected ones.
THEOREM Bounded == Spec => []RequestBound
  <1>1. IInv => RequestBound
    BY RetriesAssumption, RedirectsAssumption
    DEF IInv, TypeOK, CountOK, RequestBound, MostRequests
  <1> QED
    BY <1>1, Invariance, PTL

\* A call is executed no more often than it is tried.
THEOREM Repeats == Spec => []ServedPerAttempt
  <1>1. IInv => ServedPerAttempt
    BY DEF IInv, CountOK
  <1> QED
    BY <1>1, Invariance, PTL

\* The exception raised is that of the latest reply.
THEOREM Verdicts == Spec => []ToldTheLast
  <1>1. IInv => ToldTheLast
    BY DEF IInv
  <1> QED
    BY <1>1, Invariance, PTL

-----------------------------------------------------------------------------
(* Where redirects lead.                                                   *)

\* The URLs met from u, hop by hop, up to the k-th.
IsTrail(f, u, k) ==
    f = [n \in 0 .. k |-> IF n = 0 THEN u ELSE Target[f[n - 1]]]

\* There is one.
LEMMA TrailExists ==
  ASSUME NEW u, NEW k \in Nat
  PROVE  \E f : IsTrail(f, u, k)
  <1> DEFINE T == {n \in Nat : ~\E f : IsTrail(f, u, n)}
  <1>1. ASSUME T # {} PROVE FALSE
    <2>1. PICK n \in T : \A m \in T : n <= m
      <3>1. T \in SUBSET Nat
        OBVIOUS
      <3> HIDE DEF T
      <3> QED
        BY <1>1, <3>1, LeastNat
    <2>2. CASE n = 0
      <3>1. IsTrail([i \in 0 .. 0 |-> u], u, 0)
        BY DEF IsTrail
      <3> QED
        BY <2>2, <3>1
    <2>3. CASE n # 0
      <3>1. n - 1 \in Nat /\ ~(n <= n - 1)
        BY <2>3
      <3>2. PICK f : IsTrail(f, u, n - 1)
        BY <2>1, <3>1
      <3> DEFINE g == [i \in 0 .. n |-> IF i = n THEN Target[f[n - 1]] ELSE f[i]]
      <3>3. \A i \in 0 .. n : g[i] = IF i = 0 THEN u ELSE Target[g[i - 1]]
        <4> TAKE i \in 0 .. n
        <4>1. CASE i = n
          BY <2>3, <4>1
        <4>2. CASE i # n
          <5>1. i \in 0 .. n - 1 /\ (i # 0 => i - 1 \in 0 .. n - 1 /\ i - 1 # n)
            BY <4>2
          <5>2. f[i] = IF i = 0 THEN u ELSE Target[f[i - 1]]
            BY <3>2, <5>1 DEF IsTrail
          <5> QED
            BY <4>2, <5>1, <5>2
        <4> QED
          BY <4>1, <4>2
      <3>4. IsTrail(g, u, n)
        <4> HIDE DEF g
        <4> QED
          BY <3>3 DEF IsTrail, g
      <3> QED
        BY <3>4
    <2> QED
      BY <2>2, <2>3
  <1> QED
    BY <1>1

\* Destination(h, p) is the end of the trail.
LEMMA DestinationTrail ==
  ASSUME NEW h, NEW p
  PROVE  \E f : IsTrail(f, <<h, p>>, MaxRedirects) /\ Destination(h, p) = f[MaxRedirects]
  <1>1. \E f : f = [n \in 0 .. MaxRedirects |-> IF n = 0 THEN <<h, p>> ELSE Target[f[n - 1]]]
    BY TrailExists, RedirectsAssumption DEF IsTrail
  <1> QED
    BY <1>1 DEF Destination, IsTrail

\* One hop further on.
LEMMA TrailStep ==
  ASSUME NEW u, NEW k \in Nat, NEW f, IsTrail(f, u, k)
  PROVE  /\ f[0] = u
         /\ \A n \in 0 .. k : n # 0 => f[n] = Target[f[n - 1]]
  BY DEF IsTrail

\* Starting one hop later ends one hop later, and a settled end is not left.
LEMMA TrailShift ==
  ASSUME NEW u, MaxRedirects # 0,
         NEW f, IsTrail(f, u, MaxRedirects),
         NEW g, IsTrail(g, Target[u], MaxRedirects),
         Settled(f[MaxRedirects])
  PROVE  g[MaxRedirects] = f[MaxRedirects]
  <1> USE RedirectsAssumption
  <1>0. /\ f[0] = u /\ \A n \in 0 .. MaxRedirects : n # 0 => f[n] = Target[f[n - 1]]
        /\ g[0] = Target[u] /\ \A n \in 0 .. MaxRedirects : n # 0 => g[n] = Target[g[n - 1]]
    BY TrailStep
  <1> DEFINE T == {n \in Nat : n + 1 \in 0 .. MaxRedirects /\ g[n] # f[n + 1]}
  <1>1. ASSUME T # {} PROVE FALSE
    <2>1. PICK n \in T : \A m \in T : n <= m
      <3>1. T \in SUBSET Nat
        OBVIOUS
      <3> HIDE DEF T
      <3> QED
        BY <1>1, <3>1, LeastNat
    <2>2. n \in 0 .. MaxRedirects /\ n + 1 \in 0 .. MaxRedirects /\ n + 1 # 0 /\ n + 1 - 1 = n
      OBVIOUS
    <2>3. f[n + 1] = Target[f[n]]
      BY <1>0, <2>2
    <2>4. CASE n = 0
      BY <1>0, <2>3, <2>4
    <2>5. CASE n # 0
      <3>1. n - 1 \in Nat /\ ~(n <= n - 1) /\ n - 1 + 1 = n
        BY <2>5
      <3>2. g[n - 1] = f[n]
        BY <2>1, <2>2, <3>1
      <3>3. g[n] = Target[g[n - 1]]
        BY <1>0, <2>2, <2>5
      <3> QED
        BY <2>3, <3>2, <3>3
    <2> QED
      BY <2>4, <2>5
  <1>2. /\ MaxRedirects - 1 \in Nat /\ MaxRedirects \in 0 .. MaxRedirects
        /\ MaxRedirects - 1 + 1 = MaxRedirects
    OBVIOUS
  <1>3. g[MaxRedirects - 1] = f[MaxRedirects]
    BY <1>1, <1>2
  <1>4. g[MaxRedirects] = Target[g[MaxRedirects - 1]]
    BY <1>0, <1>2
  <1> QED
    BY <1>3, <1>4 DEF Settled

\* A call under way is on the host of the base URL, or at the end of its redirects, unless it
\* has strayed.
OnBase == Waiting => url[1] = base \/ Settled(url) \/ \E u \in followed : Strays(u)

\* Adopting the host of a redirect that covers a path keeps that path's settled destination.
LEMMA AdoptKeeps ==
  ASSUME NEW u, NEW h, u[1] = h, MaxRedirects # 0, NEW p \in Path, Covers(u, p),
         Settled(Destination(h, p))
  PROVE  Destination(Target[u][1], p) = Destination(h, p)
  <1> DEFINE t == Target[u]
  <1>1. Target[<<h, p>>] = <<t[1], p>>
    BY DEF Covers
  <1>2. PICK f : IsTrail(f, <<h, p>>, MaxRedirects) /\ Destination(h, p) = f[MaxRedirects]
    BY DestinationTrail
  <1>3. PICK g : IsTrail(g, <<t[1], p>>, MaxRedirects) /\ Destination(t[1], p) = g[MaxRedirects]
    BY DestinationTrail
  <1> QED
    BY <1>1, <1>2, <1>3, TrailShift

LEMMA DestinationStep ==
  IInv /\ OnBase /\ SameDestination /\ [Next]_vars => OnBase' /\ SameDestination'
  <1> SUFFICES ASSUME IInv, OnBase, SameDestination, [Next]_vars
               PROVE  OnBase' /\ SameDestination'
    OBVIOUS
  <1>1. ASSUME NEW p \in Path, Request(p) PROVE OnBase' /\ SameDestination'
    BY <1>1 DEF Request, OnBase, SameDestination, Settled, Strays, Adoptable, Covers
  <1>2. CASE Follow
    <2> DEFINE t == Target[url]
    <2>1. /\ Waiting /\ ~Settled(url)
          /\ url' = t /\ url \in Url /\ t \in Url /\ MaxRedirects # 0
          /\ followed' = followed \cup {url} /\ Waiting' = Waiting
      BY <1>2, TargetIsUrl, RedirectsAssumption
      DEF Follow, Got, Settled, IInv, TypeOK, Waiting
    <2>2. CASE \E u \in followed : Strays(u)
      BY <2>1, <2>2 DEF OnBase, SameDestination, Settled, Strays, Adoptable, Covers
    <2>3. CASE url[1] = base /\ t[2] = url[2]
      <3>1. base' = t[1]
        BY <1>2, <2>3 DEF Follow
      <3>2. ASSUME NEW p \in Path, Settled(Destination(Configured, p)),
                   \A u \in followed' : ~Strays(u) /\ (Adoptable(u) => Covers(u, p))
            PROVE  Destination(base', p) = Destination(Configured, p)
        <4>1. Destination(base, p) = Destination(Configured, p)
          BY <2>1, <3>2 DEF SameDestination
        <4>2. Covers(url, p)
          BY <2>1, <2>3, <3>2 DEF Adoptable
        <4>3. Destination(t[1], p) = Destination(base, p)
          BY <2>1, <2>3, <3>2, <4>1, <4>2, AdoptKeeps
        <4> QED
          BY <3>1, <4>1, <4>3
      <3>3. SameDestination'
        BY <3>2 DEF SameDestination, Settled, Strays, Adoptable, Covers
      <3> QED
        BY <2>1, <3>1, <3>3 DEF OnBase
    <2>4. CASE url[1] = base /\ t[2] # url[2]
      <3>1. base' = base
        BY <1>2, <2>4 DEF Follow
      <3>2. t[1] = base \/ Settled(t) \/ Strays(url)
        BY <2>4 DEF Strays
      <3>3. OnBase'
        BY <2>1, <3>1, <3>2 DEF OnBase, Settled, Strays
      <3>4. SameDestination'
        BY <2>1, <3>1 DEF SameDestination, Settled, Strays, Adoptable, Covers
      <3> QED
        BY <3>3, <3>4
    <2> QED
      BY <2>1, <2>2, <2>3, <2>4 DEF OnBase
  <1>3. ASSUME base' = base, url' = url, followed' = followed, Waiting' => Waiting
        PROVE  OnBase' /\ SameDestination'
    BY <1>3 DEF OnBase, SameDestination, Settled, Strays, Adoptable, Covers
  <1> QED
    BY <1>1, <1>2, <1>3
    DEF Next, Step, vars, FollowNoMore, Succeed, Unavailable, UnavailableLast, Refused,
        TimedOut, TimedOutLast, Broken, Return, Finished, RaiseLast, Got, Waiting

\* For every gateway: a base URL adopted from a redirect diverts no later call, unless the
\* client followed a redirect of one path that its host does not apply to the other, or
\* strayed to another host before it was redirected again.
THEOREM Adoption == Spec => []SameDestination
  <1>1. Init => OnBase /\ SameDestination
    BY DEF Init, OnBase, SameDestination, Waiting
  <1>2. IInv /\ OnBase /\ SameDestination /\ [Next]_vars => (IInv /\ OnBase /\ SameDestination)'
    BY IInvStep, DestinationStep
  <1> QED
    BY <1>1, <1>2, IInvInit, PTL DEF Spec
=============================================================================
