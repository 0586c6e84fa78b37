------------------------ MODULE NotificationDispatch ------------------------
(***************************************************************************)
(* NotificationService.send: the Redis claim that makes a notification go  *)
(* out once, the notification row and its attempts, the provider calls     *)
(* with their retries, and the two ways a send ends: the caller commits    *)
(* its session or rolls it back.                                           *)
(*                                                                         *)
(* A sender is a session that calls send: a handler in a delivery of the   *)
(* event pipeline, or the background task of the resend endpoint.  A key   *)
(* is the dedup key (template, channel, recipient, scope): redelivered     *)
(* events, republished vouchers and resends send under the same key.  Rows *)
(* belong to the sender's transaction, which nobody else sees before it    *)
(* commits; the claim and the provider do not roll back with it.           *)
(***************************************************************************)
EXTENDS Naturals, Sequences

CONSTANTS
    Sender,       \* sessions that send
    Key,          \* dedup keys
    Disabled,     \* keys of the email channel while email is switched off
    MaxRetries,   \* NOTIFICATION_MAX_RETRIES
    MaxStarts,    \* bound: calls of send in a behaviour
    None          \* no key: the sender is idle

ASSUME DisabledAssumption == Disabled \subseteq Key
ASSUME RetriesAssumption == MaxRetries \in Nat
ASSUME StartsAssumption == MaxStarts \in Nat
ASSUME NoKeyAssumption == None \notin Key

VARIABLES
    claim,     \* claim[k]: the key exists in Redis
    pc,        \* pc[s]: what sender s does next
    key,       \* key[s]: the key s sends under
    held,      \* held[s]: `claimed' is True: s has set the key and would release it
    note,      \* note[s]: the notification row of s's transaction
    result,    \* result[s]: the provider's DeliveryResult of the current attempt
    answer,    \* answer[s]: status returned to the caller, or "raised"
    rows,      \* rows[k]: committed notifications
    told,      \* told[k]: a caller that committed had been answered SENT
    starts,    \* calls of send so far
    sent,      \* sent[k]: messages accepted by the provider, which the recipient gets
    doubts,    \* doubts[k]: times the code could not know, or forgot, that it had sent
    losses     \* losses[k]: times a claim was left behind by a crash or a Redis error

vars == <<claim, pc, key, held, note, result, answer, rows, told, starts, sent, doubts,
          losses>>

\* What only a session of its own changes, and what only Send and Commit change.
session == <<pc, key, held, note, result, answer>>
kept == <<rows, told, starts>>

MaxAttempts == MaxRetries + 1
NotificationStatus == {"NONE", "PROCESSING", "RETRYING", "SENT", "FAILED"}
AttemptStatus == {"IN_PROGRESS", "SUCCESS", "FAILED"}
Pc == {"idle", "claim", "create", "attempt", "call", "record", "release", "return"}

NoNote == [status |-> "NONE", retry |-> 0, attempts |-> <<>>]

Init ==
    /\ claim = [k \in Key |-> FALSE]
    /\ pc = [s \in Sender |-> "idle"]
    /\ key = [s \in Sender |-> None]
    /\ held = [s \in Sender |-> FALSE]
    /\ note = [s \in Sender |-> NoNote]
    /\ result = [s \in Sender |-> "none"]
    /\ answer = [s \in Sender |-> "none"]
    /\ rows = [k \in Key |-> {}]
    /\ told = [k \in Key |-> FALSE]
    /\ starts = 0
    /\ sent = [k \in Key |-> 0]
    /\ doubts = [k \in Key |-> 0]
    /\ losses = [k \in Key |-> 0]

Goto(s, l) == pc' = [pc EXCEPT ![s] = l]
Bump(f, k) == [f EXCEPT ![k] = @ + 1]
Holding(s, k) == held[s] /\ key[s] = k
AtWork(k) == \E s \in Sender : key[s] = k

\* update_status of the sender's own row (and a history row of the transition).
SetStatus(s, st) == note' = [note EXCEPT ![s] = [@ EXCEPT !.status = st]]

\* NotificationAttemptRepository.create adds an attempt in progress.
Begun(n) == [n EXCEPT !.attempts = Append(@, "IN_PROGRESS")]

\* mark_success or mark_failed of the attempt in progress, retry_count and update_status.
Outcome(n, st, r, a) ==
    [status |-> st, retry |-> r, attempts |-> [n.attempts EXCEPT ![Len(n.attempts)] = a]]

\* The caller's session ends, by commit, rollback or the death of the process.
EndSession(s) ==
    /\ Goto(s, "idle")
    /\ key' = [key EXCEPT ![s] = None]
    /\ held' = [held EXCEPT ![s] = FALSE]
    /\ note' = [note EXCEPT ![s] = NoNote]
    /\ result' = [result EXCEPT ![s] = "none"]
    /\ answer' = [answer EXCEPT ![s] = "none"]

-----------------------------------------------------------------------------
(* Slips: what an action below would be after a plausible mistake.         *)

\* SET without NX.
ClaimWithoutNx(s) ==
    /\ pc[s] = "claim"
    /\ claim' = [claim EXCEPT ![key[s]] = TRUE]
    /\ held' = [held EXCEPT ![s] = TRUE]
    /\ Goto(s, "create")
    /\ UNCHANGED <<key, note, result, answer, kept, sent, doubts, losses>>

\* increment_retry forgotten.
RetryUncounted(s) ==
    /\ pc[s] = "record"
    /\ result[s] = "retryable"
    /\ Len(note[s].attempts) < MaxAttempts
    /\ note' = [note EXCEPT ![s] = Outcome(@, "RETRYING", @.retry, "FAILED")]
    /\ Goto(s, "attempt")
    /\ UNCHANGED <<claim, key, held, result, answer, kept, sent, doubts, losses>>

\* <= for < in the retry condition.
RetryOnceMore(s) ==
    /\ pc[s] = "record"
    /\ result[s] = "retryable"
    /\ Len(note[s].attempts) <= MaxAttempts
    /\ note' = [note EXCEPT ![s] = Outcome(@, "RETRYING", @.retry + 1, "FAILED")]
    /\ Goto(s, "attempt")
    /\ UNCHANGED <<claim, key, held, result, answer, kept, sent, doubts, losses>>

\* Only a permanent failure leaves the loop.
GiveUpOnPermanentOnly(s) ==
    /\ pc[s] = "record"
    /\ result[s] = "permanent"
    /\ note' = [note EXCEPT ![s] = Outcome(@, "FAILED", @.retry, "FAILED")]
    /\ answer' = [answer EXCEPT ![s] = "FAILED"]
    /\ Goto(s, "release")
    /\ UNCHANGED <<claim, key, held, result, kept, sent, doubts, losses>>

\* send without its except clause.
DatabaseErrorKeepsClaim(s) ==
    /\ pc[s] \in {"create", "attempt", "record"}
    /\ answer' = [answer EXCEPT ![s] = "raised"]
    /\ held' = [held EXCEPT ![s] = FALSE]
    /\ Goto(s, "return")
    /\ UNCHANGED <<claim, key, note, result, kept, sent, doubts, losses>>

-----------------------------------------------------------------------------
(* send: the claim.                                                        *)

\* A handler or the resend task calls send; a disabled channel answers CANCELLED.
Send(s, k) ==
    /\ pc[s] = "idle"
    /\ starts < MaxStarts
    /\ starts' = starts + 1
    /\ key' = [key EXCEPT ![s] = k]
    /\ \/ k \notin Disabled /\ Goto(s, "claim") /\ UNCHANGED answer
       \/ /\ k \in Disabled
          /\ Goto(s, "return")
          /\ answer' = [answer EXCEPT ![s] = "CANCELLED"]
    /\ UNCHANGED <<claim, held, note, result, rows, told, sent, doubts, losses>>

\* SET NX sets the key.
Claim(s) ==
    /\ pc[s] = "claim"
    /\ ~claim[key[s]]
    /\ claim' = [claim EXCEPT ![key[s]] = TRUE]
    /\ held' = [held EXCEPT ![s] = TRUE]
    /\ Goto(s, "create")
    /\ UNCHANGED <<key, note, result, answer, kept, sent, doubts, losses>>

\* The key exists: a transient row with status SENT is answered, nothing is sent.
Suppress(s) ==
    /\ pc[s] = "claim"
    /\ claim[key[s]]
    /\ answer' = [answer EXCEPT ![s] = "SENT"]
    /\ Goto(s, "return")
    /\ UNCHANGED <<claim, key, held, note, result, kept, sent, doubts, losses>>

\* Redis raises: the send goes on without a claim.  A SET that was executed before its
\* answer was lost leaves a key that nobody will release.
ClaimUnavailable(s) ==
    /\ pc[s] = "claim"
    /\ \/ UNCHANGED <<claim, losses>>
       \/ /\ ~claim[key[s]]
          /\ claim' = [claim EXCEPT ![key[s]] = TRUE]
          /\ losses' = Bump(losses, key[s])
    /\ Goto(s, "create")
    /\ UNCHANGED <<key, held, note, result, answer, kept, sent, doubts>>

\* DEL after a failed or interrupted send; without a claim there is nothing to delete.
Release(s) ==
    /\ pc[s] = "release"
    /\ claim' = IF held[s] THEN [claim EXCEPT ![key[s]] = FALSE] ELSE claim
    /\ held' = [held EXCEPT ![s] = FALSE]
    /\ Goto(s, "return")
    /\ UNCHANGED <<key, note, result, answer, kept, sent, doubts, losses>>

\* DEL raises: logged only, the key stays for its 24 hours.
ReleaseLost(s) ==
    /\ pc[s] = "release"
    /\ held[s]
    /\ losses' = Bump(losses, key[s])
    /\ held' = [held EXCEPT ![s] = FALSE]
    /\ Goto(s, "return")
    /\ UNCHANGED <<claim, key, note, result, answer, kept, sent, doubts>>

\* 24 hours have passed: no session that used the key is still alive.
Expire(k) ==
    /\ claim[k]
    /\ ~AtWork(k)
    /\ claim' = [claim EXCEPT ![k] = FALSE]
    /\ doubts' = Bump(doubts, k)
    /\ UNCHANGED <<session, kept, sent, losses>>

-----------------------------------------------------------------------------
(* _send_impl: the row, the attempts and the provider.                     *)

\* The row is created and moved to PROCESSING; the template renders.
Create(s) ==
    /\ pc[s] = "create"
    /\ SetStatus(s, "PROCESSING")
    /\ Goto(s, "attempt")
    /\ UNCHANGED <<claim, key, held, result, answer, kept, sent, doubts, losses>>

\* The template does not render: FAILED without an attempt.
RenderFails(s) ==
    /\ pc[s] = "create"
    /\ SetStatus(s, "FAILED")
    /\ answer' = [answer EXCEPT ![s] = "FAILED"]
    /\ Goto(s, "release")
    /\ UNCHANGED <<claim, key, held, result, kept, sent, doubts, losses>>

BeginAttempt(s) ==
    /\ pc[s] = "attempt"
    /\ note' = [note EXCEPT ![s] = Begun(@)]
    /\ Goto(s, "call")
    /\ UNCHANGED <<claim, key, held, result, answer, kept, sent, doubts, losses>>

\* The provider takes the message and says so.  A message sent without a claim does not
\* stop the next one.
Accept(s) ==
    /\ pc[s] = "call"
    /\ sent' = Bump(sent, key[s])
    /\ doubts' = IF held[s] THEN doubts ELSE Bump(doubts, key[s])
    /\ result' = [result EXCEPT ![s] = "ok"]
    /\ Goto(s, "record")
    /\ UNCHANGED <<claim, key, held, note, answer, kept, losses>>

\* The provider takes the message, but its answer is lost: a timeout is retryable.
AcceptUnheard(s) ==
    /\ pc[s] = "call"
    /\ sent' = Bump(sent, key[s])
    /\ doubts' = Bump(doubts, key[s])
    /\ result' = [result EXCEPT ![s] = "retryable"]
    /\ Goto(s, "record")
    /\ UNCHANGED <<claim, key, held, note, answer, kept, losses>>

\* An error code, an HTTP or SMTP error or an exception.
Refuse(s) ==
    /\ pc[s] = "call"
    /\ \E r \in {"retryable", "permanent"} : result' = [result EXCEPT ![s] = r]
    /\ Goto(s, "record")
    /\ UNCHANGED <<claim, key, held, note, answer, kept, sent, doubts, losses>>

RecordSuccess(s) ==
    /\ pc[s] = "record"
    /\ result[s] = "ok"
    /\ note' = [note EXCEPT ![s] = Outcome(@, "SENT", @.retry, "SUCCESS")]
    /\ answer' = [answer EXCEPT ![s] = "SENT"]
    /\ Goto(s, "return")
    /\ UNCHANGED <<claim, key, held, result, kept, sent, doubts, losses>>

Retry(s) ==
    /\ pc[s] = "record"
    /\ result[s] = "retryable"
    /\ Len(note[s].attempts) < MaxAttempts
    /\ note' = [note EXCEPT ![s] = Outcome(@, "RETRYING", @.retry + 1, "FAILED")]
    /\ Goto(s, "attempt")
    /\ UNCHANGED <<claim, key, held, result, answer, kept, sent, doubts, losses>>

GiveUp(s) ==
    /\ pc[s] = "record"
    /\ \/ result[s] = "permanent"
       \/ result[s] = "retryable" /\ Len(note[s].attempts) = MaxAttempts
    /\ note' = [note EXCEPT ![s] = Outcome(@, "FAILED", @.retry, "FAILED")]
    /\ answer' = [answer EXCEPT ![s] = "FAILED"]
    /\ Goto(s, "release")
    /\ UNCHANGED <<claim, key, held, result, kept, sent, doubts, losses>>

\* A flush of the row, the attempt or the status raises; after an accepted message the
\* release below forgets that it was sent.
DatabaseError(s) ==
    /\ pc[s] \in {"create", "attempt", "record"}
    /\ doubts' = IF held[s] /\ pc[s] = "record" /\ result[s] = "ok"
                 THEN Bump(doubts, key[s]) ELSE doubts
    /\ answer' = [answer EXCEPT ![s] = "raised"]
    /\ Goto(s, "release")
    /\ UNCHANGED <<claim, key, held, note, result, kept, sent, losses>>

-----------------------------------------------------------------------------
(* The caller.                                                             *)

\* The handler returns and the session is committed.
Commit(s) ==
    /\ pc[s] = "return"
    /\ answer[s] # "raised"
    /\ rows' = IF note[s] = NoNote THEN rows
               ELSE [rows EXCEPT ![key[s]] = @ \cup {note[s]}]
    /\ told' = [told EXCEPT ![key[s]] = @ \/ answer[s] = "SENT"]
    /\ EndSession(s)
    /\ UNCHANGED <<claim, starts, sent, doubts, losses>>

\* send raised, or the handler fails later on: the rows are rolled back.
Rollback(s) ==
    /\ pc[s] = "return"
    /\ EndSession(s)
    /\ UNCHANGED <<claim, kept, sent, doubts, losses>>

\* The process dies or the task is cancelled: `except Exception' does not run, and a
\* claim that is held stays.
Crash(s) ==
    /\ pc[s] # "idle"
    /\ losses' = IF held[s] THEN Bump(losses, key[s]) ELSE losses
    /\ EndSession(s)
    /\ UNCHANGED <<claim, kept, sent, doubts>>

-----------------------------------------------------------------------------
\* What a running send does on its own.
Step(s) ==
    \/ Claim(s) \/ Suppress(s) \/ Release(s) \/ Create(s) \/ BeginAttempt(s)
    \/ Accept(s) \/ Refuse(s) \/ RecordSuccess(s) \/ Retry(s) \/ GiveUp(s)
    \/ Commit(s) \/ Rollback(s)

Fault(s) ==
    \/ ClaimUnavailable(s) \/ ReleaseLost(s) \/ RenderFails(s) \/ AcceptUnheard(s)
    \/ DatabaseError(s) \/ Crash(s)

Next ==
    \/ \E s \in Sender, k \in Key : Send(s, k)
    \/ \E s \in Sender : Step(s) \/ Fault(s)
    \/ \E k \in Key : Expire(k)

Spec == Init /\ [][Next]_vars

\* The event loop runs every ready task; a provider call ends by its HTTP timeout.
FairSpec == Spec /\ \A s \in Sender : WF_vars(Step(s))

-----------------------------------------------------------------------------
(* Properties                                                              *)

\* A notification row with its attempts.
Note ==
    [status : NotificationStatus, retry : 0 .. MaxRetries, attempts : Seq(AttemptStatus)]

\* Types; a notification never has more attempts than MAX_RETRIES + 1.
TypeOK ==
    /\ claim \in [Key -> BOOLEAN]
    /\ pc \in [Sender -> Pc]
    /\ key \in [Sender -> Key \cup {None}]
    /\ held \in [Sender -> BOOLEAN]
    /\ note \in [Sender -> Note]
    /\ \A s \in Sender : Len(note[s].attempts) <= MaxAttempts
    /\ result \in [Sender -> {"none", "ok", "retryable", "permanent"}]
    /\ answer \in [Sender -> {"none", "SENT", "FAILED", "CANCELLED", "raised"}]
    /\ rows \in [Key -> SUBSET Note]
    /\ told \in [Key -> BOOLEAN]
    /\ starts \in 0 .. MaxStarts
    /\ sent \in [Key -> Nat]
    /\ doubts \in [Key -> Nat]
    /\ losses \in [Key -> Nat]

\* Redelivery, rollback, crashes and concurrent senders never repeat a message: every
\* message beyond the first is one the code could not know of (a lost answer, a send
\* without Redis), forgot (database error after the send) or may repeat (24 hours later).
DuplicatesNeedDoubt ==
    \A k \in Key : sent[k] <= 1 + doubts[k]

\* A send that fails gives its claim back: a claim that stays, with nothing sent and
\* nobody at work for it, was left by a crash or by Redis.
OrphanClaimsNeedLoss ==
    \A k \in Key :
        claim[k] /\ sent[k] = 0 /\ (\A s \in Sender : ~Holding(s, k)) => losses[k] > 0

\* A finished notification: final status, one attempt per provider call, success last or
\* not at all, retry_count their number less one (0 when the template did not render).
Consistent(n) ==
    LET c == Len(n.attempts) IN
    /\ n.status \in {"SENT", "FAILED"}
    /\ \A i \in 1 .. c :
           n.attempts[i] = IF n.status = "SENT" /\ i = c THEN "SUCCESS" ELSE "FAILED"
    /\ n.status = "SENT" => c > 0
    /\ n.retry = IF c = 0 THEN 0 ELSE c - 1

\* The committed history of a notification tells what happened: no row is committed in
\* the middle of a send, whatever fails in it.
AuditConsistent ==
    \A k \in Key : \A n \in rows[k] : Consistent(n)

\* A notification that is recorded as sent was accepted by the provider.
RecordedIsSent ==
    \A k \in Key : (\E n \in rows[k] : n.status = "SENT") => sent[k] > 0

\* The retry loop ends: every send returns to its caller and the session ends.
EverySendEnds ==
    \A s \in Sender : pc[s] # "idle" ~> pc[s] = "idle"

Quiet == \A s \in Sender : pc[s] = "idle"

\* README.md:26, "Complete audit trail of events, notifications, status history,
\* attempts": with no crash, no outage and no lost answer, once every session has ended,
\* a message that a committed handler counts as sent has a notification row.
SentIsRecorded ==
    \A k \in Key :
        Quiet /\ told[k] /\ sent[k] > 0 /\ losses[k] = 0 /\ doubts[k] = 0
            => \E n \in rows[k] : n.status = "SENT"

\* notification_service.py:36-38, a republished gift "still produces exactly one message
\* per recipient": as long as nothing crashed, a caller that was answered SENT is right
\* once every session has ended.
ToldIsSent ==
    \A k \in Key : Quiet /\ told[k] /\ losses[k] = 0 => sent[k] > 0
=============================================================================
