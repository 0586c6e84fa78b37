--------------------------- MODULE WhatsAppWebhook --------------------------
(***************************************************************************)
(* The callbacks of Meta about WhatsApp messages: delivery statuses and    *)
(* messages of customers.  A request works on a database session of its    *)
(* own, the one get_db opens for it; what it flushes is seen by itself     *)
(* only, until the session commits.                                        *)
(***************************************************************************)
EXTENDS Naturals, Sequences

CONSTANTS
    Sent,        \* wamids: WhatsApp messages that the worker hands to Meta
    Received,    \* wamids of the messages that customers write
    Requests,    \* handlers that can work at the same time
    MaxPosts     \* bound on the callbacks that Meta posts

VARIABLES
    stored,     \* the committed rows: of a notification with its attempt, and the inbox
    session,    \* of each request, the rows as it sees them and what is left to do
    progress,   \* how far Meta has come with each message of the worker
    answered,   \* the items that a request with answer 200 has counted as processed
    posts       \* callbacks posted so far

vars == <<stored, session, progress, answered, posts>>

-----------------------------------------------------------------------------
(* Rows.                                                                   *)

NoRow == [notification |-> "NONE", attempt |-> "NONE"]

\* What the dispatcher has flushed when the provider has answered with a wamid.
SentRow == [notification |-> "SENT", attempt |-> "SUCCESS"]

UpdateStatus(db, m, status) == [db EXCEPT !.rows[m].notification = status]
SetAttempt(db, m, status) == [db EXCEPT !.rows[m].attempt = status]

-----------------------------------------------------------------------------
(* The handlers of the items of a callback.                                *)

\* get_by_provider_message_id finds nothing, or a status this service does not know.
Ignored(db, item) ==
    \/ item.id \notin Sent
    \/ db.rows[item.id] = NoRow
    \/ item.status \notin {"sent", "delivered", "read", "failed"}

ProcessStatus(db, item) ==
    LET m == item.id
        now == db.rows[m].notification
    IN  IF Ignored(db, item) THEN db
        ELSE CASE item.status = "delivered" ->
                    SetAttempt(IF now # "READ" THEN UpdateStatus(db, m, "DELIVERED") ELSE db,
                               m, "SUCCESS")
               [] item.status = "read" -> SetAttempt(UpdateStatus(db, m, "READ"), m, "SUCCESS")
               [] item.status = "failed" -> UpdateStatus(SetAttempt(db, m, "FAILED"), m, "FAILED")
               [] item.status = "sent" ->
                    IF now \in {"CREATED", "QUEUED", "PROCESSING"}
                    THEN UpdateStatus(db, m, "SENT") ELSE db

\* An inbound message is kept once; without a sender it is not kept at all.
ProcessInboundMessage(db, item) ==
    IF item.from THEN [db EXCEPT !.inbox = @ \cup {item.id}] ELSE db

Handled(db, item) ==
    IF item.kind = "status" THEN ~Ignored(db, item) ELSE item.from

Process(db, item) ==
    IF item.kind = "status" THEN ProcessStatus(db, item) ELSE ProcessInboundMessage(db, item)

-----------------------------------------------------------------------------
(* What Meta posts.                                                        *)

\* Meta tells of any state a message has gone through, in any order, repeatedly.
Reached(m) ==
    CASE progress[m] = "sent" -> {"sent"}
      [] progress[m] = "delivered" -> {"sent", "delivered"}
      [] progress[m] = "read" -> {"sent", "delivered", "read"}
      [] progress[m] = "failed" -> {"sent", "failed"}
      [] OTHER -> {}

Statuses == UNION {[kind : {"status"}, id : {m}, status : Reached(m)] : m \in Sent}
Mails == [kind : {"message"}, id : Received, from : BOOLEAN]

\* The statuses of a callback come before its messages.
Batches ==
    {<<i>> : i \in Statuses \cup Mails} \cup {<<s, i>> : s \in Statuses, i \in Statuses \cup Mails}

-----------------------------------------------------------------------------
(* The next-state relation.                                                *)

Closed == [open |-> FALSE, todo |-> <<>>, db |-> <<>>, counted |-> {}]

Init ==
    /\ stored = [rows |-> [m \in Sent |-> NoRow], inbox |-> {}]
    /\ session = [r \in Requests |-> Closed]
    /\ progress = [m \in Sent |-> "none"]
    /\ answered = {}
    /\ posts = 0

\* Meta takes a message from the worker; the worker commits its row later.
Accept(m) ==
    /\ progress[m] = "none"
    /\ progress' = [progress EXCEPT ![m] = "sent"]
    /\ UNCHANGED <<stored, session, answered, posts>>

CommitRow(m) ==
    /\ progress[m] # "none" /\ stored.rows[m] = NoRow
    /\ stored' = [stored EXCEPT !.rows[m] = SentRow]
    /\ UNCHANGED <<session, progress, answered, posts>>

Advance(m) ==
    /\ \/ progress[m] = "sent" /\ progress' = [progress EXCEPT ![m] = "failed"]
       \/ progress[m] = "sent" /\ progress' = [progress EXCEPT ![m] = "delivered"]
       \/ progress[m] = "delivered" /\ progress' = [progress EXCEPT ![m] = "read"]
    /\ UNCHANGED <<stored, session, answered, posts>>

\* handle_webhook_notification: a bad signature (401) or bad JSON (400) leaves all as it was.
Refuse ==
    /\ posts < MaxPosts
    /\ posts' = posts + 1
    /\ UNCHANGED <<stored, session, progress, answered>>

\* An accepted callback; one for another kind of object has nothing to do.
Begin(r) ==
    /\ ~session[r].open
    /\ posts < MaxPosts
    /\ posts' = posts + 1
    /\ \E items \in Batches \cup {<<>>} :
          session' = [session EXCEPT ![r] = [open |-> TRUE, todo |-> items,
                                             db |-> stored, counted |-> {}]]
    /\ UNCHANGED <<stored, progress, answered>>

\* The session reads a row when it first needs it, and its own writes from then on.
View(r) ==
    LET own == session[r].db
    IN  [own EXCEPT !.rows = [m \in Sent |-> IF own.rows[m] = NoRow THEN stored.rows[m]
                                                                   ELSE own.rows[m]]]

ProcessItem(r) ==
    /\ session[r].open /\ session[r].todo # <<>>
    /\ LET item == Head(session[r].todo)
           db == View(r)
       IN  session' = [session EXCEPT
                         ![r].todo = Tail(@),
                         ![r].db = Process(db, item),
                         ![r].counted = IF Handled(db, item) THEN @ \cup {item} ELSE @]
    /\ UNCHANGED <<stored, progress, answered, posts>>

\* get_db: the session closes after the answer; nothing on the way commits it.
CloseSession(r) ==
    /\ session' = [session EXCEPT ![r] = Closed]
    /\ UNCHANGED stored

Respond(r) ==
    /\ session[r].open /\ session[r].todo = <<>>
    /\ answered' = answered \cup session[r].counted
    /\ CloseSession(r)
    /\ UNCHANGED <<progress, posts>>

\* An exception of the database: rolled back, answered with 500.
Fail(r) ==
    /\ session[r].open
    /\ CloseSession(r)
    /\ UNCHANGED <<progress, answered, posts>>

Next ==
    \/ \E m \in Sent : Accept(m) \/ CommitRow(m) \/ Advance(m)
    \/ \E r \in Requests : Begin(r) \/ ProcessItem(r) \/ Respond(r) \/ Fail(r)
    \/ Refuse

Spec == Init /\ [][Next]_vars

-----------------------------------------------------------------------------
(* Properties.                                                             *)

(***************************************************************************)
(* A status or a message that was answered as processed is in the          *)
(* database, for Meta will not post it again.  The tests of the webhook    *)
(* claim it, on a session they share with the handler: "Status callback    *)
(* 'delivered' updates Notification and NotificationAttempt", "Inbound     *)
(* customer message is stored in inbound_messages table".                  *)
(***************************************************************************)
AcknowledgedKept ==
    \A item \in answered :
        IF item.kind = "message" THEN item.id \in stored.inbox
        ELSE item.status # "sent" => stored.rows[item.id].notification \notin {"NONE", "SENT"}

=============================================================================
