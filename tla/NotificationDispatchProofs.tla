--------------------- MODULE NotificationDispatchProofs ---------------------
(***************************************************************************)
(* The invariants of NotificationDispatch, for any number of senders, keys *)
(* and retries.  IInv is their inductive strengthening: it adds where a    *)
(* sender is when it holds the claim (ClaimOK), that a claim which is free *)
(* or held by a sender that has not sent yet leaves room for one message   *)
(* (CountOK), and what a row looks like before it is final (NoteOK).       *)
(***************************************************************************)
EXTENDS NotificationDispatch, SequenceTheorems, TLAPS

\* A sender at work has a key, and holds the claim only inside the send.
SenderOK ==
    \A s \in Sender :
        /\ pc[s] = "idle" <=> key[s] = None
        /\ held[s] => pc[s] \notin {"idle", "claim"}

\* A claim is held by one sender at most, and is then in Redis.
ClaimOK ==
    /\ \A s \in Sender : held[s] => claim[key[s]]
    /\ \A s, t \in Sender : held[s] /\ held[t] /\ key[s] = key[t] => s = t

\* The sender's message has not been accepted as far as it knows.
Unsent(s) ==
    \/ pc[s] \in {"create", "attempt", "call", "release"}
    \/ pc[s] = "record" /\ result[s] # "ok"

\* A free claim, or one whose holder has not sent, leaves room for one message.
CountOK ==
    \A k \in Key :
        /\ ~claim[k] => sent[k] <= doubts[k]
        /\ \A s \in Sender : Holding(s, k) /\ Unsent(s) => sent[k] <= doubts[k]

\* Success is known only of a message that was accepted.
SentOK ==
    \A s \in Sender :
        /\ pc[s] = "record" /\ result[s] = "ok" => sent[key[s]] > 0
        /\ pc[s] # "idle" /\ note[s].status = "SENT" => sent[key[s]] > 0
        /\ pc[s] = "return" /\ held[s] => sent[key[s]] > 0

\* A row with f failed attempts so far.
Open(n, f) == n.retry = f /\ \A i \in 1 .. f : n.attempts[i] = "FAILED"

\* The row n of a sender at p whose send has answered a.
RowOK(p, n, a) ==
    /\ p \in {"idle", "claim", "create"} => n = NoNote
    /\ p = "attempt" => Len(n.attempts) <= MaxRetries /\ Open(n, Len(n.attempts))
    /\ p \in {"call", "record"} => Len(n.attempts) > 0 /\ Open(n, Len(n.attempts) - 1)
    /\ p = "release" => a \in {"FAILED", "raised"}
    /\ p = "return" => a # "none"
    /\ p \notin {"release", "return"} => a = "none"
    /\ a = "FAILED" => Consistent(n)
    /\ a = "SENT" => n = NoNote \/ Consistent(n)
    /\ a = "CANCELLED" => n = NoNote

\* Every row fits the position of its sender.
NoteOK == \A s \in Sender : RowOK(pc[s], note[s], answer[s])

\* Types together with where the claim is held.
TypeInv == TypeOK /\ SenderOK

\* The inductive invariant.
IInv ==
    /\ TypeInv /\ NoteOK /\ ClaimOK /\ CountOK /\ SentOK
    /\ DuplicatesNeedDoubt /\ OrphanClaimsNeedLoss /\ AuditConsistent /\ RecordedIsSent

-----------------------------------------------------------------------------
(* The row of a sender.                                                    *)

\* The outcome of an attempt changes the status, the count and the last attempt.
LEMMA OutcomeFacts ==
  ASSUME NEW n \in Note, Len(n.attempts) > 0, NEW st \in NotificationStatus,
         NEW r \in 0 .. MaxRetries, NEW a \in AttemptStatus
  PROVE  LET o == Outcome(n, st, r, a) IN
         /\ o \in Note
         /\ o.status = st /\ o.retry = r
         /\ Len(o.attempts) = Len(n.attempts)
         /\ o.attempts[Len(n.attempts)] = a
         /\ \A i \in 1 .. Len(n.attempts) - 1 : o.attempts[i] = n.attempts[i]
  <1>1. n.attempts \in Seq(AttemptStatus) /\ Len(n.attempts) \in 1 .. Len(n.attempts)
    BY DEF Note
  <1> DEFINE q == [n.attempts EXCEPT ![Len(n.attempts)] = a]
  <1>2. /\ q \in Seq(AttemptStatus) /\ Len(q) = Len(n.attempts)
        /\ \A j \in 1 .. Len(n.attempts) :
               q[j] = IF j = Len(n.attempts) THEN a ELSE n.attempts[j]
    BY <1>1, ExceptSeq
  <1>3. /\ q[Len(n.attempts)] = a
        /\ \A i \in 1 .. Len(n.attempts) - 1 : q[i] = n.attempts[i]
    BY <1>1, <1>2
  <1> HIDE DEF q
  <1>4. [status |-> st, retry |-> r, attempts |-> q] \in Note
    BY <1>2 DEF Note
  <1> QED
    BY <1>2, <1>3, <1>4 DEF Outcome, q

\* An attempt is added at the end.
LEMMA AttemptFacts ==
  ASSUME NEW n \in Note
  PROVE  LET o == Begun(n) IN
         /\ o \in Note
         /\ o.status = n.status /\ o.retry = n.retry
         /\ Len(o.attempts) = Len(n.attempts) + 1
         /\ \A i \in 1 .. Len(n.attempts) : o.attempts[i] = n.attempts[i]
  <1> DEFINE q == Append(n.attempts, "IN_PROGRESS")
  <1>1. n.attempts \in Seq(AttemptStatus) /\ "IN_PROGRESS" \in AttemptStatus
    BY DEF Note, AttemptStatus
  <1>2. /\ q \in Seq(AttemptStatus) /\ Len(q) = Len(n.attempts) + 1
        /\ \A i \in 1 .. Len(n.attempts) : q[i] = n.attempts[i]
    BY <1>1, AppendProperties
  <1> HIDE DEF q
  <1>3. [n EXCEPT !.attempts = q] \in Note
    BY <1>2 DEF Note
  <1>4. /\ [n EXCEPT !.attempts = q].status = n.status
        /\ [n EXCEPT !.attempts = q].retry = n.retry
        /\ [n EXCEPT !.attempts = q].attempts = q
    BY DEF Note
  <1> QED
    BY <1>2, <1>3, <1>4 DEF Begun, q

\* A status is set, the empty row is a row.
LEMMA StatusFacts ==
  ASSUME NEW n \in Note, NEW st \in NotificationStatus
  PROVE  LET o == [n EXCEPT !.status = st] IN
         o \in Note /\ o.status = st /\ o.retry = n.retry /\ o.attempts = n.attempts
  BY DEF Note

\* The empty row.
LEMMA NoNoteFacts ==
  NoNote \in Note /\ NoNote.status = "NONE" /\ NoNote.retry = 0
      /\ Len(NoNote.attempts) = 0
  BY RetriesAssumption DEF NoNote, Note, NotificationStatus

\* How a step changes the rows: one sender's, and only these actions do.
LEMMA RowActions ==
  [Next]_vars =>
      \/ note' = note
      \/ \E s \in Sender :
             \/ Create(s) \/ RenderFails(s) \/ BeginAttempt(s) \/ RecordSuccess(s)
             \/ Retry(s) \/ GiveUp(s) \/ note' = [note EXCEPT ![s] = NoNote]
  BY DEF Next, vars, Step, Fault, Send, Expire, Claim, Suppress, ClaimUnavailable,
     Release,
         ReleaseLost, Accept, AcceptUnheard, Refuse, DatabaseError, Commit, Rollback,
         Crash, EndSession, session

\* Rows keep their type, and no row gets more than MaxAttempts attempts.
LEMMA RowStep ==
  ASSUME TypeInv, NoteOK, [Next]_vars
  PROVE  /\ note' \in [Sender -> Note]
         /\ \A s \in Sender : Len(note'[s].attempts) <= MaxAttempts
  <1> SUFFICES ASSUME NEW s \in Sender, NEW n \in Note, Len(n.attempts) <= MaxAttempts,
                      note' = [note EXCEPT ![s] = n]
               PROVE  /\ note' \in [Sender -> Note]
                      /\ \A t \in Sender : Len(note'[t].attempts) <= MaxAttempts
    <2>1. CASE note' = note
      BY <2>1 DEF TypeInv, TypeOK
    <2>2. ASSUME NEW s \in Sender, Create(s) \/ RenderFails(s)
          PROVE  \E n \in Note : Len(n.attempts) <= MaxAttempts
              /\ note' = [note EXCEPT ![s] = n]
      <3>1. note[s] \in Note /\ Len(note[s].attempts) <= MaxAttempts
        BY DEF TypeInv, TypeOK
      <3>2. PICK st \in NotificationStatus : note' = [note EXCEPT ![s] = [@ EXCEPT !.status = st]]
        BY <2>2 DEF Create, RenderFails, SetStatus, NotificationStatus
      <3> DEFINE o == [note[s] EXCEPT !.status = st]
      <3>3. o \in Note /\ Len(o.attempts) <= MaxAttempts
        BY <3>1, StatusFacts
      <3>4. note' = [note EXCEPT ![s] = o]
        BY <3>2
      <3> HIDE DEF o
      <3> QED
        BY <3>3, <3>4
    <2>3. ASSUME NEW s \in Sender, BeginAttempt(s)
          PROVE  \E n \in Note : Len(n.attempts) <= MaxAttempts
              /\ note' = [note EXCEPT ![s] = n]
      <3>1. note[s] \in Note /\ Len(note[s].attempts) + 1 <= MaxAttempts
        BY <2>3, RetriesAssumption DEF BeginAttempt, TypeInv, TypeOK, NoteOK, RowOK,
           MaxAttempts, Note
      <3> DEFINE o == Begun(note[s])
      <3>2. o \in Note /\ Len(o.attempts) <= MaxAttempts
        BY <3>1, AttemptFacts
      <3>3. note' = [note EXCEPT ![s] = o]
        BY <2>3 DEF BeginAttempt
      <3> HIDE DEF o
      <3> QED
        BY <3>2, <3>3
    <2>4. ASSUME NEW s \in Sender, RecordSuccess(s) \/ Retry(s) \/ GiveUp(s)
          PROVE  \E n \in Note : Len(n.attempts) <= MaxAttempts
              /\ note' = [note EXCEPT ![s] = n]
      <3>1. /\ pc[s] = "record" /\ note[s] \in Note /\ Len(note[s].attempts) > 0
            /\ Len(note[s].attempts) <= MaxAttempts /\ Len(note[s].attempts) \in Nat
            /\ note[s].retry = Len(note[s].attempts) - 1
        BY <2>4 DEF RecordSuccess, Retry, GiveUp, TypeInv, TypeOK, NoteOK, RowOK, Open,
           Note
      <3>2. note[s].retry \in 0 .. MaxRetries
        BY <3>1 DEF Note
      <3>3. Retry(s) => note[s].retry + 1 \in 0 .. MaxRetries
        BY <3>1, <3>2, RetriesAssumption DEF Retry, MaxAttempts
      <3>4. /\ {"SENT", "FAILED", "RETRYING"} \subseteq NotificationStatus
            /\ {"SUCCESS", "FAILED"} \subseteq AttemptStatus
        BY DEF NotificationStatus, AttemptStatus
      <3>5. CASE RecordSuccess(s)
        <4> DEFINE o == Outcome(note[s], "SENT", note[s].retry, "SUCCESS")
        <4>1. o \in Note /\ Len(o.attempts) <= MaxAttempts
          BY <3>1, <3>2, <3>4, <3>5, OutcomeFacts
        <4>2. note' = [note EXCEPT ![s] = o]
          BY <3>5 DEF RecordSuccess
        <4> HIDE DEF o
        <4> QED
          BY <4>1, <4>2
      <3>6. CASE Retry(s)
        <4> DEFINE o == Outcome(note[s], "RETRYING", note[s].retry + 1, "FAILED")
        <4>1. o \in Note /\ Len(o.attempts) <= MaxAttempts
          BY <3>1, <3>3, <3>4, <3>6, OutcomeFacts
        <4>2. note' = [note EXCEPT ![s] = o]
          BY <3>6 DEF Retry
        <4> HIDE DEF o
        <4> QED
          BY <4>1, <4>2
      <3>7. CASE GiveUp(s)
        <4> DEFINE o == Outcome(note[s], "FAILED", note[s].retry, "FAILED")
        <4>1. o \in Note /\ Len(o.attempts) <= MaxAttempts
          BY <3>1, <3>2, <3>4, <3>7, OutcomeFacts
        <4>2. note' = [note EXCEPT ![s] = o]
          BY <3>7 DEF GiveUp
        <4> HIDE DEF o
        <4> QED
          BY <4>1, <4>2
      <3> QED
        BY <2>4, <3>5, <3>6, <3>7
    <2>5. 0 <= MaxAttempts
      BY RetriesAssumption DEF MaxAttempts
    <2> QED
      BY <2>1, <2>2, <2>3, <2>4, <2>5, RowActions, NoNoteFacts
  <1> QED
    BY DEF TypeInv, TypeOK

-----------------------------------------------------------------------------
(* Types.                                                                  *)

\* Before the first send everything has its type.
LEMMA TypeInit == Init => TypeInv
  BY NoNoteFacts, RetriesAssumption, StartsAssumption, NoKeyAssumption
  DEF Init, TypeInv, TypeOK, SenderOK, Pc, MaxAttempts

\* Types, keys and the place of the claim.
LEMMA TypeStep == TypeInv /\ NoteOK /\ [Next]_vars => TypeInv'
  <1> SUFFICES ASSUME TypeInv, NoteOK, [Next]_vars PROVE TypeInv'
    OBVIOUS
  <1> USE DisabledAssumption, RetriesAssumption, StartsAssumption, NoKeyAssumption
      DEF TypeInv, TypeOK, SenderOK, Pc, Goto, Bump, EndSession, session, kept
  <1>0. /\ note' \in [Sender -> Note]
        /\ \A s \in Sender : Len(note'[s].attempts) <= MaxAttempts
    BY RowStep
  <1>1. ASSUME NEW s \in Sender, NEW k \in Key, Send(s, k) PROVE TypeInv'
    <2>1. claim' = claim /\ held' = held /\ note' = note /\ result' = result
      BY <1>0, <1>1 DEF Send
    <2>2. /\ pc[s] = "idle" /\ key' = [key EXCEPT ![s] = k]
          /\ rows' = rows /\ told' = told /\ sent' = sent /\ doubts' = doubts
          /\ losses' = losses
      BY <1>0, <1>1 DEF Send
    <2>3. starts' \in 0 .. MaxStarts
      BY <1>0, <1>1 DEF Send
    <2>4. CASE pc' = [pc EXCEPT ![s] = "claim"] /\ answer' = answer
      BY <2>1, <2>2, <2>3, <2>4
    <2>5. CASE pc' = [pc EXCEPT ![s] = "return"]
               /\ answer' = [answer EXCEPT ![s] = "CANCELLED"]
      BY <2>1, <2>2, <2>3, <2>5
    <2> QED
      BY <1>1, <2>4, <2>5 DEF Send
  <1>2. ASSUME NEW k \in Key, Expire(k) PROVE TypeInv'
    BY <1>0, <1>2 DEF Expire
  <1>3. ASSUME NEW s \in Sender, Claim(s) PROVE TypeInv'
    BY <1>0, <1>3 DEF Claim
  <1>4. ASSUME NEW s \in Sender, Suppress(s) PROVE TypeInv'
    BY <1>0, <1>4 DEF Suppress
  <1>5. ASSUME NEW s \in Sender, ClaimUnavailable(s) PROVE TypeInv'
    <2>1. pc[s] = "claim" /\ key[s] \in Key
      BY <1>0, <1>5 DEF ClaimUnavailable
    <2>2. /\ [claim EXCEPT ![key[s]] = TRUE] \in [Key -> BOOLEAN]
          /\ [losses EXCEPT ![key[s]] = losses[key[s]] + 1] \in [Key -> Nat]
      BY <2>1
    <2>3. claim' \in [Key -> BOOLEAN] /\ losses' \in [Key -> Nat]
      BY <1>5, <2>2 DEF ClaimUnavailable
    <2> QED
      BY <1>0, <1>5, <2>1, <2>3 DEF ClaimUnavailable
  <1>6. ASSUME NEW s \in Sender, Release(s) PROVE TypeInv'
    BY <1>0, <1>6 DEF Release
  <1>7. ASSUME NEW s \in Sender, ReleaseLost(s) PROVE TypeInv'
    BY <1>0, <1>7 DEF ReleaseLost
  <1>8. ASSUME NEW s \in Sender, Create(s) PROVE TypeInv'
    BY <1>0, <1>8 DEF Create
  <1>9. ASSUME NEW s \in Sender, RenderFails(s) PROVE TypeInv'
    BY <1>0, <1>9 DEF RenderFails
  <1>10. ASSUME NEW s \in Sender, BeginAttempt(s) PROVE TypeInv'
    BY <1>0, <1>10 DEF BeginAttempt
  <1>11. ASSUME NEW s \in Sender, Accept(s) PROVE TypeInv'
    BY <1>0, <1>11 DEF Accept
  <1>12. ASSUME NEW s \in Sender, AcceptUnheard(s) PROVE TypeInv'
    BY <1>0, <1>12 DEF AcceptUnheard
  <1>13. ASSUME NEW s \in Sender, Refuse(s) PROVE TypeInv'
    BY <1>0, <1>13 DEF Refuse
  <1>14. ASSUME NEW s \in Sender, RecordSuccess(s) PROVE TypeInv'
    BY <1>0, <1>14 DEF RecordSuccess
  <1>15. ASSUME NEW s \in Sender, Retry(s) PROVE TypeInv'
    BY <1>0, <1>15 DEF Retry
  <1>16. ASSUME NEW s \in Sender, GiveUp(s) PROVE TypeInv'
    BY <1>0, <1>16 DEF GiveUp
  <1>17. ASSUME NEW s \in Sender, DatabaseError(s) PROVE TypeInv'
    BY <1>0, <1>17 DEF DatabaseError
  <1>18. ASSUME NEW s \in Sender, Commit(s) PROVE TypeInv'
    BY <1>0, <1>18 DEF Commit
  <1>19. ASSUME NEW s \in Sender, Rollback(s) PROVE TypeInv'
    BY <1>0, <1>19 DEF Rollback
  <1>20. ASSUME NEW s \in Sender, Crash(s) PROVE TypeInv'
    BY <1>0, <1>20 DEF Crash
  <1>21. CASE UNCHANGED vars
    BY <1>0, <1>21 DEF vars
  <1> QED
    BY <1>1, <1>2, <1>3, <1>4, <1>5, <1>6, <1>7, <1>8, <1>9, <1>10, <1>11, <1>12,
       <1>13, <1>14, <1>15, <1>16, <1>17, <1>18, <1>19, <1>20, <1>21
    DEF Next, Step, Fault

-----------------------------------------------------------------------------
(* The life of a row.                                                      *)

\* What the outcome of an attempt makes of an open row.
LEMMA OutcomeRows ==
  ASSUME NEW n \in Note, Len(n.attempts) \in 1 .. MaxAttempts, Open(n,
  Len(n.attempts) - 1)
  PROVE  /\ Consistent(Outcome(n, "SENT", n.retry, "SUCCESS"))
         /\ Consistent(Outcome(n, "FAILED", n.retry, "FAILED"))
         /\ Len(n.attempts) < MaxAttempts =>
                LET o == Outcome(n, "RETRYING", n.retry + 1, "FAILED") IN
                Len(o.attempts) <= MaxRetries /\ Open(o, Len(o.attempts))
  <1>1. /\ "SENT" \in NotificationStatus /\ "FAILED" \in NotificationStatus
        /\ "RETRYING" \in NotificationStatus
        /\ "SUCCESS" \in AttemptStatus /\ "FAILED" \in AttemptStatus
    BY DEF NotificationStatus, AttemptStatus
  <1>2. /\ n.retry = Len(n.attempts) - 1 /\ n.retry \in 0 .. MaxRetries
        /\ Len(n.attempts) \in Nat /\ Len(n.attempts) > 0
        /\ \A i \in 1 .. Len(n.attempts) - 1 : n.attempts[i] = "FAILED"
    BY DEF Open, Note
  <1>3. Consistent(Outcome(n, "SENT", n.retry, "SUCCESS"))
    <2> DEFINE o == Outcome(n, "SENT", n.retry, "SUCCESS")
    <2>1. /\ o.status = "SENT" /\ o.retry = n.retry /\ Len(o.attempts) = Len(n.attempts)
          /\ o.attempts[Len(n.attempts)] = "SUCCESS"
          /\ \A i \in 1 .. Len(n.attempts) - 1 : o.attempts[i] = n.attempts[i]
      BY <1>1, <1>2, OutcomeFacts
    <2> HIDE DEF o
    <2>2. ASSUME NEW i \in 1 .. Len(n.attempts), i # Len(n.attempts)
          PROVE  o.attempts[i] = "FAILED"
      <3>1. i \in 1 .. Len(n.attempts) - 1
        BY <1>2, <2>2
      <3> QED
        BY <1>2, <2>1, <3>1
    <2>3. Consistent(o)
      BY <1>2, <2>1, <2>2 DEF Consistent
    <2> QED
      BY <2>3 DEF o
  <1>4. Consistent(Outcome(n, "FAILED", n.retry, "FAILED"))
    <2> DEFINE o == Outcome(n, "FAILED", n.retry, "FAILED")
    <2>1. /\ o.status = "FAILED" /\ o.retry = n.retry /\ Len(o.attempts) = Len(n.attempts)
          /\ o.attempts[Len(n.attempts)] = "FAILED"
          /\ \A i \in 1 .. Len(n.attempts) - 1 : o.attempts[i] = n.attempts[i]
      BY <1>1, <1>2, OutcomeFacts
    <2> HIDE DEF o
    <2>2. ASSUME NEW i \in 1 .. Len(n.attempts), i # Len(n.attempts)
          PROVE  o.attempts[i] = "FAILED"
      <3>1. i \in 1 .. Len(n.attempts) - 1
        BY <1>2, <2>2
      <3> QED
        BY <1>2, <2>1, <3>1
    <2>3. Consistent(o)
      BY <1>2, <2>1, <2>2 DEF Consistent
    <2> QED
      BY <2>3 DEF o
  <1>5. ASSUME Len(n.attempts) < MaxAttempts
        PROVE  LET o == Outcome(n, "RETRYING", n.retry + 1, "FAILED") IN
               Len(o.attempts) <= MaxRetries /\ Open(o, Len(o.attempts))
    <2> DEFINE o == Outcome(n, "RETRYING", n.retry + 1, "FAILED")
    <2>0. n.retry + 1 \in 0 .. MaxRetries
      BY <1>2, <1>5, RetriesAssumption DEF MaxAttempts
    <2>1. /\ o.retry = n.retry + 1 /\ Len(o.attempts) = Len(n.attempts)
          /\ o.attempts[Len(n.attempts)] = "FAILED"
          /\ \A i \in 1 .. Len(n.attempts) - 1 : o.attempts[i] = n.attempts[i]
      BY <1>1, <1>2, <2>0, OutcomeFacts
    <2> HIDE DEF o
    <2>2. ASSUME NEW i \in 1 .. Len(n.attempts) PROVE o.attempts[i] = "FAILED"
      <3>1. CASE i = Len(n.attempts)
        BY <2>1, <3>1
      <3>2. CASE i # Len(n.attempts)
        <4>1. i \in 1 .. Len(n.attempts) - 1
          BY <1>2, <3>2
        <4> QED
          BY <1>2, <2>1, <4>1
      <3> QED
        BY <3>1, <3>2
    <2>3. Len(o.attempts) <= MaxRetries
      BY <1>2, <1>5, <2>1, RetriesAssumption DEF MaxAttempts
    <2>4. o.retry = Len(o.attempts)
      BY <1>2, <2>1
    <2>5. Open(o, Len(o.attempts))
      BY <2>1, <2>2, <2>4 DEF Open
    <2> QED
      BY <2>3, <2>5 DEF o
  <1> QED
    BY <1>3, <1>4, <1>5

\* A new attempt opens the row again; a row without an attempt is consistent once failed.
LEMMA OtherRows ==
  ASSUME NEW n \in Note
  PROVE  /\ Len(n.attempts) <= MaxRetries /\ Open(n, Len(n.attempts)) =>
                Len(Begun(n).attempts) > 0 /\ Open(Begun(n), Len(Begun(n).attempts) - 1)
         /\ n = NoNote => Consistent([n EXCEPT !.status = "FAILED"])
         /\ n = NoNote => Len(n.attempts) = 0
                          /\ Open([n EXCEPT !.status = "PROCESSING"], 0)
  <1>1. Len(n.attempts) \in Nat
    BY DEF Note
  <1>2. ASSUME Len(n.attempts) <= MaxRetries, Open(n, Len(n.attempts))
        PROVE  Len(Begun(n).attempts) > 0 /\ Open(Begun(n), Len(Begun(n).attempts) - 1)
    BY <1>1, <1>2, AttemptFacts DEF Open
  <1>3. "FAILED" \in NotificationStatus /\ "PROCESSING" \in NotificationStatus
    BY DEF NotificationStatus
  <1>4. ASSUME n = NoNote
        PROVE  /\ Consistent([n EXCEPT !.status = "FAILED"])
               /\ Open([n EXCEPT !.status = "PROCESSING"], 0)
    BY <1>3, <1>4, StatusFacts, NoNoteFacts DEF Consistent, Open
  <1> QED
    BY <1>2, <1>4, NoNoteFacts

\* Attempts are opened one at a time and a row is final when the send answers.
LEMMA NoteStep == TypeInv /\ NoteOK /\ [Next]_vars => NoteOK'
  <1> SUFFICES ASSUME TypeInv, NoteOK, [Next]_vars PROVE NoteOK'
    OBVIOUS
  <1>1. ASSUME NEW s \in Sender, NEW k \in Key, Send(s, k) PROVE NoteOK'
    BY <1>1, ZenonT(40)
    DEF Send, Goto, EndSession, session, kept, TypeInv, TypeOK, NoteOK, RowOK
  <1>2. ASSUME NEW k \in Key, Expire(k) PROVE NoteOK'
    BY <1>2
    DEF Expire, Goto, EndSession, session, kept, TypeInv, TypeOK, NoteOK, RowOK
  <1>3. ASSUME NEW s \in Sender, Claim(s) PROVE NoteOK'
    BY <1>3
    DEF Claim, Goto, EndSession, session, kept, TypeInv, TypeOK, NoteOK, RowOK
  <1>4. ASSUME NEW s \in Sender, Suppress(s) PROVE NoteOK'
    BY <1>4
    DEF Suppress, Goto, EndSession, session, kept, TypeInv, TypeOK, NoteOK, RowOK
  <1>5. ASSUME NEW s \in Sender, ClaimUnavailable(s) PROVE NoteOK'
    BY <1>5
    DEF ClaimUnavailable, Goto, EndSession, session, kept, TypeInv, TypeOK, NoteOK, RowOK
  <1>6. ASSUME NEW s \in Sender, Release(s) PROVE NoteOK'
    BY <1>6
    DEF Release, Goto, EndSession, session, kept, TypeInv, TypeOK, NoteOK, RowOK
  <1>7. ASSUME NEW s \in Sender, ReleaseLost(s) PROVE NoteOK'
    BY <1>7
    DEF ReleaseLost, Goto, EndSession, session, kept, TypeInv, TypeOK, NoteOK, RowOK
  <1>8. ASSUME NEW s \in Sender, Create(s) PROVE NoteOK'
    <2> DEFINE o == [note[s] EXCEPT !.status = "PROCESSING"]
    <2>1. pc[s] = "create" /\ note[s] \in Note /\ RowOK(pc[s], note[s], answer[s])
      BY <1>8 DEF Create, NoteOK, TypeInv, TypeOK
    <2>4. /\ Len(o.attempts) = 0 /\ Open(o, 0)
      <3>1. "PROCESSING" \in NotificationStatus /\ note[s] = NoNote
        BY <2>1 DEF RowOK, NotificationStatus
      <3> QED
        BY <2>1, <3>1, OtherRows, StatusFacts, NoNoteFacts DEF Open
    <2>2. RowOK("attempt", o, "none")
      BY <1>8, <2>1, OtherRows, StatusFacts, RetriesAssumption, <2>4
      DEF RowOK, Create
    <2>3. /\ note' = [note EXCEPT ![s] = o] /\ pc' = [pc EXCEPT ![s] = "attempt"]
          /\ answer' = [answer EXCEPT ![s] = "none"]
      BY <1>8, <2>1 DEF Create, Goto, SetStatus, RowOK, TypeInv, TypeOK
    <2> HIDE DEF o
    <2> QED
      BY <2>2, <2>3 DEF NoteOK, TypeInv, TypeOK
  <1>9. ASSUME NEW s \in Sender, RenderFails(s) PROVE NoteOK'
    <2> DEFINE o == [note[s] EXCEPT !.status = "FAILED"]
    <2>1. pc[s] = "create" /\ note[s] \in Note /\ RowOK(pc[s], note[s], answer[s])
      BY <1>9 DEF RenderFails, NoteOK, TypeInv, TypeOK
    <2>2. RowOK("release", o, "FAILED")
      BY <1>9, <2>1, OtherRows, StatusFacts
      DEF RowOK, RenderFails
    <2>3. /\ note' = [note EXCEPT ![s] = o] /\ pc' = [pc EXCEPT ![s] = "release"]
          /\ answer' = [answer EXCEPT ![s] = "FAILED"]
      BY <1>9, <2>1 DEF RenderFails, Goto, SetStatus, RowOK, TypeInv, TypeOK
    <2> HIDE DEF o
    <2> QED
      BY <2>2, <2>3 DEF NoteOK, TypeInv, TypeOK
  <1>10. ASSUME NEW s \in Sender, BeginAttempt(s) PROVE NoteOK'
    <2> DEFINE o == Begun(note[s])
    <2>1. pc[s] = "attempt" /\ note[s] \in Note /\ RowOK(pc[s], note[s], answer[s])
      BY <1>10 DEF BeginAttempt, NoteOK, TypeInv, TypeOK
    <2>2. RowOK("call", o, "none")
      BY <1>10, <2>1, OtherRows
      DEF RowOK, BeginAttempt
    <2>3. /\ note' = [note EXCEPT ![s] = o] /\ pc' = [pc EXCEPT ![s] = "call"]
          /\ answer' = [answer EXCEPT ![s] = "none"]
      BY <1>10, <2>1 DEF BeginAttempt, Goto, SetStatus, RowOK, TypeInv, TypeOK
    <2> HIDE DEF o
    <2> QED
      BY <2>2, <2>3 DEF NoteOK, TypeInv, TypeOK
  <1>11. ASSUME NEW s \in Sender, Accept(s) PROVE NoteOK'
    BY <1>11
    DEF Accept, Goto, EndSession, session, kept, TypeInv, TypeOK, NoteOK, RowOK
  <1>12. ASSUME NEW s \in Sender, AcceptUnheard(s) PROVE NoteOK'
    BY <1>12
    DEF AcceptUnheard, Goto, EndSession, session, kept, TypeInv, TypeOK, NoteOK, RowOK
  <1>13. ASSUME NEW s \in Sender, Refuse(s) PROVE NoteOK'
    BY <1>13
    DEF Refuse, Goto, EndSession, session, kept, TypeInv, TypeOK, NoteOK, RowOK
  <1>14. ASSUME NEW s \in Sender, RecordSuccess(s) PROVE NoteOK'
    <2> DEFINE o == Outcome(note[s], "SENT", note[s].retry, "SUCCESS")
    <2>1. pc[s] = "record" /\ note[s] \in Note /\ RowOK(pc[s], note[s], answer[s])
      BY <1>14 DEF RecordSuccess, NoteOK, TypeInv, TypeOK
    <2>0. Len(note[s].attempts) \in 1 .. MaxAttempts
      BY <2>1 DEF RowOK, TypeInv, TypeOK, Note
    <2>2. RowOK("return", o, "SENT")
      BY <1>14, <2>0, <2>1, OutcomeRows
      DEF RowOK, RecordSuccess
    <2>3. /\ note' = [note EXCEPT ![s] = o] /\ pc' = [pc EXCEPT ![s] = "return"]
          /\ answer' = [answer EXCEPT ![s] = "SENT"]
      BY <1>14, <2>1 DEF RecordSuccess, Goto, SetStatus, RowOK, TypeInv, TypeOK
    <2> HIDE DEF o
    <2> QED
      BY <2>2, <2>3 DEF NoteOK, TypeInv, TypeOK
  <1>15. ASSUME NEW s \in Sender, Retry(s) PROVE NoteOK'
    <2> DEFINE o == Outcome(note[s], "RETRYING", note[s].retry + 1, "FAILED")
    <2>1. pc[s] = "record" /\ note[s] \in Note /\ RowOK(pc[s], note[s], answer[s])
      BY <1>15 DEF Retry, NoteOK, TypeInv, TypeOK
    <2>0. Len(note[s].attempts) \in 1 .. MaxAttempts
      BY <2>1 DEF RowOK, TypeInv, TypeOK, Note
    <2>2. RowOK("attempt", o, "none")
      BY <1>15, <2>0, <2>1, OutcomeRows
      DEF RowOK, Retry
    <2>3. /\ note' = [note EXCEPT ![s] = o] /\ pc' = [pc EXCEPT ![s] = "attempt"]
          /\ answer' = [answer EXCEPT ![s] = "none"]
      BY <1>15, <2>1 DEF Retry, Goto, SetStatus, RowOK, TypeInv, TypeOK
    <2> HIDE DEF o
    <2> QED
      BY <2>2, <2>3 DEF NoteOK, TypeInv, TypeOK
  <1>16. ASSUME NEW s \in Sender, GiveUp(s) PROVE NoteOK'
    <2> DEFINE o == Outcome(note[s], "FAILED", note[s].retry, "FAILED")
    <2>1. pc[s] = "record" /\ note[s] \in Note /\ RowOK(pc[s], note[s], answer[s])
      BY <1>16 DEF GiveUp, NoteOK, TypeInv, TypeOK
    <2>0. Len(note[s].attempts) \in 1 .. MaxAttempts
      BY <2>1 DEF RowOK, TypeInv, TypeOK, Note
    <2>2. RowOK("release", o, "FAILED")
      BY <1>16, <2>0, <2>1, OutcomeRows
      DEF RowOK, GiveUp
    <2>3. /\ note' = [note EXCEPT ![s] = o] /\ pc' = [pc EXCEPT ![s] = "release"]
          /\ answer' = [answer EXCEPT ![s] = "FAILED"]
      BY <1>16, <2>1 DEF GiveUp, Goto, SetStatus, RowOK, TypeInv, TypeOK
    <2> HIDE DEF o
    <2> QED
      BY <2>2, <2>3 DEF NoteOK, TypeInv, TypeOK
  <1>17. ASSUME NEW s \in Sender, DatabaseError(s) PROVE NoteOK'
    BY <1>17
    DEF DatabaseError, Goto, EndSession, session, kept, TypeInv, TypeOK, NoteOK, RowOK
  <1>18. ASSUME NEW s \in Sender, Commit(s) PROVE NoteOK'
    BY <1>18
    DEF Commit, Goto, EndSession, session, kept, TypeInv, TypeOK, NoteOK, RowOK
  <1>19. ASSUME NEW s \in Sender, Rollback(s) PROVE NoteOK'
    BY <1>19
    DEF Rollback, Goto, EndSession, session, kept, TypeInv, TypeOK, NoteOK, RowOK
  <1>20. ASSUME NEW s \in Sender, Crash(s) PROVE NoteOK'
    BY <1>20
    DEF Crash, Goto, EndSession, session, kept, TypeInv, TypeOK, NoteOK, RowOK
  <1>21. CASE UNCHANGED vars
    BY <1>21
    DEF vars, Goto, EndSession, session, kept, TypeInv, TypeOK, NoteOK, RowOK
  <1> QED
    BY <1>1, <1>2, <1>3, <1>4, <1>5, <1>6, <1>7, <1>8, <1>9, <1>10, <1>11, <1>12,
       <1>13, <1>14, <1>15, <1>16, <1>17, <1>18, <1>19, <1>20, <1>21
    DEF Next, Step, Fault

-----------------------------------------------------------------------------
(* The claim and the messages.                                             *)

\* A claim is taken by one sender, and only its holder deletes it.
LEMMA ClaimStep == TypeInv /\ ClaimOK /\ [Next]_vars => ClaimOK'
  <1> SUFFICES ASSUME TypeInv, ClaimOK, [Next]_vars PROVE ClaimOK'
    OBVIOUS
  <1> USE DisabledAssumption, RetriesAssumption, StartsAssumption, NoKeyAssumption
      DEF ClaimOK, AtWork, TypeInv, TypeOK, SenderOK, Goto, Bump, EndSession, session,
          kept, SetStatus
  <1>1. ASSUME NEW s \in Sender, NEW k \in Key, Send(s, k) PROVE ClaimOK'
    BY <1>1 DEF Send
  <1>2. ASSUME NEW k \in Key, Expire(k) PROVE ClaimOK'
    BY <1>2 DEF Expire
  <1>3. ASSUME NEW s \in Sender, Claim(s) PROVE ClaimOK'
    BY <1>3 DEF Claim
  <1>4. ASSUME NEW s \in Sender, Suppress(s) PROVE ClaimOK'
    BY <1>4 DEF Suppress
  <1>5. ASSUME NEW s \in Sender, ClaimUnavailable(s) PROVE ClaimOK'
    <2>1. /\ pc[s] = "claim" /\ key[s] \in Key /\ held' = held /\ key' = key
          /\ ~held[s] /\ sent' = sent
      BY <1>5 DEF ClaimUnavailable
    <2>2. CASE claim' = claim /\ losses' = losses
      BY <2>1, <2>2
    <2>3. CASE /\ ~claim[key[s]]
               /\ claim' = [claim EXCEPT ![key[s]] = TRUE]
               /\ losses' = Bump(losses, key[s])
      BY <2>1, <2>3
    <2> QED
      BY <1>5, <2>2, <2>3 DEF ClaimUnavailable
  <1>6. ASSUME NEW s \in Sender, Release(s) PROVE ClaimOK'
    BY <1>6 DEF Release
  <1>7. ASSUME NEW s \in Sender, ReleaseLost(s) PROVE ClaimOK'
    BY <1>7 DEF ReleaseLost
  <1>8. ASSUME NEW s \in Sender, Create(s) PROVE ClaimOK'
    BY <1>8 DEF Create
  <1>9. ASSUME NEW s \in Sender, RenderFails(s) PROVE ClaimOK'
    BY <1>9 DEF RenderFails
  <1>10. ASSUME NEW s \in Sender, BeginAttempt(s) PROVE ClaimOK'
    BY <1>10 DEF BeginAttempt
  <1>11. ASSUME NEW s \in Sender, Accept(s) PROVE ClaimOK'
    BY <1>11 DEF Accept
  <1>12. ASSUME NEW s \in Sender, AcceptUnheard(s) PROVE ClaimOK'
    BY <1>12 DEF AcceptUnheard
  <1>13. ASSUME NEW s \in Sender, Refuse(s) PROVE ClaimOK'
    BY <1>13 DEF Refuse
  <1>14. ASSUME NEW s \in Sender, RecordSuccess(s) PROVE ClaimOK'
    BY <1>14 DEF RecordSuccess
  <1>15. ASSUME NEW s \in Sender, Retry(s) PROVE ClaimOK'
    BY <1>15 DEF Retry
  <1>16. ASSUME NEW s \in Sender, GiveUp(s) PROVE ClaimOK'
    BY <1>16 DEF GiveUp
  <1>17. ASSUME NEW s \in Sender, DatabaseError(s) PROVE ClaimOK'
    BY <1>17 DEF DatabaseError
  <1>18. ASSUME NEW s \in Sender, Commit(s) PROVE ClaimOK'
    BY <1>18 DEF Commit
  <1>19. ASSUME NEW s \in Sender, Rollback(s) PROVE ClaimOK'
    BY <1>19 DEF Rollback
  <1>20. ASSUME NEW s \in Sender, Crash(s) PROVE ClaimOK'
    BY <1>20 DEF Crash
  <1>21. CASE UNCHANGED vars
    BY <1>21 DEF vars
  <1> QED
    BY <1>1, <1>2, <1>3, <1>4, <1>5, <1>6, <1>7, <1>8, <1>9, <1>10, <1>11, <1>12,
       <1>13, <1>14, <1>15, <1>16, <1>17, <1>18, <1>19, <1>20, <1>21
    DEF Next, Step, Fault

\* A claim that is free, or held by a sender that has not sent, leaves room for a message.
LEMMA CountStep ==
  TypeInv /\ ClaimOK /\ CountOK /\ DuplicatesNeedDoubt /\ [Next]_vars => CountOK'
  <1> SUFFICES ASSUME TypeInv, ClaimOK, CountOK, DuplicatesNeedDoubt, [Next]_vars
               PROVE  CountOK'
    OBVIOUS
  <1> USE DisabledAssumption, RetriesAssumption, StartsAssumption, NoKeyAssumption
      DEF ClaimOK, CountOK, Unsent, Holding, AtWork, TypeInv, TypeOK, SenderOK, Goto,
          Bump, EndSession, session, kept, SetStatus
  <1>1. ASSUME NEW s \in Sender, NEW k \in Key, Send(s, k) PROVE CountOK'
    BY <1>1 DEF Send
  <1>2. ASSUME NEW k \in Key, Expire(k) PROVE CountOK'
    <2>1. /\ claim[k] /\ \A s \in Sender : key[s] # k
          /\ claim' = [claim EXCEPT ![k] = FALSE] /\ doubts' = Bump(doubts, k)
          /\ sent' = sent /\ pc' = pc /\ key' = key /\ held' = held /\ result' = result
      BY <1>2 DEF Expire
    <2>2. sent[k] <= doubts'[k]
      BY <2>1 DEF DuplicatesNeedDoubt
    <2>3. \A j \in Key \ {k} : doubts'[j] = doubts[j] /\ claim'[j] = claim[j]
      BY <2>1
    <2> QED
      BY <2>1, <2>2, <2>3
  <1>3. ASSUME NEW s \in Sender, Claim(s) PROVE CountOK'
    BY <1>3 DEF Claim
  <1>4. ASSUME NEW s \in Sender, Suppress(s) PROVE CountOK'
    BY <1>4 DEF Suppress
  <1>5. ASSUME NEW s \in Sender, ClaimUnavailable(s) PROVE CountOK'
    BY <1>5 DEF ClaimUnavailable
  <1>6. ASSUME NEW s \in Sender, Release(s) PROVE CountOK'
    BY <1>6 DEF Release
  <1>7. ASSUME NEW s \in Sender, ReleaseLost(s) PROVE CountOK'
    BY <1>7 DEF ReleaseLost
  <1>8. ASSUME NEW s \in Sender, Create(s) PROVE CountOK'
    BY <1>8 DEF Create
  <1>9. ASSUME NEW s \in Sender, RenderFails(s) PROVE CountOK'
    BY <1>9 DEF RenderFails
  <1>10. ASSUME NEW s \in Sender, BeginAttempt(s) PROVE CountOK'
    BY <1>10 DEF BeginAttempt
  <1>11. ASSUME NEW s \in Sender, Accept(s) PROVE CountOK'
    BY <1>11 DEF Accept
  <1>12. ASSUME NEW s \in Sender, AcceptUnheard(s) PROVE CountOK'
    BY <1>12 DEF AcceptUnheard
  <1>13. ASSUME NEW s \in Sender, Refuse(s) PROVE CountOK'
    BY <1>13 DEF Refuse
  <1>14. ASSUME NEW s \in Sender, RecordSuccess(s) PROVE CountOK'
    BY <1>14 DEF RecordSuccess
  <1>15. ASSUME NEW s \in Sender, Retry(s) PROVE CountOK'
    BY <1>15 DEF Retry
  <1>16. ASSUME NEW s \in Sender, GiveUp(s) PROVE CountOK'
    BY <1>16 DEF GiveUp
  <1>17. ASSUME NEW s \in Sender, DatabaseError(s) PROVE CountOK'
    <2>1. /\ pc[s] \in {"create", "attempt", "record"}
          /\ pc' = [pc EXCEPT ![s] = "release"]
          /\ claim' = claim /\ key' = key /\ held' = held /\ result' = result
              /\ sent' = sent
      BY <1>17 DEF DatabaseError
    <2>2. key[s] \in Key
      BY <2>1
    <2>3. CASE held[s] /\ pc[s] = "record" /\ result[s] = "ok"
      <3>1. doubts' = Bump(doubts, key[s])
        BY <1>17, <2>3 DEF DatabaseError
      <3>2. sent[key[s]] <= doubts'[key[s]]
        BY <2>2, <3>1 DEF DuplicatesNeedDoubt
      <3>3. \A k \in Key \ {key[s]} : doubts'[k] = doubts[k]
        BY <2>2, <3>1
      <3>4. claim'[key[s]] /\ \A t \in Sender \ {s} : held[t] => key[t] # key[s]
        BY <2>1, <2>3
      <3> QED
        BY <2>1, <2>2, <2>3, <3>2, <3>3, <3>4
    <2>4. CASE ~(held[s] /\ pc[s] = "record" /\ result[s] = "ok")
      <3>1. doubts' = doubts
        BY <1>17, <2>4 DEF DatabaseError
      <3>2. held[s] => Unsent(s)
        BY <2>1, <2>4
      <3> QED
        BY <2>1, <2>2, <3>1, <3>2
    <2> QED
      BY <2>3, <2>4
  <1>18. ASSUME NEW s \in Sender, Commit(s) PROVE CountOK'
    BY <1>18 DEF Commit
  <1>19. ASSUME NEW s \in Sender, Rollback(s) PROVE CountOK'
    BY <1>19 DEF Rollback
  <1>20. ASSUME NEW s \in Sender, Crash(s) PROVE CountOK'
    BY <1>20 DEF Crash
  <1>21. CASE UNCHANGED vars
    BY <1>21 DEF vars
  <1> QED
    BY <1>1, <1>2, <1>3, <1>4, <1>5, <1>6, <1>7, <1>8, <1>9, <1>10, <1>11, <1>12,
       <1>13, <1>14, <1>15, <1>16, <1>17, <1>18, <1>19, <1>20, <1>21
    DEF Next, Step, Fault

\* A message is sent by the holder of the claim, or doubted.
LEMMA DuplicatesStep ==
  TypeInv /\ ClaimOK /\ CountOK /\ DuplicatesNeedDoubt /\ [Next]_vars
    => DuplicatesNeedDoubt'
  <1> SUFFICES ASSUME TypeInv, ClaimOK, CountOK, DuplicatesNeedDoubt, [Next]_vars
               PROVE  DuplicatesNeedDoubt'
    OBVIOUS
  <1> USE DisabledAssumption, RetriesAssumption, StartsAssumption, NoKeyAssumption
      DEF ClaimOK, CountOK, Unsent, Holding, DuplicatesNeedDoubt, AtWork, TypeInv,
          TypeOK, SenderOK, Goto, Bump, EndSession, session, kept, SetStatus
  <1>1. ASSUME NEW s \in Sender, NEW k \in Key, Send(s, k) PROVE DuplicatesNeedDoubt'
    BY <1>1 DEF Send
  <1>2. ASSUME NEW k \in Key, Expire(k) PROVE DuplicatesNeedDoubt'
    BY <1>2 DEF Expire
  <1>3. ASSUME NEW s \in Sender, Claim(s) PROVE DuplicatesNeedDoubt'
    BY <1>3 DEF Claim
  <1>4. ASSUME NEW s \in Sender, Suppress(s) PROVE DuplicatesNeedDoubt'
    BY <1>4 DEF Suppress
  <1>5. ASSUME NEW s \in Sender, ClaimUnavailable(s) PROVE DuplicatesNeedDoubt'
    BY <1>5 DEF ClaimUnavailable
  <1>6. ASSUME NEW s \in Sender, Release(s) PROVE DuplicatesNeedDoubt'
    BY <1>6 DEF Release
  <1>7. ASSUME NEW s \in Sender, ReleaseLost(s) PROVE DuplicatesNeedDoubt'
    BY <1>7 DEF ReleaseLost
  <1>8. ASSUME NEW s \in Sender, Create(s) PROVE DuplicatesNeedDoubt'
    BY <1>8 DEF Create
  <1>9. ASSUME NEW s \in Sender, RenderFails(s) PROVE DuplicatesNeedDoubt'
    BY <1>9 DEF RenderFails
  <1>10. ASSUME NEW s \in Sender, BeginAttempt(s) PROVE DuplicatesNeedDoubt'
    BY <1>10 DEF BeginAttempt
  <1>11. ASSUME NEW s \in Sender, Accept(s) PROVE DuplicatesNeedDoubt'
    BY <1>11 DEF Accept
  <1>12. ASSUME NEW s \in Sender, AcceptUnheard(s) PROVE DuplicatesNeedDoubt'
    BY <1>12 DEF AcceptUnheard
  <1>13. ASSUME NEW s \in Sender, Refuse(s) PROVE DuplicatesNeedDoubt'
    BY <1>13 DEF Refuse
  <1>14. ASSUME NEW s \in Sender, RecordSuccess(s) PROVE DuplicatesNeedDoubt'
    BY <1>14 DEF RecordSuccess
  <1>15. ASSUME NEW s \in Sender, Retry(s) PROVE DuplicatesNeedDoubt'
    BY <1>15 DEF Retry
  <1>16. ASSUME NEW s \in Sender, GiveUp(s) PROVE DuplicatesNeedDoubt'
    BY <1>16 DEF GiveUp
  <1>17. ASSUME NEW s \in Sender, DatabaseError(s) PROVE DuplicatesNeedDoubt'
    BY <1>17 DEF DatabaseError
  <1>18. ASSUME NEW s \in Sender, Commit(s) PROVE DuplicatesNeedDoubt'
    BY <1>18 DEF Commit
  <1>19. ASSUME NEW s \in Sender, Rollback(s) PROVE DuplicatesNeedDoubt'
    BY <1>19 DEF Rollback
  <1>20. ASSUME NEW s \in Sender, Crash(s) PROVE DuplicatesNeedDoubt'
    BY <1>20 DEF Crash
  <1>21. CASE UNCHANGED vars
    BY <1>21 DEF vars
  <1> QED
    BY <1>1, <1>2, <1>3, <1>4, <1>5, <1>6, <1>7, <1>8, <1>9, <1>10, <1>11, <1>12,
       <1>13, <1>14, <1>15, <1>16, <1>17, <1>18, <1>19, <1>20, <1>21
    DEF Next, Step, Fault

\* A holder that stops holding has sent, has deleted the claim or has lost it.
LEMMA OrphanStep ==
  TypeInv /\ ClaimOK /\ SentOK /\ OrphanClaimsNeedLoss /\ [Next]_vars
    => OrphanClaimsNeedLoss'
  <1> SUFFICES ASSUME TypeInv, ClaimOK, SentOK, OrphanClaimsNeedLoss, [Next]_vars
               PROVE  OrphanClaimsNeedLoss'
    OBVIOUS
  <1> USE DisabledAssumption, RetriesAssumption, StartsAssumption, NoKeyAssumption
      DEF ClaimOK, SentOK, Holding, OrphanClaimsNeedLoss, AtWork, TypeInv, TypeOK,
          SenderOK, Goto, Bump, EndSession, session, kept, SetStatus
  <1>1. ASSUME NEW s \in Sender, NEW k \in Key, Send(s, k) PROVE OrphanClaimsNeedLoss'
    BY <1>1 DEF Send
  <1>2. ASSUME NEW k \in Key, Expire(k) PROVE OrphanClaimsNeedLoss'
    BY <1>2 DEF Expire
  <1>3. ASSUME NEW s \in Sender, Claim(s) PROVE OrphanClaimsNeedLoss'
    BY <1>3 DEF Claim
  <1>4. ASSUME NEW s \in Sender, Suppress(s) PROVE OrphanClaimsNeedLoss'
    BY <1>4 DEF Suppress
  <1>5. ASSUME NEW s \in Sender, ClaimUnavailable(s) PROVE OrphanClaimsNeedLoss'
    <2>1. /\ pc[s] = "claim" /\ key[s] \in Key /\ held' = held /\ key' = key
          /\ ~held[s] /\ sent' = sent
      BY <1>5 DEF ClaimUnavailable
    <2>2. CASE claim' = claim /\ losses' = losses
      BY <2>1, <2>2
    <2>3. CASE /\ ~claim[key[s]]
               /\ claim' = [claim EXCEPT ![key[s]] = TRUE]
               /\ losses' = Bump(losses, key[s])
      BY <2>1, <2>3
    <2> QED
      BY <1>5, <2>2, <2>3 DEF ClaimUnavailable
  <1>6. ASSUME NEW s \in Sender, Release(s) PROVE OrphanClaimsNeedLoss'
    BY <1>6 DEF Release
  <1>7. ASSUME NEW s \in Sender, ReleaseLost(s) PROVE OrphanClaimsNeedLoss'
    BY <1>7 DEF ReleaseLost
  <1>8. ASSUME NEW s \in Sender, Create(s) PROVE OrphanClaimsNeedLoss'
    BY <1>8 DEF Create
  <1>9. ASSUME NEW s \in Sender, RenderFails(s) PROVE OrphanClaimsNeedLoss'
    BY <1>9 DEF RenderFails
  <1>10. ASSUME NEW s \in Sender, BeginAttempt(s) PROVE OrphanClaimsNeedLoss'
    BY <1>10 DEF BeginAttempt
  <1>11. ASSUME NEW s \in Sender, Accept(s) PROVE OrphanClaimsNeedLoss'
    BY <1>11 DEF Accept
  <1>12. ASSUME NEW s \in Sender, AcceptUnheard(s) PROVE OrphanClaimsNeedLoss'
    BY <1>12 DEF AcceptUnheard
  <1>13. ASSUME NEW s \in Sender, Refuse(s) PROVE OrphanClaimsNeedLoss'
    BY <1>13 DEF Refuse
  <1>14. ASSUME NEW s \in Sender, RecordSuccess(s) PROVE OrphanClaimsNeedLoss'
    BY <1>14 DEF RecordSuccess
  <1>15. ASSUME NEW s \in Sender, Retry(s) PROVE OrphanClaimsNeedLoss'
    BY <1>15 DEF Retry
  <1>16. ASSUME NEW s \in Sender, GiveUp(s) PROVE OrphanClaimsNeedLoss'
    BY <1>16 DEF GiveUp
  <1>17. ASSUME NEW s \in Sender, DatabaseError(s) PROVE OrphanClaimsNeedLoss'
    BY <1>17 DEF DatabaseError
  <1>18. ASSUME NEW s \in Sender, Commit(s) PROVE OrphanClaimsNeedLoss'
    BY <1>18 DEF Commit
  <1>19. ASSUME NEW s \in Sender, Rollback(s) PROVE OrphanClaimsNeedLoss'
    BY <1>19 DEF Rollback
  <1>20. ASSUME NEW s \in Sender, Crash(s) PROVE OrphanClaimsNeedLoss'
    BY <1>20 DEF Crash
  <1>21. CASE UNCHANGED vars
    BY <1>21 DEF vars
  <1> QED
    BY <1>1, <1>2, <1>3, <1>4, <1>5, <1>6, <1>7, <1>8, <1>9, <1>10, <1>11, <1>12,
       <1>13, <1>14, <1>15, <1>16, <1>17, <1>18, <1>19, <1>20, <1>21
    DEF Next, Step, Fault

-----------------------------------------------------------------------------
(* What is recorded.                                                       *)

\* A sender that knows of a success has been heard by the provider.
LEMMA SentStep == TypeInv /\ NoteOK /\ SentOK /\ [Next]_vars => SentOK'
  <1> SUFFICES ASSUME TypeInv, NoteOK, SentOK, [Next]_vars PROVE SentOK'
    OBVIOUS
  <1> USE DisabledAssumption, RetriesAssumption, StartsAssumption, NoKeyAssumption,
          NoNoteFacts
      DEF SentOK, AtWork, TypeInv, TypeOK, SenderOK, Goto, Bump, EndSession, session,
          kept, SetStatus
  <1>1. ASSUME NEW s \in Sender, NEW k \in Key, Send(s, k) PROVE SentOK'
    <2>1. /\ pc[s] = "idle" /\ ~held[s] /\ note[s] = NoNote
          /\ key' = [key EXCEPT ![s] = k]
          /\ held' = held /\ note' = note /\ result' = result /\ sent' = sent
      BY <1>1 DEF Send, NoteOK, RowOK
    <2>2. pc' = [pc EXCEPT ![s] = "claim"] \/ pc' = [pc EXCEPT ![s] = "return"]
      BY <1>1 DEF Send
    <2>3. \A t \in Sender \ {s} : key'[t] = key[t] /\ pc'[t] = pc[t]
      BY <2>1, <2>2
    <2>4. pc'[s] \in {"claim", "return"} /\ ~held'[s] /\ note'[s].status # "SENT"
      BY <2>1, <2>2
    <2> QED
      BY <2>1, <2>3, <2>4
  <1>2. ASSUME NEW k \in Key, Expire(k) PROVE SentOK'
    BY <1>2 DEF Expire
  <1>3. ASSUME NEW s \in Sender, Claim(s) PROVE SentOK'
    BY <1>3 DEF Claim
  <1>4. ASSUME NEW s \in Sender, Suppress(s) PROVE SentOK'
    BY <1>4 DEF Suppress
  <1>5. ASSUME NEW s \in Sender, ClaimUnavailable(s) PROVE SentOK'
    BY <1>5 DEF ClaimUnavailable
  <1>6. ASSUME NEW s \in Sender, Release(s) PROVE SentOK'
    BY <1>6 DEF Release
  <1>7. ASSUME NEW s \in Sender, ReleaseLost(s) PROVE SentOK'
    BY <1>7 DEF ReleaseLost
  <1>8. ASSUME NEW s \in Sender, Create(s) PROVE SentOK'
    <2>1. /\ pc[s] = "create" /\ note[s] \in Note /\ sent' = sent /\ key' = key
        /\ held' = held
          /\ result' = result
      BY <1>8 DEF Create
    <2>2. note'[s].status = "PROCESSING" /\ \A t \in Sender \ {s} : note'[t] = note[t]
      BY <1>8, <2>1, StatusFacts DEF Create, NotificationStatus
    <2>3. pc' = [pc EXCEPT ![s] = "attempt"]
      BY <1>8 DEF Create
    <2> QED
      BY <2>1, <2>2, <2>3
  <1>9. ASSUME NEW s \in Sender, RenderFails(s) PROVE SentOK'
    <2>1. /\ pc[s] = "create" /\ note[s] \in Note /\ sent' = sent /\ key' = key
        /\ held' = held
          /\ result' = result
      BY <1>9 DEF RenderFails
    <2>2. note'[s].status = "FAILED" /\ \A t \in Sender \ {s} : note'[t] = note[t]
      BY <1>9, <2>1, StatusFacts DEF RenderFails, NotificationStatus
    <2>3. pc' = [pc EXCEPT ![s] = "release"]
      BY <1>9 DEF RenderFails
    <2> QED
      BY <2>1, <2>2, <2>3
  <1>10. ASSUME NEW s \in Sender, BeginAttempt(s) PROVE SentOK'
    <2>1. /\ pc[s] = "attempt" /\ note[s] \in Note /\ sent' = sent /\ key' = key
        /\ held' = held
          /\ result' = result /\ pc' = [pc EXCEPT ![s] = "call"]
          /\ note' = [note EXCEPT ![s] = Begun(note[s])]
      BY <1>10 DEF BeginAttempt
    <2>2. note'[s].status = note[s].status
      BY <2>1, AttemptFacts
    <2> QED
      BY <2>1, <2>2
  <1>11. ASSUME NEW s \in Sender, Accept(s) PROVE SentOK'
    BY <1>11 DEF Accept
  <1>12. ASSUME NEW s \in Sender, AcceptUnheard(s) PROVE SentOK'
    BY <1>12 DEF AcceptUnheard
  <1>13. ASSUME NEW s \in Sender, Refuse(s) PROVE SentOK'
    BY <1>13 DEF Refuse
  <1>14. ASSUME NEW s \in Sender, RecordSuccess(s) PROVE SentOK'
    <2>0. /\ pc[s] = "record" /\ note[s] \in Note /\ RowOK(pc[s], note[s], answer[s])
      BY <1>14 DEF RecordSuccess, NoteOK
    <2>1. /\ sent' = sent /\ key' = key /\ held' = held /\ result' = result
          /\ pc' = [pc EXCEPT ![s] = "return"]
      BY <1>14 DEF RecordSuccess
    <2>2. /\ note' = [note EXCEPT ![s] =
                          Outcome(note[s], "SENT", note[s].retry, "SUCCESS")]
          /\ \A t \in Sender \ {s} : note'[t] = note[t]
      BY <1>14 DEF RecordSuccess
    <2>3. note'[s].status = "SENT"
      BY <2>0, <2>2 DEF Outcome
    <2> QED
      BY <1>14, <2>0, <2>1, <2>2, <2>3 DEF RecordSuccess
  <1>15. ASSUME NEW s \in Sender, Retry(s) PROVE SentOK'
    <2>0. /\ pc[s] = "record" /\ note[s] \in Note /\ RowOK(pc[s], note[s], answer[s])
      BY <1>15 DEF Retry, NoteOK
    <2>1. /\ sent' = sent /\ key' = key /\ held' = held /\ result' = result
          /\ pc' = [pc EXCEPT ![s] = "attempt"]
      BY <1>15 DEF Retry
    <2>2. /\ note' = [note EXCEPT ![s] =
                          Outcome(note[s], "RETRYING", note[s].retry + 1, "FAILED")]
          /\ \A t \in Sender \ {s} : note'[t] = note[t]
      BY <1>15 DEF Retry
    <2>3. note'[s].status = "RETRYING"
      BY <2>0, <2>2 DEF Outcome
    <2> QED
      BY <1>15, <2>0, <2>1, <2>2, <2>3 DEF Retry
  <1>16. ASSUME NEW s \in Sender, GiveUp(s) PROVE SentOK'
    <2>0. /\ pc[s] = "record" /\ note[s] \in Note /\ RowOK(pc[s], note[s], answer[s])
      BY <1>16 DEF GiveUp, NoteOK
    <2>1. /\ sent' = sent /\ key' = key /\ held' = held /\ result' = result
          /\ pc' = [pc EXCEPT ![s] = "release"]
      BY <1>16 DEF GiveUp
    <2>2. /\ note' = [note EXCEPT ![s] =
                          Outcome(note[s], "FAILED", note[s].retry, "FAILED")]
          /\ \A t \in Sender \ {s} : note'[t] = note[t]
      BY <1>16 DEF GiveUp
    <2>3. note'[s].status = "FAILED"
      BY <2>0, <2>2 DEF Outcome
    <2> QED
      BY <1>16, <2>0, <2>1, <2>2, <2>3 DEF GiveUp
  <1>17. ASSUME NEW s \in Sender, DatabaseError(s) PROVE SentOK'
    BY <1>17 DEF DatabaseError
  <1>18. ASSUME NEW s \in Sender, Commit(s) PROVE SentOK'
    BY <1>18 DEF Commit
  <1>19. ASSUME NEW s \in Sender, Rollback(s) PROVE SentOK'
    BY <1>19 DEF Rollback
  <1>20. ASSUME NEW s \in Sender, Crash(s) PROVE SentOK'
    BY <1>20 DEF Crash
  <1>21. CASE UNCHANGED vars
    BY <1>21 DEF vars
  <1> QED
    BY <1>1, <1>2, <1>3, <1>4, <1>5, <1>6, <1>7, <1>8, <1>9, <1>10, <1>11, <1>12,
       <1>13, <1>14, <1>15, <1>16, <1>17, <1>18, <1>19, <1>20, <1>21
    DEF Next, Step, Fault

\* A committed row is a final one.
LEMMA AuditStep == TypeInv /\ NoteOK /\ AuditConsistent /\ [Next]_vars => AuditConsistent'
  <1> SUFFICES ASSUME TypeInv, NoteOK, AuditConsistent, [Next]_vars PROVE AuditConsistent'
    OBVIOUS
  <1> USE DisabledAssumption, RetriesAssumption, StartsAssumption, NoKeyAssumption
      DEF AuditConsistent, TypeInv, TypeOK, SenderOK, Goto, Bump, EndSession, session,
          kept, SetStatus
  <1>1. ASSUME NEW s \in Sender, NEW k \in Key, Send(s, k) PROVE AuditConsistent'
    BY <1>1 DEF Send
  <1>2. ASSUME NEW k \in Key, Expire(k) PROVE AuditConsistent'
    BY <1>2 DEF Expire
  <1>3. ASSUME NEW s \in Sender, Claim(s) PROVE AuditConsistent'
    BY <1>3 DEF Claim
  <1>4. ASSUME NEW s \in Sender, Suppress(s) PROVE AuditConsistent'
    BY <1>4 DEF Suppress
  <1>5. ASSUME NEW s \in Sender, ClaimUnavailable(s) PROVE AuditConsistent'
    BY <1>5 DEF ClaimUnavailable
  <1>6. ASSUME NEW s \in Sender, Release(s) PROVE AuditConsistent'
    BY <1>6 DEF Release
  <1>7. ASSUME NEW s \in Sender, ReleaseLost(s) PROVE AuditConsistent'
    BY <1>7 DEF ReleaseLost
  <1>8. ASSUME NEW s \in Sender, Create(s) PROVE AuditConsistent'
    BY <1>8 DEF Create
  <1>9. ASSUME NEW s \in Sender, RenderFails(s) PROVE AuditConsistent'
    BY <1>9 DEF RenderFails
  <1>10. ASSUME NEW s \in Sender, BeginAttempt(s) PROVE AuditConsistent'
    BY <1>10 DEF BeginAttempt
  <1>11. ASSUME NEW s \in Sender, Accept(s) PROVE AuditConsistent'
    BY <1>11 DEF Accept
  <1>12. ASSUME NEW s \in Sender, AcceptUnheard(s) PROVE AuditConsistent'
    BY <1>12 DEF AcceptUnheard
  <1>13. ASSUME NEW s \in Sender, Refuse(s) PROVE AuditConsistent'
    BY <1>13 DEF Refuse
  <1>14. ASSUME NEW s \in Sender, RecordSuccess(s) PROVE AuditConsistent'
    BY <1>14 DEF RecordSuccess
  <1>15. ASSUME NEW s \in Sender, Retry(s) PROVE AuditConsistent'
    BY <1>15 DEF Retry
  <1>16. ASSUME NEW s \in Sender, GiveUp(s) PROVE AuditConsistent'
    BY <1>16 DEF GiveUp
  <1>17. ASSUME NEW s \in Sender, DatabaseError(s) PROVE AuditConsistent'
    BY <1>17 DEF DatabaseError
  <1>18. ASSUME NEW s \in Sender, Commit(s) PROVE AuditConsistent'
    <2>1. note[s] \in Note /\ key[s] \in Key /\ RowOK(pc[s], note[s], answer[s])
      BY <1>18 DEF Commit, NoteOK
    <2>2. /\ pc[s] = "return"
          /\ answer[s] \in {"SENT", "FAILED", "CANCELLED"}
          /\ sent' = sent
      BY <1>18, <2>1 DEF Commit, RowOK
    <2>3. note[s] # NoNote => Consistent(note[s])
      BY <2>1, <2>2 DEF RowOK
    <2>4. \A k \in Key : \A n \in rows'[k] : n \in rows[k] \/ (n # NoNote
        /\ n = note[s] /\ k = key[s])
      BY <1>18, <2>1 DEF Commit
    <2> QED
      BY <2>2, <2>3, <2>4
  <1>19. ASSUME NEW s \in Sender, Rollback(s) PROVE AuditConsistent'
    BY <1>19 DEF Rollback
  <1>20. ASSUME NEW s \in Sender, Crash(s) PROVE AuditConsistent'
    BY <1>20 DEF Crash
  <1>21. CASE UNCHANGED vars
    BY <1>21 DEF vars
  <1> QED
    BY <1>1, <1>2, <1>3, <1>4, <1>5, <1>6, <1>7, <1>8, <1>9, <1>10, <1>11, <1>12,
       <1>13, <1>14, <1>15, <1>16, <1>17, <1>18, <1>19, <1>20, <1>21
    DEF Next, Step, Fault

\* A row committed with status SENT is one the provider has accepted.
LEMMA RecordedStep ==
  TypeInv /\ NoteOK /\ SentOK /\ RecordedIsSent /\ [Next]_vars => RecordedIsSent'
  <1> SUFFICES ASSUME TypeInv, NoteOK, SentOK, RecordedIsSent, [Next]_vars
               PROVE  RecordedIsSent'
    OBVIOUS
  <1> USE DisabledAssumption, RetriesAssumption, StartsAssumption, NoKeyAssumption
      DEF RecordedIsSent, SentOK, TypeInv, TypeOK, SenderOK, Goto, Bump, EndSession,
          session, kept, SetStatus
  <1>1. ASSUME NEW s \in Sender, NEW k \in Key, Send(s, k) PROVE RecordedIsSent'
    BY <1>1 DEF Send
  <1>2. ASSUME NEW k \in Key, Expire(k) PROVE RecordedIsSent'
    BY <1>2 DEF Expire
  <1>3. ASSUME NEW s \in Sender, Claim(s) PROVE RecordedIsSent'
    BY <1>3 DEF Claim
  <1>4. ASSUME NEW s \in Sender, Suppress(s) PROVE RecordedIsSent'
    BY <1>4 DEF Suppress
  <1>5. ASSUME NEW s \in Sender, ClaimUnavailable(s) PROVE RecordedIsSent'
    BY <1>5 DEF ClaimUnavailable
  <1>6. ASSUME NEW s \in Sender, Release(s) PROVE RecordedIsSent'
    BY <1>6 DEF Release
  <1>7. ASSUME NEW s \in Sender, ReleaseLost(s) PROVE RecordedIsSent'
    BY <1>7 DEF ReleaseLost
  <1>8. ASSUME NEW s \in Sender, Create(s) PROVE RecordedIsSent'
    BY <1>8 DEF Create
  <1>9. ASSUME NEW s \in Sender, RenderFails(s) PROVE RecordedIsSent'
    BY <1>9 DEF RenderFails
  <1>10. ASSUME NEW s \in Sender, BeginAttempt(s) PROVE RecordedIsSent'
    BY <1>10 DEF BeginAttempt
  <1>11. ASSUME NEW s \in Sender, Accept(s) PROVE RecordedIsSent'
    BY <1>11 DEF Accept
  <1>12. ASSUME NEW s \in Sender, AcceptUnheard(s) PROVE RecordedIsSent'
    BY <1>12 DEF AcceptUnheard
  <1>13. ASSUME NEW s \in Sender, Refuse(s) PROVE RecordedIsSent'
    BY <1>13 DEF Refuse
  <1>14. ASSUME NEW s \in Sender, RecordSuccess(s) PROVE RecordedIsSent'
    BY <1>14 DEF RecordSuccess
  <1>15. ASSUME NEW s \in Sender, Retry(s) PROVE RecordedIsSent'
    BY <1>15 DEF Retry
  <1>16. ASSUME NEW s \in Sender, GiveUp(s) PROVE RecordedIsSent'
    BY <1>16 DEF GiveUp
  <1>17. ASSUME NEW s \in Sender, DatabaseError(s) PROVE RecordedIsSent'
    BY <1>17 DEF DatabaseError
  <1>18. ASSUME NEW s \in Sender, Commit(s) PROVE RecordedIsSent'
    <2>1. note[s] \in Note /\ key[s] \in Key /\ RowOK(pc[s], note[s], answer[s])
      BY <1>18 DEF Commit, NoteOK
    <2>2. /\ pc[s] = "return"
          /\ answer[s] \in {"SENT", "FAILED", "CANCELLED"}
          /\ sent' = sent
      BY <1>18, <2>1 DEF Commit, RowOK
    <2>3. note[s] # NoNote => (note[s].status = "SENT" => sent[key[s]] > 0)
      BY <2>1, <2>2 DEF RowOK
    <2>4. \A k \in Key : \A n \in rows'[k] : n \in rows[k] \/ (n # NoNote
        /\ n = note[s] /\ k = key[s])
      BY <1>18, <2>1 DEF Commit
    <2> QED
      BY <2>2, <2>3, <2>4
  <1>19. ASSUME NEW s \in Sender, Rollback(s) PROVE RecordedIsSent'
    BY <1>19 DEF Rollback
  <1>20. ASSUME NEW s \in Sender, Crash(s) PROVE RecordedIsSent'
    BY <1>20 DEF Crash
  <1>21. CASE UNCHANGED vars
    BY <1>21 DEF vars
  <1> QED
    BY <1>1, <1>2, <1>3, <1>4, <1>5, <1>6, <1>7, <1>8, <1>9, <1>10, <1>11, <1>12,
       <1>13, <1>14, <1>15, <1>16, <1>17, <1>18, <1>19, <1>20, <1>21
    DEF Next, Step, Fault

-----------------------------------------------------------------------------
(* The theorems.                                                           *)

\* Before the first send the invariant holds.
LEMMA IInvInit == Init => IInv
  <1> SUFFICES ASSUME Init PROVE IInv
    OBVIOUS
  <1>1. TypeInv
    BY TypeInit
  <1>2. NoteOK
    BY DEF Init, NoteOK, RowOK
  <1>3. ClaimOK /\ CountOK /\ SentOK
    BY DEF Init, ClaimOK, CountOK, SentOK, Holding, Unsent
  <1>4. DuplicatesNeedDoubt /\ OrphanClaimsNeedLoss
    BY DEF Init, DuplicatesNeedDoubt, OrphanClaimsNeedLoss
  <1>5. AuditConsistent /\ RecordedIsSent
    BY DEF Init, AuditConsistent, RecordedIsSent
  <1> QED
    BY <1>1, <1>2, <1>3, <1>4, <1>5 DEF IInv

\* The step lemmas together.
LEMMA IInvStep == IInv /\ [Next]_vars => IInv'
  BY TypeStep, NoteStep, ClaimStep, CountStep, SentStep, DuplicatesStep, OrphanStep,
     AuditStep, RecordedStep DEF IInv

\* The inductive invariant holds in every behaviour.
THEOREM Invariance == Spec => []IInv
  BY IInvInit, IInvStep, PTL DEF Spec

\* Every variable keeps its type, and no notification gets more than MaxRetries + 1
\* attempts (the retry loop of _send_impl).
THEOREM TypeCorrect == Spec => []TypeOK
  <1>1. IInv => TypeOK
    BY DEF IInv, TypeInv
  <1> QED
    BY <1>1, Invariance, PTL

\* Any number of senders of one key, however they interleave, crash, roll back and are
\* redelivered, get at most one message accepted beyond those the code could not know of,
\* forgot or may repeat (_claim_send, _release_claim and the except clause of send).
THEOREM NoDuplicates == Spec => []DuplicatesNeedDoubt
  <1>1. IInv => DuplicatesNeedDoubt
    BY DEF IInv
  <1> QED
    BY <1>1, Invariance, PTL

\* A claim nobody holds, of a key nothing was sent for, was left by a crash or by Redis:
\* a send that fails or raises never keeps the next one from sending.
THEOREM NoOrphans == Spec => []OrphanClaimsNeedLoss
  <1>1. IInv => OrphanClaimsNeedLoss
    BY DEF IInv
  <1> QED
    BY <1>1, Invariance, PTL

\* Every committed notification is final, with one attempt per provider call, the success
\* last and the count of retries one less than the attempts.
THEOREM Audit == Spec => []AuditConsistent
  <1>1. IInv => AuditConsistent
    BY DEF IInv
  <1> QED
    BY <1>1, Invariance, PTL

\* A notification recorded with status SENT was accepted by the provider.
THEOREM Recorded == Spec => []RecordedIsSent
  <1>1. IInv => RecordedIsSent
    BY DEF IInv
  <1> QED
    BY <1>1, Invariance, PTL
=============================================================================
