--------------------------- MODULE NoticeHandlers ---------------------------
(***************************************************************************)
(* The handlers that only pass a message on: codes and alerts about an     *)
(* account, messages about a single payment, and SMS that ushauth wants    *)
(* sent to a list of numbers.  They keep nothing: what they have not said  *)
(* when they raise is said when the event is delivered again.              *)
(*                                                                         *)
(* doc is [kind, given, mailing, story]: "account"; the places of the      *)
(* payload where an address is given, pairs <<place, field>>; whether      *)
(* emails are sent at all; and what may happen, a set of event types.      *)
(***************************************************************************)
EXTENDS Deliveries

\* ushbooknpay holds nothing about an account.
NewAccount ==
    [status |-> "new", paid |-> FALSE, payments |-> 0, linked |-> 0, invoices |-> 0]

-----------------------------------------------------------------------------
(* ChannelResolver.                                                        *)

Places == {"payload", "customer", "customer_data", "user", "user_data"}

\* Slip: only the top level of the payload is looked at.
GivenOnTop(field) == <<"payload", field>> \in doc.given

Given(field) == \E place \in Places : <<place, field>> \in doc.given

ResolveSms(template) ==
    IF Given("phone") THEN << <<"send", template, "sms", "customer">> >> ELSE <<>>
ResolveEmail(template) ==
    IF doc.mailing /\ Given("email") THEN << <<"send", template, "email", "customer">> >> ELSE <<>>

-----------------------------------------------------------------------------
(* The handlers.                                                           *)

SmsThenEmail(template) == ResolveSms(template) \o ResolveEmail(template)

UserRegisteredSteps == SmsThenEmail("otp")
UserVerifiedSteps == SmsThenEmail("verified")
PasswordResetSteps == SmsThenEmail("password_reset")
PasswordChangedSteps == SmsThenEmail("password_changed")
EmailVerificationSteps == ResolveEmail("email_verify")
PaymentFailedSteps == SmsThenEmail("payment_failed")

\* The SMS is switched off: only an email reminds of a payment.
PaymentReminderSteps == ResolveEmail("payment_pending")

\* One SMS for each number of the list, as it comes; nothing without a text.
SendSMSSteps(e) ==
    IF e.text THEN [i \in DOMAIN e.to |-> <<"send", "direct", "sms", e.to[i]>>] ELSE <<>>

\* customer.new_created, customer.deleted and others are only logged.
NoticeSteps(e) ==
    CASE e.type = "user_registered" -> UserRegisteredSteps
      [] e.type = "user_verified" -> UserVerifiedSteps
      [] e.type = "password_reset" -> PasswordResetSteps
      [] e.type = "password_changed" -> PasswordChangedSteps
      [] e.type = "email_verification" -> EmailVerificationSteps
      [] e.type = "payment_failed" -> PaymentFailedSteps
      [] e.type = "payment_reminder" -> PaymentReminderSteps
      [] e.type = "sms_send" -> SendSMSSteps(e)
      [] e.type = "logged_only" -> <<>>

BeginNotice(s) == doc.kind = "account" /\ \E n \in queue : Begin(s, n, NoticeSteps(log[n]))

-----------------------------------------------------------------------------
(* ushauth and ushbooknpay: what they want said.                           *)

Says(type, text, to) ==
    /\ doc.kind = "account"
    /\ type \in doc.story
    /\ UNCHANGED remote
    /\ Publish([type |-> type, text |-> text, to |-> to])

Notices ==
    {"user_registered", "user_verified", "password_reset", "password_changed",
     "email_verification", "payment_failed", "payment_reminder", "logged_only"}

AskForNotice == \E type \in Notices : Says(type, TRUE, <<"customer">>)

\* A list may name a number twice, and there may be nothing to say.
AskForSMS ==
    \E text \in BOOLEAN, to \in {<<"customer">>, <<"customer", "other", "customer">>} :
        Says("sms_send", text, to)

NoticeHappens == AskForNotice \/ AskForSMS

=============================================================================
