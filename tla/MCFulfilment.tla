---------------------------- MODULE MCFulfilment ----------------------------
(* Documents for model checking Fulfilment: one of each way to sell. *)
EXTENDS Fulfilment, TLC

Booking(type, verified, email, refunding) ==
    [kind |-> "booking", type |-> type, eligible |-> TRUE, verified |-> verified,
     email |-> email, refunding |-> refunding, word |-> "success", proof |-> "none",
     invoicing |-> TRUE]
Sale(kind, self, ahead, desk, email) ==
    [kind |-> kind, self |-> self, ahead |-> ahead, desk |-> desk, email |-> email,
     invoicing |-> TRUE]

MCBookings ==
    {Booking("card", TRUE, FALSE, FALSE), Booking("card", TRUE, FALSE, TRUE),
     Booking("gift_voucher", TRUE, TRUE, FALSE), Booking("rewarded", FALSE, FALSE, FALSE)}

\* The ways to word a payment and to carry a voucher, and a refund without invoicing.
MCPayloads ==
    LET paid == Booking("card", FALSE, FALSE, FALSE)
    IN  {[paid EXCEPT !.word = "none", !.proof = "flag"],
         [paid EXCEPT !.type = "voucher_id", !.word = "successful"],
         [paid EXCEPT !.type = "voucher_method", !.word = "failed", !.proof = "word"],
         [paid EXCEPT !.refunding = TRUE, !.invoicing = FALSE]}
MCSales ==
    {Sale("voucher", FALSE, FALSE, FALSE, TRUE), Sale("voucher", FALSE, TRUE, FALSE, FALSE),
     Sale("voucher", TRUE, TRUE, FALSE, FALSE), Sale("order", FALSE, FALSE, FALSE, FALSE),
     Sale("gift", FALSE, FALSE, FALSE, FALSE), Sale("gift", FALSE, FALSE, TRUE, FALSE),
     [Sale("voucher", FALSE, FALSE, FALSE, FALSE) EXCEPT !.invoicing = FALSE]}
Account(given, mailing, story) ==
    [kind |-> "account", given |-> given, mailing |-> mailing, story |-> story]

MCAccounts ==
    {Account({<<"payload", "phone">>, <<"user", "email">>}, TRUE,
             {"user_registered", "user_verified", "email_verification", "logged_only"}),
     Account({<<"customer", "phone">>, <<"payload", "email">>}, TRUE,
             {"password_reset", "password_changed"}),
     Account({<<"user_data", "phone">>, <<"payload", "email">>}, FALSE,
             {"payment_failed", "payment_reminder", "sms_send"})}
MCDocuments == MCBookings \cup MCPayloads \cup MCSales \cup MCAccounts

Interchangeable == Permutations(Slot)

=============================================================================
