-------------------------------- MODULE MCIngest --------------------------------
(***************************************************************************)
(* TLC instances of Ingest: a form with a phone, one with an email and one *)
(* with both, so that the third may find no lead, one, or two.             *)
(***************************************************************************)
EXTENDS Ingest, TLC

CONSTANTS i1, i2, i3, l1, l2, l3, l4, w1, w2, pa, ea

Form(phone, email, consent) ==
    [phone |-> phone, email |-> email, consent |-> consent, city |-> TRUE, service |-> FALSE]

ByPhone == Form(pa, None, FALSE)
ByEmail == Form(None, ea, TRUE)
ByBoth  == Form(pa, ea, TRUE)

MCPayloads == {ByPhone, ByEmail, ByBoth}

MCForms == (i1 :> {ByPhone}) @@ (i2 :> {ByEmail}) @@ (i3 :> {ByBoth})

=============================================================================
