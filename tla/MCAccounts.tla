----------------------------- MODULE MCAccounts -----------------------------
(***************************************************************************)
(* Accounts for the model checker: an email that a Hugging Face account    *)
(* shows too, and a Hugging Face account that shows none.                  *)
(***************************************************************************)
EXTENDS Accounts, TLC

CONSTANTS e1, p1, p2, h1, h2, r1, r2

HfEmails == [h \in {h1, h2} |-> IF h = h1 THEN e1 ELSE None]

\* Requests and passwords are only ever compared for equality.
Interchangeable == Permutations({r1, r2}) \cup Permutations({p1, p2})

=============================================================================
