------------------------------ MODULE MCLists ------------------------------
(***************************************************************************)
(* Small instances of the lists; what a cfg cannot write is defined here.  *)
(***************************************************************************)
EXTENDS Lists

\* One recipient per page, a second one to add: one page or two.  Two pages of
\* transactions, of which the second fills up while they are looked at.  One
\* report per page, another to come, and a filter that only the first passes.
\* Two pages of invoices: one that was sent and one still to be created, and one
\* that was paid.
MCInvoicesOn == << <<1, 2>>, <<3>> >>
MCInitialStatus == <<"sent", "absent", "paid">>
=============================================================================
