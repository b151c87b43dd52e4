--------------------------- MODULE MCMailboxStore ---------------------------
EXTENDS MailboxStore, TLC

Symmetry == Permutations(Messages) \cup Permutations(Requests)
=============================================================================
