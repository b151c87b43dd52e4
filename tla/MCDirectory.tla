---------------------------- MODULE MCDirectory ----------------------------
EXTENDS Directory, TLC

Symmetry == Permutations(Requests) \cup Permutations(Users) \cup Permutations(Usernames)

\* A body changes the role or the flag.
OneField ==
  {[role |-> "member", is_active |-> Absent], [role |-> "admin", is_active |-> Absent],
   [role |-> Absent, is_active |-> FALSE], [role |-> Absent, is_active |-> TRUE]}

Zone == [d \in Domains |-> d]
=============================================================================
