-------------------------- MODULE MCMutationQueue --------------------------
EXTENDS MutationQueue, TLC

CONSTANTS m1, is_read

MCRank == [m \in Messages |-> 1]

\* Marking read and moving to Trash.
MCMutations ==
  [mutation_type : {is_read}, message_id : {m1}, mutation_value : {TRUE}]
  \cup [mutation_type : {"move"}, message_id : {m1}, mutation_value : {"system.trash"}]

MCMoves == {mutation \in MCMutations : mutation.mutation_type = "move"}

PostSymmetry == Permutations(Posts)

\* Nothing becomes possible by settling, so safety runs do not explore beyond it.
Unsettled == ~steady
=============================================================================
