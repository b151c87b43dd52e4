----------------------------- MODULE MCRulesets -----------------------------
EXTENDS Rulesets, TLC

Symmetry == Permutations(Requests)

a == 1
b == 2
A == -1

Condition(field, type, value) ==
  [field |-> field, match_type |-> type, condition_value |-> value]
Move(folder) == [action_type |-> "move_to_folder", action_value |-> folder]
Star == [action_type |-> "mark_as_star", action_value |-> Null]
Read == [action_type |-> "mark_as_read", action_value |-> Null]
Work == CHOOSE f \in CustomFolders : TRUE

Body(priority, operator, conditions, actions) ==
  [priority |-> priority, logic_operator |-> operator, is_enabled |-> TRUE,
   conditions |-> conditions, actions |-> actions]

\* Equal and different priorities, both operators, several moves, custom and
\* system folders, conditions that hold, that fail and that need case to be ignored.
\* The first matches both messages, the second one of them.
EngineInputs ==
  {Body(1, "OR",
        <<Condition("from", "contains", <<A>>), Condition("subject", "end with", <<b>>)>>,
        <<Move(Inbox), Star, Move(Work)>>),
   Body(2, "AND",
        <<Condition("header", "match regex", <<b>>), Condition("header", "not contains", <<b, b>>)>>,
        <<Read, Move(Inbox)>>)}

EngineContexts == {[from |-> <<a, b>>, subject |-> <<b, A>>, header |-> header] :
                     header \in {<<a, b, b, A>>, <<a, b, A>>}}

\* Forms send two contents for the first ruleset; the other one only loses its folder or goes.
Writes == 1 :> 2 @@ 2 :> 0
=============================================================================
