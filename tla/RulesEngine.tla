----------------------------- MODULE RulesEngine -----------------------------
(***************************************************************************)
(* evaluateRulesets: what the rulesets of a mailbox decide about a message *)
(* before it is stored, and the same decision stated without the loop.     *)
(*                                                                         *)
(* A text is a sequence of letters; letter -l is the upper case of l.      *)
(* Ids are numbers, in the order of the strings they stand for.            *)
(***************************************************************************)
EXTENDS Integers, SequencesExt

CONSTANTS
  Null,         \* a null column
  BadPatterns,  \* texts that are no regular expression
  RegexWindow   \* the letters of a target that a regular expression is tried on

ASSUME WindowAssumption == RegexWindow \in Nat

RuleFields == {"from", "subject", "header"}
MatchTypes == {"contains", "not contains", "equal", "not equal",
               "start with", "end with", "match regex"}
ActionTypes == {"move_to_folder", "mark_as_star", "mark_as_read"}

Lower(text) == [i \in DOMAIN text |-> IF text[i] < 0 THEN -text[i] ELSE text[i]]

Includes(text, part) ==
  \E i \in 0..(Len(text) - Len(part)) : SubSeq(text, i + 1, i + Len(part)) = part

ValidRegex(value) == value \notin BadPatterns

\* A pattern of plain letters is found where it is included, case and all.
RegexTest(value, target) == ValidRegex(value) /\ Includes(target, value)

MatchCondition(matchType, target, value) ==
  LET t == Lower(target)
      v == Lower(value)
  IN CASE matchType = "contains" -> Includes(t, v)
       [] matchType = "not contains" -> ~Includes(t, v)
       [] matchType = "equal" -> t = v
       [] matchType = "not equal" -> t # v
       [] matchType = "start with" -> IsPrefix(v, t)
       [] matchType = "end with" -> IsSuffix(v, t)
       [] matchType = "match regex" ->
            RegexTest(value, SubSeq(target, 1, IF Len(target) < RegexWindow
                                               THEN Len(target) ELSE RegexWindow))

\* ctx holds the three texts of a message; `header` is its raw headers.
Hit(condition, ctx) ==
  MatchCondition(condition.match_type, ctx[condition.field], condition.condition_value)

RulesetMatches(ruleset, ctx) ==
  IF ruleset.logic_operator = "OR"
  THEN \E c \in ToSet(ruleset.conditions) : Hit(c, ctx)
  ELSE \A c \in ToSet(ruleset.conditions) : Hit(c, ctx)

\* Mutant of ApplyAction: the first move wins.
ApplyActionOnce(decision, action) ==
  CASE action.action_type = "move_to_folder" ->
         IF action.action_value = Null \/ decision.folder_id # Null THEN decision
         ELSE [decision EXCEPT !.folder_id = action.action_value]
    [] action.action_type = "mark_as_star" -> [decision EXCEPT !.is_starred = TRUE]
    [] action.action_type = "mark_as_read" -> [decision EXCEPT !.is_read = TRUE]

\* A move without a folder is skipped.
ApplyAction(decision, action) ==
  CASE action.action_type = "move_to_folder" ->
         IF action.action_value = Null THEN decision
         ELSE [decision EXCEPT !.folder_id = action.action_value]
    [] action.action_type = "mark_as_star" -> [decision EXCEPT !.is_starred = TRUE]
    [] action.action_type = "mark_as_read" -> [decision EXCEPT !.is_read = TRUE]

NoDecision ==
  [matched |-> FALSE, folder_id |-> Null, is_starred |-> FALSE, is_read |-> FALSE,
   matched_ruleset_ids |-> <<>>]

\* Lower priority numbers first, ties by id.
Precedes(a, b) ==
  \/ a.priority < b.priority
  \/ a.priority = b.priority /\ a.id < b.id

\* The actions of a ruleset, one after the other.
Act(decision, actions) ==
  LET after[n \in 0..Len(actions)] ==
        IF n = 0 THEN decision ELSE ApplyAction(after[n - 1], actions[n])
  IN after[Len(actions)]

\* The ruleset matched.
Matched(decision, ruleset) ==
  [decision EXCEPT !.matched = TRUE,
                   !.matched_ruleset_ids = Append(decision.matched_ruleset_ids, ruleset.id)]

\* Mutant of ApplyRuleset: a ruleset without conditions acts on everything.
ApplyRulesetUnconditionally(decision, ruleset, ctx) ==
  IF ~RulesetMatches(ruleset, ctx) THEN decision
  ELSE Act(Matched(decision, ruleset), ruleset.actions)

\* One turn of the loop.
ApplyRuleset(decision, ruleset, ctx) ==
  IF ruleset.conditions = <<>> \/ ~RulesetMatches(ruleset, ctx) THEN decision
  ELSE Act(Matched(decision, ruleset), ruleset.actions)

InOrder(rulesets) ==
  CHOOSE s \in [1..Cardinality(rulesets) -> rulesets] :
    \A i, j \in DOMAIN s : i < j => Precedes(s[i], s[j])

EvaluateRulesets(rulesets, ctx) ==
  LET ordered == InOrder(rulesets)
      after[n \in 0..Len(ordered)] ==
        IF n = 0 THEN NoDecision ELSE ApplyRuleset(after[n - 1], ordered[n], ctx)
  IN after[Len(ordered)]

-----------------------------------------------------------------------------
(* The decision, RULE-3 to RULE-15, without the loops                      *)

Acting(rulesets, ctx) ==
  {rs \in rulesets : rs.conditions # <<>> /\ RulesetMatches(rs, ctx)}

\* The actions that move: the ruleset and the place among its actions.
Moves(rulesets) ==
  UNION {{<<rs, i>> : i \in {j \in DOMAIN rs.actions :
                               /\ rs.actions[j].action_type = "move_to_folder"
                               /\ rs.actions[j].action_value # Null}} : rs \in rulesets}

\* A move that no other one follows.
LastMove(p, moves) ==
  \A q \in moves : q = p \/ Precedes(q[1], p[1]) \/ (q[1] = p[1] /\ q[2] < p[2])

\* Every acting ruleset has acted, in order, and the last move counts.
Decides(decision, rulesets, ctx) ==
  LET acting == Acting(rulesets, ctx)
      moves == Moves(acting)
      Does(type) == \E rs \in acting : \E a \in ToSet(rs.actions) : a.action_type = type
      ids == decision.matched_ruleset_ids
  IN /\ decision.matched = (acting # {})
     /\ decision.is_starred = Does("mark_as_star")
     /\ decision.is_read = Does("mark_as_read")
     /\ ToSet(ids) = {rs.id : rs \in acting} /\ Len(ids) = Cardinality(acting)
     /\ \A a, b \in acting : Precedes(a, b) =>
          \E i, j \in DOMAIN ids : i < j /\ ids[i] = a.id /\ ids[j] = b.id
     /\ IF moves = {} THEN decision.folder_id = Null
        ELSE \E p \in moves : LastMove(p, moves) /\ decision.folder_id = p[1].actions[p[2]].action_value
=============================================================================
