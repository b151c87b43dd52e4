--------------------------- MODULE RulesetsProofs ---------------------------
(***************************************************************************)
(* The rulesets, for any rulesets, inputs, messages and number of requests. *)
(*                                                                         *)
(* StoredWhole is inductive together with what requests carry: a create or *)
(* an update carries one form's contents, a toggle what it has read.  While *)
(* nothing replaces the ruleset under it, what a toggle has read is what    *)
(* the tables hold; from the first replacement on it is torn, and its PUT   *)
(* marks the ruleset as mixed.                                              *)
(*                                                                         *)
(* The engine is two loops.  What a loop computes is shown by its first    *)
(* wrong turn: among the turns after which its variable is not what it     *)
(* should be there would be a least one.  So EvaluateRulesets decides what *)
(* Decides says of any finite set of rulesets, and what the inbound handler *)
(* decides follows from what it holds between its queries.                 *)
(***************************************************************************)
EXTENDS Rulesets, WellFoundedInduction, FiniteSetTheorems, TLAPS

\* Row, conditions and actions come from forms in S, from one form unless torn.
Sent(S, row, conditions, actions, torn) ==
  \E u, v, w \in S :
    /\ IsRowOf(row, u) /\ conditions = v.conditions /\ actions = w.actions
    /\ ~torn => u = v /\ v = w

\* A toggle has read parts of contents that come from forms in S; as long as it is
\* not torn they are those of the tables.
ReadsSent(q, S, row, conditions, actions) ==
  \E cs \in Conditions, as \in Actions :
    /\ Sent(S, q.row, cs, as, q.torn)
    /\ q.conditions \in {Null, <<>>, cs} /\ q.actions \in {Null, <<>>, as}
    /\ ~q.torn => \/ row = Absent
                  \/ IsRowOf(row, q.row) /\ conditions = cs /\ actions = as

\* What request q holds, next to the forms in S and to the tables of its ruleset.
Holds(q, S, row, conditions, actions) ==
  /\ q.op \in {"create", "update"} => Sent(S, q.input, q.input.conditions, q.input.actions, q.torn)
  /\ q.op = "toggle" => ReadsSent(q, S, row, conditions, actions)

Carries(q) == q # Idle /\ q.op \in {"create", "update", "toggle"}

RequestsHold ==
  \A r \in Requests : Carries(req[r]) =>
    Holds(req[r], submitted[req[r].id], rulesets[req[r].id],
          ruleset_conditions[req[r].id], ruleset_actions[req[r].id])

RulesetInv == TypeOK /\ StoredWhole /\ RequestsHold

\* What StoredWhole says of one ruleset.
WholeIn(S, row, conditions, actions, torn) ==
  IF row = Absent THEN conditions = <<>> /\ actions = <<>>
  ELSE Sent(S, row, conditions, actions, torn)

Whole(id) ==
  WholeIn(submitted[id], rulesets[id], ruleset_conditions[id], ruleset_actions[id], id \in mixed)

LEMMA WholeDef == StoredWhole <=> \A id \in Ids : Whole(id)
BY DEF StoredWhole, Whole, WholeIn, Sent

\* Forms add to what was sent.
LEMMA SentGrows ==
  ASSUME NEW S, NEW T, S \subseteq T, NEW row, NEW cs, NEW as, NEW torn, Sent(S, row, cs, as, torn)
  PROVE  Sent(T, row, cs, as, torn)
BY DEF Sent

\* What one form sent is a mixture as well.
LEMMA SentTorn ==
  ASSUME NEW S, NEW row, NEW cs, NEW as, NEW torn, Sent(S, row, cs, as, torn)
  PROVE  Sent(S, row, cs, as, TRUE)
BY DEF Sent

\* The flag of a row does not matter.
LEMMA SentSameRow ==
  ASSUME NEW S, NEW row, NEW new, NEW cs, NEW as, NEW torn,
         Sent(S, row, cs, as, torn), IsRowOf(new, row)
  PROVE  Sent(S, new, cs, as, torn)
BY DEF Sent, IsRowOf

\* What a request holds it goes on to hold when forms are sent for its ruleset.
LEMMA HoldsGrows ==
  ASSUME NEW S, NEW T, S \subseteq T, NEW q, NEW row, NEW cs, NEW as, Holds(q, S, row, cs, as)
  PROVE  Holds(q, T, row, cs, as)
<1>1. ASSUME q.op = "toggle" PROVE ReadsSent(q, T, row, cs, as)
  <2>1. PICK c \in Conditions, a \in Actions :
          /\ Sent(S, q.row, c, a, q.torn)
          /\ q.conditions \in {Null, <<>>, c} /\ q.actions \in {Null, <<>>, a}
          /\ ~q.torn => row = Absent \/ (IsRowOf(row, q.row) /\ cs = c /\ as = a)
    BY <1>1 DEF Holds, ReadsSent
  <2>2. Sent(T, q.row, c, a, q.torn)
    BY <2>1, SentGrows
  <2> QED
    BY <2>1, <2>2 DEF ReadsSent
<1>2. ASSUME q.op \in {"create", "update"}
      PROVE  Sent(T, q.input, q.input.conditions, q.input.actions, q.torn)
  BY <1>2, SentGrows DEF Holds
<1> QED
  BY <1>1, <1>2 DEF Holds

LEMMA RowOfInput == \A input \in Input : RowOf(input) \in Row
BY DEF Input, Row, RowOf

LEMMA EmptyIsTyped == <<>> \in Conditions /\ <<>> \in Actions
BY DEF Conditions, Actions

LEMMA InitInv == Init => RulesetInv
<1> SUFFICES ASSUME Init PROVE RulesetInv
  OBVIOUS
<1>1. \A id \in Ids : \/ submitted[id] = {}
                      \/ \E input \in Inputs : submitted[id] = {input}
  BY DEF Init
<1>2. \A id \in Ids : submitted[id] # {} =>
        LET input == CHOOSE x \in submitted[id] : TRUE
        IN input \in Input /\ submitted[id] = {input}
  BY <1>1, RulesetAssumption
<1>3. TypeOK
  <2>1. folders \subseteq CustomFolders /\ mixed \subseteq Ids
    BY DEF Init
  <2>2. submitted \in [Ids -> SUBSET Input]
    <3>1. \A S \in {{}} \cup {{input} : input \in Inputs} : S \in SUBSET Input
      BY RulesetAssumption
    <3>2. submitted \in [Ids -> {{}} \cup {{input} : input \in Inputs}]
      BY DEF Init
    <3> QED
      BY <3>1, <3>2
  <2>3. rulesets \in [Ids -> Row \cup {Absent}]
    BY <1>2, RowOfInput DEF Init
  <2>4. ruleset_conditions \in [Ids -> Conditions]
    BY <1>2, EmptyIsTyped DEF Init, Input
  <2>5. ruleset_actions \in [Ids -> Actions]
    BY <1>2, EmptyIsTyped DEF Init, Input
  <2>6. req \in [Requests -> Request]
    BY DEF Init, Request
  <2> QED
    BY <2>1, <2>2, <2>3, <2>4, <2>5, <2>6 DEF TypeOK
<1>4. ASSUME NEW id \in Ids PROVE Whole(id)
  <2>1. CASE submitted[id] = {}
    BY <2>1 DEF Init, Whole, WholeIn
  <2>2. CASE submitted[id] # {}
    <3> DEFINE input == CHOOSE x \in submitted[id] : TRUE
    <3>1. input \in submitted[id] /\ rulesets[id] = RowOf(input)
          /\ ruleset_conditions[id] = input.conditions /\ ruleset_actions[id] = input.actions
      BY <2>2 DEF Init
    <3>2. RowOf(input) # Absent
      BY <1>2, <2>2, RowOfInput, RulesetAssumption
    <3>3. IsRowOf(RowOf(input), input)
      BY DEF IsRowOf, RowOf
    <3> QED
      BY <3>1, <3>2, <3>3 DEF Whole, WholeIn, Sent
  <2> QED
    BY <2>1, <2>2
<1>5. RequestsHold
  BY DEF Init, RequestsHold, Carries
<1> QED
  BY <1>3, <1>4, <1>5, WholeDef DEF RulesetInv

\* Contents are only ever added to what was submitted.
Grows == \A id \in Ids : submitted[id] \subseteq submitted'[id]

LEMMA IdleTyped == Idle \in Request
BY DEF Request

\* A request that carries a ruleset is about one.
LEMMA CarriesId ==
  ASSUME NEW q \in Request, Carries(q)
  PROVE  q.id \in Ids
BY DEF Request, Carries, Idle

\* Whole rulesets stay whole when only forms are sent.
LEMMA WholeGrows ==
  ASSUME RulesetInv, Grows, UNCHANGED <<tables, mixed>>
  PROVE  StoredWhole'
<1>1. ASSUME NEW id \in Ids PROVE Whole(id)'
  <2>1. Whole(id) /\ submitted[id] \subseteq submitted'[id]
    BY WholeDef DEF RulesetInv, Grows
  <2> QED
    BY <2>1 DEF Whole, WholeIn, Sent, tables
<1> QED
  BY <1>1 DEF StoredWhole, Whole, WholeIn, Sent

\* A request goes on while the tables stay and forms may be sent.
LEMMA GoesStep ==
  ASSUME RulesetInv, UNCHANGED <<tables, mixed>>, Grows, submitted' \in [Ids -> SUBSET Input],
         NEW r \in Requests,
         \E state \in Request :
           /\ Goes(r, state)
           /\ Carries(state) => Holds(state, submitted'[state.id], rulesets[state.id],
                                      ruleset_conditions[state.id], ruleset_actions[state.id])
  PROVE  RulesetInv'
<1>1. PICK state \in Request :
           /\ Goes(r, state)
           /\ Carries(state) => Holds(state, submitted'[state.id], rulesets[state.id],
                                      ruleset_conditions[state.id], ruleset_actions[state.id])
  OBVIOUS
<1>2. TypeOK'
  BY <1>1 DEF RulesetInv, TypeOK, tables, Goes
<1>3. StoredWhole'
  BY WholeGrows
<1>4. RequestsHold'
  <2> SUFFICES ASSUME NEW p \in Requests, Carries(req'[p])
               PROVE  Holds(req'[p], submitted'[req'[p].id], rulesets[req'[p].id],
                            ruleset_conditions[req'[p].id], ruleset_actions[req'[p].id])
    BY DEF RequestsHold, tables, Carries
  <2>1. CASE p = r
    BY <1>1, <2>1 DEF Goes, RulesetInv, TypeOK
  <2>2. CASE p # r
    <3>1. req'[p] = req[p] /\ req[p] \in Request
      BY <1>1, <2>2 DEF Goes, RulesetInv, TypeOK
    <3>2. req[p].id \in Ids /\ submitted[req[p].id] \subseteq submitted'[req[p].id]
      BY <3>1, CarriesId DEF Grows
    <3>3. Holds(req[p], submitted[req[p].id], rulesets[req[p].id],
                ruleset_conditions[req[p].id], ruleset_actions[req[p].id])
      BY <3>1 DEF RulesetInv, RequestsHold
    <3> QED
      BY <3>1, <3>2, <3>3, HoldsGrows
  <2> QED
    BY <2>1, <2>2
<1> QED
  BY <1>2, <1>3, <1>4 DEF RulesetInv

\* Steps that change nothing here.
LEMMA QuietStep ==
  ASSUME RulesetInv, UNCHANGED <<tables, ghosts, req>>
  PROVE  RulesetInv'
<1>1. TypeOK'
  BY DEF RulesetInv, TypeOK, tables, ghosts
<1>2. StoredWhole'
  BY WholeGrows DEF Grows, ghosts
<1>3. RequestsHold'
  BY DEF RulesetInv, RequestsHold, Carries, tables, ghosts
<1> QED
  BY <1>1, <1>2, <1>3 DEF RulesetInv

\* A request ends.
LEMMA EndStep ==
  ASSUME RulesetInv, NEW r \in Requests, UNCHANGED <<tables, ghosts>>, Goes(r, Idle)
  PROVE  RulesetInv'
<1>1. Grows /\ submitted' \in [Ids -> SUBSET Input] /\ UNCHANGED mixed
  BY DEF Grows, ghosts, RulesetInv, TypeOK
<1>2. ~Carries(Idle)
  BY DEF Carries
<1> QED
  BY <1>1, <1>2, IdleTyped, GoesStep

-----------------------------------------------------------------------------
(* Requests begin                                                          *)

\* A form is sent: by then it is among what was submitted.
LEMMA FormStep ==
  ASSUME RulesetInv, NEW r \in Requests, NEW input \in Inputs, NEW id \in Ids,
         NEW op \in {"create", "update"}, Submits(id, input), UNCHANGED <<tables, mixed>>,
         Goes(r, [op |-> op, stage |-> "validate", id |-> id, input |-> input, torn |-> FALSE])
  PROVE  RulesetInv'
<1> DEFINE state == [op |-> op, stage |-> "validate", id |-> id, input |-> input, torn |-> FALSE]
<1>1. input \in Input /\ state \in Request
  BY RulesetAssumption DEF Request
<1>2. submitted'[id] = submitted[id] \cup {input} /\ \A i \in Ids : i # id => submitted'[i] = submitted[i]
  BY DEF RulesetInv, TypeOK, Submits
<1>3. submitted' \in [Ids -> SUBSET Input]
  BY <1>1 DEF RulesetInv, TypeOK, Submits
<1>4. Grows
  BY <1>2 DEF Grows
<1>5. Sent(submitted'[id], input, input.conditions, input.actions, FALSE)
  BY <1>2 DEF Sent, IsRowOf
<1>6. Holds(state, submitted'[state.id], rulesets[state.id],
            ruleset_conditions[state.id], ruleset_actions[state.id])
  BY <1>5 DEF Holds
<1> QED
  BY <1>1, <1>3, <1>4, <1>6, GoesStep

\* A toggle has the row of the ruleset, with another flag.
LEMMA BeginToggleStep ==
  ASSUME RulesetInv, NEW r \in Requests, BeginToggle(r)
  PROVE  RulesetInv'
<1> USE DEF ghosts
<1>1. PICK id \in Ids, value \in BOOLEAN :
        IF rulesets[id] = Absent THEN UNCHANGED req
        ELSE Goes(r, [op |-> "toggle", stage |-> "details", id |-> id,
                      row |-> [rulesets[id] EXCEPT !.is_enabled = value],
                      conditions |-> Null, actions |-> Null, torn |-> id \in mixed])
  BY DEF BeginToggle
<1>2. UNCHANGED <<tables, ghosts>>
  BY DEF BeginToggle
<1>3. CASE rulesets[id] = Absent
  BY <1>1, <1>2, <1>3, QuietStep
<1>4. CASE rulesets[id] # Absent
  <2> DEFINE new == [rulesets[id] EXCEPT !.is_enabled = value]
             torn == id \in mixed
             state == [op |-> "toggle", stage |-> "details", id |-> id, row |-> new,
                       conditions |-> Null, actions |-> Null, torn |-> torn]
  <2>1. rulesets[id] \in Row /\ ruleset_conditions[id] \in Conditions /\ ruleset_actions[id] \in Actions
    BY <1>4 DEF RulesetInv, TypeOK
  <2>2. new \in Row /\ IsRowOf(new, rulesets[id]) /\ IsRowOf(rulesets[id], new)
    BY <2>1 DEF Row, IsRowOf
  <2>3. state \in Request
    BY <2>2 DEF Request
  <2>4. Sent(submitted[id], rulesets[id], ruleset_conditions[id], ruleset_actions[id], torn)
    BY <1>4, WholeDef DEF RulesetInv, Whole, WholeIn
  <2>5. Sent(submitted[id], new, ruleset_conditions[id], ruleset_actions[id], torn)
    BY <2>2, <2>4, SentSameRow
  <2>6. /\ state.op = "toggle" /\ state.id = id /\ state.row = new /\ state.torn = torn
        /\ state.conditions = Null /\ state.actions = Null
    OBVIOUS
  <2> HIDE DEF new, torn
  <2>7. Goes(r, state)
    BY <1>1, <1>4 DEF new, torn
  <2> HIDE DEF state
  <2>8. ReadsSent(state, submitted[id], rulesets[id], ruleset_conditions[id], ruleset_actions[id])
    BY <2>1, <2>2, <2>5, <2>6 DEF ReadsSent
  <2>9. Holds(state, submitted[state.id], rulesets[state.id],
              ruleset_conditions[state.id], ruleset_actions[state.id])
    BY <2>6, <2>8 DEF Holds
  <2>10. Grows /\ submitted' \in [Ids -> SUBSET Input] /\ UNCHANGED mixed /\ UNCHANGED submitted
    BY <1>2 DEF Grows, RulesetInv, TypeOK
  <2> QED
    BY <1>2, <2>3, <2>7, <2>9, <2>10, GoesStep
<1> QED
  BY <1>3, <1>4

LEMMA BeginStep ==
  ASSUME RulesetInv, NEW r \in Requests,
         BeginCreate(r) \/ BeginUpdate(r) \/ BeginDelete(r) \/ BeginToggle(r) \/ LoadFolder(r)
  PROVE  RulesetInv'
<1>1. CASE BeginCreate(r)
  <2>1. PICK input \in Inputs, id \in Ids :
          /\ Submits(id, input)
          /\ Goes(r, [op |-> "create", stage |-> "validate", id |-> id, input |-> input, torn |-> FALSE])
    BY <1>1 DEF BeginCreate
  <2>2. UNCHANGED <<tables, mixed>>
    BY <1>1 DEF BeginCreate
  <2> QED
    BY <2>1, <2>2, FormStep
<1>2. CASE BeginUpdate(r)
  <2>1. PICK input \in Inputs, id \in Ids :
          /\ Submits(id, input)
          /\ Goes(r, [op |-> "update", stage |-> "validate", id |-> id, input |-> input, torn |-> FALSE])
    BY <1>2 DEF BeginUpdate
  <2>2. UNCHANGED <<tables, mixed>>
    BY <1>2 DEF BeginUpdate
  <2> QED
    BY <2>1, <2>2, FormStep
<1>3. ASSUME UNCHANGED <<tables, ghosts>>,
             \E state \in Request : ~Carries(state) /\ Goes(r, state)
      PROVE  RulesetInv'
  <2>1. Grows /\ submitted' \in [Ids -> SUBSET Input] /\ UNCHANGED mixed
    BY <1>3 DEF Grows, ghosts, RulesetInv, TypeOK
  <2> QED
    BY <1>3, <2>1, GoesStep
<1>4. CASE BeginDelete(r)
  <2>1. PICK id \in Ids : Goes(r, [op |-> "delete", stage |-> "select", id |-> id])
    BY <1>4 DEF BeginDelete
  <2>2. [op |-> "delete", stage |-> "select", id |-> id] \in Request
        /\ ~Carries([op |-> "delete", stage |-> "select", id |-> id])
    BY DEF Request, Carries
  <2> QED
    BY <1>3, <1>4, <2>1, <2>2 DEF BeginDelete
<1>5. CASE LoadFolder(r)
  <2>1. PICK f \in folders : Goes(r, [op |-> "drop", stage |-> "commit", folder |-> f])
    BY <1>5 DEF LoadFolder
  <2>2. [op |-> "drop", stage |-> "commit", folder |-> f] \in Request
        /\ ~Carries([op |-> "drop", stage |-> "commit", folder |-> f])
    BY DEF Request, Carries, RulesetInv, TypeOK
  <2> QED
    BY <1>3, <1>5, <2>1, <2>2 DEF LoadFolder
<1> QED
  BY <1>1, <1>2, <1>4, <1>5, BeginToggleStep

-----------------------------------------------------------------------------
(* Requests go on                                                          *)

\* What a request carries when it is about to validate or to commit an input.
LEMMA CarriesInput ==
  ASSUME RulesetInv, NEW r \in Requests, req[r] # Idle, req[r].op \in {"create", "update"}
  PROVE  /\ req[r].id \in Ids /\ req[r].input \in Input
         /\ req[r] \in [op : {"create", "update"}, stage : {"validate", "select", "commit"},
                        id : Ids, input : Input, torn : BOOLEAN]
         /\ Sent(submitted[req[r].id], req[r].input, req[r].input.conditions,
                 req[r].input.actions, req[r].torn)
<1>1. req[r] \in Request
  BY DEF RulesetInv, TypeOK
<1>2. req[r] \in [op : {"create", "update"}, stage : {"validate", "select", "commit"},
                  id : Ids, input : Input, torn : BOOLEAN]
  BY <1>1 DEF Request, Idle
<1>3. Holds(req[r], submitted[req[r].id], rulesets[req[r].id],
            ruleset_conditions[req[r].id], ruleset_actions[req[r].id])
  BY DEF RulesetInv, RequestsHold, Carries
<1> QED
  BY <1>2, <1>3 DEF Holds

Toggle ==
  [op : {"toggle"}, stage : {"details"}, id : Ids, row : Row,
   conditions : Conditions \cup {Null}, actions : Actions \cup {Null}, torn : BOOLEAN]

LEMMA CarriesToggle ==
  ASSUME RulesetInv, NEW r \in Requests, At(r, "toggle", "details")
  PROVE  /\ req[r] \in Toggle /\ req[r].op = "toggle" /\ req[r].id \in Ids
         /\ ReadsSent(req[r], submitted[req[r].id], rulesets[req[r].id],
                      ruleset_conditions[req[r].id], ruleset_actions[req[r].id])
<1>1. req[r] \in Request
  BY DEF RulesetInv, TypeOK
<1>2. req[r] \in Toggle
  BY <1>1 DEF Request, At, Idle, Toggle
<1>3. Holds(req[r], submitted[req[r].id], rulesets[req[r].id],
            ruleset_conditions[req[r].id], ruleset_actions[req[r].id])
  BY DEF RulesetInv, RequestsHold, Carries, At
<1> QED
  BY <1>2, <1>3 DEF Holds, Toggle, At

\* What a toggle is when it has read one more part, if both are still its ruleset's.
LEMMA ToggleBodyHolds ==
  ASSUME RulesetInv, NEW r \in Requests, At(r, "toggle", "details"),
         NEW cs \in Conditions \cup {Null}, NEW as \in Actions \cup {Null},
         LET q == req[r] IN
           \E c \in Conditions, a \in Actions :
             /\ Sent(submitted[q.id], q.row, c, a, q.torn)
             /\ cs \in {Null, <<>>, c} /\ as \in {Null, <<>>, a}
             /\ ~q.torn => \/ rulesets[q.id] = Absent
                           \/ /\ IsRowOf(rulesets[q.id], q.row)
                              /\ ruleset_conditions[q.id] = c /\ ruleset_actions[q.id] = a
  PROVE  LET new == ToggleBody(r, cs, as) IN
         /\ new \in Request
         /\ Carries(new) => Holds(new, submitted[new.id], rulesets[new.id],
                                  ruleset_conditions[new.id], ruleset_actions[new.id])
<1> DEFINE q == req[r]
           new == ToggleBody(r, cs, as)
<1>1. q \in Toggle /\ q.op = "toggle" /\ q.id \in Ids /\ q.row \in Row /\ q.torn \in BOOLEAN
  BY CarriesToggle DEF Toggle
<1>2. PICK c \in Conditions, a \in Actions :
         /\ Sent(submitted[q.id], q.row, c, a, q.torn)
         /\ cs \in {Null, <<>>, c} /\ as \in {Null, <<>>, a}
         /\ ~q.torn => \/ rulesets[q.id] = Absent
                       \/ /\ IsRowOf(rulesets[q.id], q.row)
                          /\ ruleset_conditions[q.id] = c /\ ruleset_actions[q.id] = a
  OBVIOUS
<1>3. CASE Null \in {cs, as}
  <2>1. new = [q EXCEPT !.conditions = cs, !.actions = as]
    BY <1>3 DEF ToggleBody
  <2>2. /\ new \in Toggle /\ new.op = "toggle" /\ new.id = q.id /\ new.row = q.row
        /\ new.torn = q.torn /\ new.conditions = cs /\ new.actions = as
    BY <1>1, <2>1 DEF Toggle
  <2> HIDE DEF new, q
  <2>3. new \in Request
    BY <2>2 DEF Request, Toggle
  <2>4. ReadsSent(new, submitted[new.id], rulesets[new.id],
                  ruleset_conditions[new.id], ruleset_actions[new.id])
    BY <1>2, <2>2 DEF ReadsSent
  <2> QED
    BY <2>2, <2>3, <2>4 DEF Holds, new
<1>4. CASE Null \notin {cs, as} /\ <<>> \in {cs, as}
  BY <1>4, IdleTyped DEF ToggleBody, Carries
<1>5. CASE Null \notin {cs, as} /\ <<>> \notin {cs, as}
  <2> DEFINE input == [priority |-> q.row.priority, logic_operator |-> q.row.logic_operator,
                       is_enabled |-> q.row.is_enabled, conditions |-> cs, actions |-> as]
  <2>1. new = [op |-> "update", stage |-> "validate", id |-> q.id, input |-> input, torn |-> q.torn]
    BY <1>5 DEF ToggleBody
  <2>2. input \in Input /\ IsRowOf(input, q.row) /\ input.conditions = cs /\ input.actions = as
    BY <1>1, <1>5 DEF Input, Row, IsRowOf
  <2>3. cs = c /\ as = a
    BY <1>2, <1>5
  <2> HIDE DEF input, q, new
  <2>4. new \in Request
    BY <1>1, <2>1, <2>2 DEF Request
  <2>5. Sent(submitted[q.id], input, input.conditions, input.actions, q.torn)
    BY <1>2, <2>2, <2>3, SentSameRow
  <2>6. Sent(submitted[new.id], new.input, new.input.conditions, new.input.actions, new.torn)
    BY <2>1, <2>5
  <2> QED
    BY <2>1, <2>4, <2>6 DEF Holds, new
<1> QED
  BY <1>3, <1>4, <1>5

LEMMA MiddleStep ==
  ASSUME RulesetInv, NEW r \in Requests,
         ValidateFolders(r) \/ SelectRuleset(r) \/ GetConditions(r) \/ GetActions(r)
  PROVE  RulesetInv'
<1>1. UNCHANGED <<tables, ghosts>>
  BY DEF ValidateFolders, SelectRuleset, GetConditions, GetActions
<1>2. Grows /\ submitted' \in [Ids -> SUBSET Input] /\ UNCHANGED mixed /\ UNCHANGED submitted
  BY <1>1 DEF Grows, ghosts, RulesetInv, TypeOK
<1>3. ASSUME NEW state \in Request, Goes(r, state),
             Carries(state) => Holds(state, submitted[state.id], rulesets[state.id],
                                     ruleset_conditions[state.id], ruleset_actions[state.id])
      PROVE  RulesetInv'
  BY <1>1, <1>2, <1>3, GoesStep
<1>4. ASSUME NEW stage \in {"commit", "select"}, req[r] # Idle, req[r].op \in {"create", "update"},
             Goes(r, [req[r] EXCEPT !.stage = stage])
      PROVE  RulesetInv'
  <2> DEFINE state == [req[r] EXCEPT !.stage = stage]
  <2>1. req[r] \in [op : {"create", "update"}, stage : {"validate", "select", "commit"},
                    id : Ids, input : Input, torn : BOOLEAN]
        /\ Sent(submitted[req[r].id], req[r].input, req[r].input.conditions,
                req[r].input.actions, req[r].torn)
    BY <1>4, CarriesInput
  <2>2. /\ state \in Request /\ state.op = req[r].op /\ state.id = req[r].id
        /\ state.input = req[r].input /\ state.torn = req[r].torn
    BY <2>1 DEF Request
  <2> HIDE DEF state
  <2>3. Holds(state, submitted[state.id], rulesets[state.id],
              ruleset_conditions[state.id], ruleset_actions[state.id])
    BY <1>4, <2>1, <2>2 DEF Holds
  <2> QED
    BY <1>3, <1>4, <2>2, <2>3 DEF state
<1>5. CASE ValidateFolders(r)
  <2>1. req[r] # Idle /\ req[r].op \in {"create", "update"}
    BY <1>5 DEF ValidateFolders, RulesetInv, TypeOK, Request, Idle
  <2>2. CASE Goes(r, Idle)
    BY <1>1, <2>2, EndStep
  <2>3. CASE Goes(r, [req[r] EXCEPT !.stage = IF req[r].op = "create" THEN "commit" ELSE "select"])
    BY <1>4, <2>1, <2>3
  <2> QED
    BY <1>5, <2>2, <2>3 DEF ValidateFolders
<1>6. CASE SelectRuleset(r)
  <2>1. CASE Goes(r, Idle)
    BY <1>1, <2>1, EndStep
  <2>2. CASE Goes(r, [req[r] EXCEPT !.stage = "commit"])
    <3>1. CASE req[r].op \in {"create", "update"}
      BY <1>4, <1>6, <2>2, <3>1 DEF SelectRuleset
    <3>2. CASE req[r].op \notin {"create", "update"}
      <4>1. req[r] \in [op : {"delete"}, stage : {"select", "commit"}, id : Ids]
        BY <1>6, <3>2 DEF SelectRuleset, RulesetInv, TypeOK, Request, Idle
      <4>2. [req[r] EXCEPT !.stage = "commit"] \in Request
            /\ ~Carries([req[r] EXCEPT !.stage = "commit"])
        BY <4>1 DEF Request, Carries
      <4> QED
        BY <1>3, <2>2, <4>2
    <3> QED
      BY <3>1, <3>2
  <2> QED
    BY <1>6, <2>1, <2>2 DEF SelectRuleset
<1>7. CASE GetConditions(r)
  <2> DEFINE q == req[r]
             cs == ruleset_conditions[q.id]
  <2>1. /\ At(r, "toggle", "details") /\ q.conditions = Null
        /\ Goes(r, ToggleBody(r, cs, q.actions))
    BY <1>7 DEF GetConditions
  <2>2. q \in Toggle /\ q.id \in Ids
        /\ ReadsSent(q, submitted[q.id], rulesets[q.id], cs, ruleset_actions[q.id])
    BY <2>1, CarriesToggle
  <2>3. cs \in Conditions /\ q.actions \in Actions \cup {Null}
    BY <2>2 DEF RulesetInv, TypeOK, Toggle
  <2>4. PICK c \in Conditions, a \in Actions :
           /\ Sent(submitted[q.id], q.row, c, a, q.torn)
           /\ q.actions \in {Null, <<>>, a}
           /\ ~q.torn => \/ rulesets[q.id] = Absent
                         \/ IsRowOf(rulesets[q.id], q.row) /\ cs = c /\ ruleset_actions[q.id] = a
    BY <2>2 DEF ReadsSent
  <2>5. Whole(q.id)
    BY <2>2, WholeDef DEF RulesetInv
  <2> HIDE DEF q, cs
  <2>6. \E d \in Conditions :
           /\ Sent(submitted[q.id], q.row, d, a, q.torn) /\ cs \in {Null, <<>>, d}
           /\ ~q.torn => \/ rulesets[q.id] = Absent
                         \/ IsRowOf(rulesets[q.id], q.row) /\ cs = d /\ ruleset_actions[q.id] = a
    <3>1. CASE rulesets[q.id] = Absent
      BY <2>4, <2>5, <3>1 DEF Whole, WholeIn, cs
    <3>2. CASE rulesets[q.id] # Absent /\ ~q.torn
      BY <2>4, <3>2
    <3>3. CASE rulesets[q.id] # Absent /\ q.torn
      <4>1. Sent(submitted[q.id], rulesets[q.id], cs, ruleset_actions[q.id], TRUE)
        BY <2>5, <3>3, SentTorn DEF Whole, WholeIn, cs
      <4>2. q.torn = TRUE
        BY <2>2, <3>3 DEF Toggle
      <4>3. Sent(submitted[q.id], q.row, c, a, TRUE)
        BY <2>4, <4>2
      <4>4. Sent(submitted[q.id], q.row, cs, a, TRUE)
        BY <4>1, <4>3 DEF Sent
      <4> QED
        BY <2>3, <4>2, <4>4
    <3> QED
      BY <3>1, <3>2, <3>3
  <2>7. LET new == ToggleBody(r, cs, q.actions) IN
        /\ new \in Request
        /\ Carries(new) => Holds(new, submitted[new.id], rulesets[new.id],
                                 ruleset_conditions[new.id], ruleset_actions[new.id])
    BY <2>1, <2>3, <2>4, <2>6, ToggleBodyHolds DEF q, cs
  <2> QED
    BY <1>3, <2>1, <2>7
<1>8. CASE GetActions(r)
  <2> DEFINE q == req[r]
             as == ruleset_actions[q.id]
  <2>1. /\ At(r, "toggle", "details") /\ q.actions = Null
        /\ Goes(r, ToggleBody(r, q.conditions, as))
    BY <1>8 DEF GetActions
  <2>2. q \in Toggle /\ q.id \in Ids
        /\ ReadsSent(q, submitted[q.id], rulesets[q.id], ruleset_conditions[q.id], as)
    BY <2>1, CarriesToggle
  <2>3. as \in Actions /\ q.conditions \in Conditions \cup {Null}
    BY <2>2 DEF RulesetInv, TypeOK, Toggle
  <2>4. PICK c \in Conditions, a \in Actions :
           /\ Sent(submitted[q.id], q.row, c, a, q.torn)
           /\ q.conditions \in {Null, <<>>, c}
           /\ ~q.torn => \/ rulesets[q.id] = Absent
                         \/ IsRowOf(rulesets[q.id], q.row) /\ ruleset_conditions[q.id] = c /\ as = a
    BY <2>2 DEF ReadsSent
  <2>5. Whole(q.id)
    BY <2>2, WholeDef DEF RulesetInv
  <2> HIDE DEF q, as
  <2>6. \E d \in Actions :
           /\ Sent(submitted[q.id], q.row, c, d, q.torn) /\ as \in {Null, <<>>, d}
           /\ ~q.torn => \/ rulesets[q.id] = Absent
                         \/ IsRowOf(rulesets[q.id], q.row) /\ ruleset_conditions[q.id] = c /\ as = d
    <3>1. CASE rulesets[q.id] = Absent
      BY <2>4, <2>5, <3>1 DEF Whole, WholeIn, as
    <3>2. CASE rulesets[q.id] # Absent /\ ~q.torn
      BY <2>4, <3>2
    <3>3. CASE rulesets[q.id] # Absent /\ q.torn
      <4>1. Sent(submitted[q.id], rulesets[q.id], ruleset_conditions[q.id], as, TRUE)
        BY <2>5, <3>3, SentTorn DEF Whole, WholeIn, as
      <4>2. q.torn = TRUE
        BY <2>2, <3>3 DEF Toggle
      <4>3. Sent(submitted[q.id], q.row, c, a, TRUE)
        BY <2>4, <4>2
      <4>4. Sent(submitted[q.id], q.row, c, as, TRUE)
        BY <4>1, <4>3 DEF Sent
      <4> QED
        BY <2>3, <4>2, <4>4
    <3> QED
      BY <3>1, <3>2, <3>3
  <2>7. LET new == ToggleBody(r, q.conditions, as) IN
        /\ new \in Request
        /\ Carries(new) => Holds(new, submitted[new.id], rulesets[new.id],
                                 ruleset_conditions[new.id], ruleset_actions[new.id])
    BY <2>1, <2>3, <2>4, <2>6, ToggleBodyHolds DEF q, as
  <2> QED
    BY <1>3, <2>1, <2>7
<1> QED
  BY <1>5, <1>6, <1>7, <1>8

-----------------------------------------------------------------------------
(* Batches                                                                 *)

\* A batch that writes one ruleset.
LEMMA StoreStep ==
  ASSUME RulesetInv, NEW r \in Requests, req[r] # Idle, req[r].op \in {"create", "update"},
         Store(r), UNCHANGED <<folders, submitted>>
  PROVE  RulesetInv'
<1> DEFINE id == req[r].id
           input == req[r].input
<1>1. /\ id \in Ids /\ input \in Input /\ req[r].torn \in BOOLEAN
      /\ Sent(submitted[id], input, input.conditions, input.actions, req[r].torn)
  BY CarriesInput
<1>2. /\ rulesets' = [rulesets EXCEPT ![id] = RowOf(input)]
      /\ ruleset_conditions' = [ruleset_conditions EXCEPT ![id] = input.conditions]
      /\ ruleset_actions' = [ruleset_actions EXCEPT ![id] = input.actions]
      /\ mixed' = IF req[r].torn THEN mixed \cup {id} ELSE mixed \ {id}
      /\ req' = [q \in Requests |-> IF q = r THEN Idle
                                    ELSE IF Reads(q, id) THEN [req[q] EXCEPT !.torn = TRUE]
                                    ELSE req[q]]
  BY DEF Store, Replace
<1>3. RowOf(input) \in Row /\ IsRowOf(RowOf(input), input)
  BY <1>1, RowOfInput DEF IsRowOf, RowOf
<1>4. ASSUME NEW p \in Requests, Reads(p, id)
      PROVE  /\ [req[p] EXCEPT !.torn = TRUE] \in Request
             /\ LET new == [req[p] EXCEPT !.torn = TRUE] IN
                /\ new.op = "toggle" /\ new.id = id /\ new.row = req[p].row /\ new.torn = TRUE
                /\ new.conditions = req[p].conditions /\ new.actions = req[p].actions
  <2>1. req[p] \in Toggle /\ req[p].op = "toggle" /\ req[p].id = id
    BY <1>4 DEF Reads, RulesetInv, TypeOK, Request, Idle, Toggle
  <2>2. [req[p] EXCEPT !.torn = TRUE] \in Toggle
    BY <2>1 DEF Toggle
  <2> QED
    BY <2>1, <2>2 DEF Toggle, Request
<1>5. TypeOK'
  <2>1. req' \in [Requests -> Request]
    BY <1>2, <1>4, IdleTyped DEF RulesetInv, TypeOK
  <2>2. input.conditions \in Conditions /\ input.actions \in Actions
    BY <1>1 DEF Input
  <2> QED
    BY <1>1, <1>2, <1>3, <2>1, <2>2 DEF RulesetInv, TypeOK
<1>6. /\ rulesets'[id] = RowOf(input) /\ ruleset_conditions'[id] = input.conditions
      /\ ruleset_actions'[id] = input.actions /\ (id \in mixed') = req[r].torn
      /\ \A i \in Ids : i # id => /\ rulesets'[i] = rulesets[i]
                                  /\ ruleset_conditions'[i] = ruleset_conditions[i]
                                  /\ ruleset_actions'[i] = ruleset_actions[i]
                                  /\ (i \in mixed') = (i \in mixed)
  BY <1>1, <1>2 DEF RulesetInv, TypeOK
<1> HIDE DEF id, input
<1>7. ASSUME NEW i \in Ids PROVE Whole(i)'
  <2>1. CASE i = id
    <3>1. Sent(submitted[id], RowOf(input), input.conditions, input.actions, req[r].torn)
      BY <1>1, <1>3, SentSameRow
    <3>2. RowOf(input) # Absent
      BY <1>3, RulesetAssumption
    <3> QED
      BY <1>6, <2>1, <3>1, <3>2 DEF Whole, WholeIn, Sent
  <2>2. CASE i # id
    <3>1. Whole(i)
      BY WholeDef DEF RulesetInv
    <3> QED
      BY <1>6, <2>2, <3>1 DEF Whole, WholeIn, Sent
  <2> QED
    BY <2>1, <2>2
<1>8. RequestsHold'
  <2> SUFFICES ASSUME NEW p \in Requests, Carries(req'[p])
               PROVE  Holds(req'[p], submitted[req'[p].id], rulesets'[req'[p].id],
                            ruleset_conditions'[req'[p].id], ruleset_actions'[req'[p].id])
    BY DEF RequestsHold, Carries
  <2>1. p # r
    BY <1>2 DEF Carries
  <2>2. CASE Reads(p, id)
    <3> DEFINE new == [req[p] EXCEPT !.torn = TRUE]
    <3>1. req'[p] = new
      BY <1>2, <2>1, <2>2
    <3>2. /\ new.op = "toggle" /\ new.id = id /\ new.row = req[p].row /\ new.torn = TRUE
          /\ new.conditions = req[p].conditions /\ new.actions = req[p].actions
      BY <1>4, <2>2
    <3> HIDE DEF new
    <3>3. ReadsSent(req[p], submitted[id], rulesets[id], ruleset_conditions[id], ruleset_actions[id])
      BY <2>2 DEF RulesetInv, RequestsHold, Carries, Reads, Holds
    <3>4. PICK c \in Conditions, a \in Actions :
            /\ Sent(submitted[id], req[p].row, c, a, req[p].torn)
            /\ req[p].conditions \in {Null, <<>>, c} /\ req[p].actions \in {Null, <<>>, a}
      BY <3>3 DEF ReadsSent
    <3>5. Sent(submitted[id], new.row, c, a, new.torn)
      BY <3>2, <3>4, SentTorn
    <3>6. ReadsSent(new, submitted[id], rulesets'[id], ruleset_conditions'[id], ruleset_actions'[id])
      BY <3>2, <3>4, <3>5 DEF ReadsSent
    <3> QED
      BY <3>1, <3>2, <3>6 DEF Holds
  <2>3. CASE ~Reads(p, id)
    <3>1. req'[p] = req[p] /\ req[p] \in Request
      BY <1>2, <2>1, <2>3 DEF RulesetInv, TypeOK
    <3>2. Holds(req[p], submitted[req[p].id], rulesets[req[p].id],
                ruleset_conditions[req[p].id], ruleset_actions[req[p].id])
          /\ req[p].id \in Ids
      BY <3>1, CarriesId DEF RulesetInv, RequestsHold
    <3>3. CASE req[p].op = "toggle"
      <4>1. req[p].id # id
        BY <2>3, <3>1, <3>3 DEF Reads, Carries
      <4> QED
        BY <1>6, <3>1, <3>2, <4>1
    <3>4. CASE req[p].op # "toggle"
      BY <3>1, <3>2, <3>4 DEF Holds
    <3> QED
      BY <3>3, <3>4
  <2> QED
    BY <2>2, <2>3
<1> QED
  BY <1>5, <1>7, <1>8 DEF RulesetInv, StoredWhole, Whole, WholeIn, Sent

\* A batch that changes nothing of a ruleset but its flag, or that deletes it.
LEMMA WriteStep ==
  ASSUME RulesetInv, NEW r \in Requests, Goes(r, Idle), UNCHANGED ghosts,
         folders' \subseteq folders, rulesets' \in [Ids -> Row \cup {Absent}],
         ruleset_conditions' \in [Ids -> Conditions], ruleset_actions' \in [Ids -> Actions],
         \A id \in Ids :
           \/ /\ rulesets'[id] = Absent
              /\ ruleset_conditions'[id] = <<>> /\ ruleset_actions'[id] = <<>>
           \/ /\ rulesets'[id] # Absent /\ rulesets[id] # Absent
              /\ IsRowOf(rulesets'[id], rulesets[id])
              /\ ruleset_conditions'[id] = ruleset_conditions[id]
              /\ ruleset_actions'[id] = ruleset_actions[id]
  PROVE  RulesetInv'
<1> USE DEF ghosts
<1>1. TypeOK'
  BY IdleTyped DEF RulesetInv, TypeOK, Goes
<1>2. ASSUME NEW i \in Ids PROVE Whole(i)'
  <2>1. Whole(i)
    BY WholeDef DEF RulesetInv
  <2>2. CASE rulesets'[i] = Absent
    BY <2>2 DEF Whole, WholeIn
  <2>3. CASE rulesets'[i] # Absent
    <3>1. /\ rulesets[i] # Absent /\ IsRowOf(rulesets'[i], rulesets[i])
          /\ ruleset_conditions'[i] = ruleset_conditions[i]
          /\ ruleset_actions'[i] = ruleset_actions[i]
      BY <2>3
    <3> QED
      BY <2>1, <2>3, <3>1 DEF Whole, WholeIn, Sent, IsRowOf
  <2> QED
    BY <2>2, <2>3
<1>3. RequestsHold'
  <2> SUFFICES ASSUME NEW p \in Requests, Carries(req'[p])
               PROVE  Holds(req'[p], submitted[req'[p].id], rulesets'[req'[p].id],
                            ruleset_conditions'[req'[p].id], ruleset_actions'[req'[p].id])
    BY DEF RequestsHold, Carries
  <2>1. req'[p] = req[p] /\ req[p] \in Request
    BY DEF Goes, Carries, RulesetInv, TypeOK
  <2> DEFINE q == req[p]
             id == q.id
  <2>2. id \in Ids /\ Holds(q, submitted[id], rulesets[id], ruleset_conditions[id], ruleset_actions[id])
    BY <2>1, CarriesId DEF RulesetInv, RequestsHold
  <2> HIDE DEF q, id
  <2>3. ASSUME q.op = "toggle"
        PROVE  ReadsSent(q, submitted[id], rulesets'[id], ruleset_conditions'[id], ruleset_actions'[id])
    <3>1. PICK c \in Conditions, a \in Actions :
            /\ Sent(submitted[id], q.row, c, a, q.torn)
            /\ q.conditions \in {Null, <<>>, c} /\ q.actions \in {Null, <<>>, a}
            /\ ~q.torn => \/ rulesets[id] = Absent
                          \/ /\ IsRowOf(rulesets[id], q.row)
                             /\ ruleset_conditions[id] = c /\ ruleset_actions[id] = a
      BY <2>2, <2>3 DEF Holds, ReadsSent
    <3>2. ~q.torn => \/ rulesets'[id] = Absent
                     \/ /\ IsRowOf(rulesets'[id], q.row)
                        /\ ruleset_conditions'[id] = c /\ ruleset_actions'[id] = a
      BY <2>2, <3>1 DEF IsRowOf
    <3> QED
      BY <3>1, <3>2 DEF ReadsSent
  <2> QED
    BY <2>1, <2>2, <2>3 DEF Holds, q, id
<1> QED
  BY <1>1, <1>2, <1>3 DEF RulesetInv, StoredWhole, Whole, WholeIn, Sent

LEMMA CommitDeleteStep ==
  ASSUME RulesetInv, NEW r \in Requests, CommitDelete(r)
  PROVE  RulesetInv'
<1>1. UNCHANGED ghosts /\ folders' \subseteq folders /\ Goes(r, Idle)
  BY DEF CommitDelete
<1>2. /\ rulesets' \in [Ids -> Row \cup {Absent}]
      /\ ruleset_conditions' \in [Ids -> Conditions] /\ ruleset_actions' \in [Ids -> Actions]
  BY EmptyIsTyped DEF RulesetInv, TypeOK, CommitDelete
<1>3. ASSUME NEW id \in Ids
      PROVE  \/ /\ rulesets'[id] = Absent
                /\ ruleset_conditions'[id] = <<>> /\ ruleset_actions'[id] = <<>>
             \/ /\ rulesets'[id] = rulesets[id] /\ ruleset_conditions'[id] = ruleset_conditions[id]
                /\ ruleset_actions'[id] = ruleset_actions[id]
  BY DEF RulesetInv, TypeOK, CommitDelete
<1>4. \A id \in Ids : rulesets[id] = Absent => ruleset_conditions[id] = <<>> /\ ruleset_actions[id] = <<>>
  BY DEF RulesetInv, StoredWhole
<1> QED
  BY <1>1, <1>2, <1>3, <1>4, WriteStep DEF IsRowOf

LEMMA DropFolderStep ==
  ASSUME RulesetInv, NEW r \in Requests, DropFolder(r)
  PROVE  RulesetInv'
<1>1. UNCHANGED <<ghosts, ruleset_conditions, ruleset_actions>> /\ folders' \subseteq folders
      /\ Goes(r, Idle)
  BY DEF DropFolder
<1>2. ASSUME NEW id \in Ids, rulesets[id] # Absent
      PROVE  /\ [rulesets[id] EXCEPT !.is_enabled = FALSE] \in Row
             /\ IsRowOf([rulesets[id] EXCEPT !.is_enabled = FALSE], rulesets[id])
  BY <1>2 DEF RulesetInv, TypeOK, Row, IsRowOf
<1>3. \A id \in Ids : rulesets'[id] = rulesets[id]
                     \/ (rulesets[id] # Absent /\ rulesets'[id] = [rulesets[id] EXCEPT !.is_enabled = FALSE])
  BY DEF DropFolder
<1>4. rulesets' \in [Ids -> Row \cup {Absent}]
  BY <1>2 DEF RulesetInv, TypeOK, DropFolder
<1>5. ruleset_conditions' \in [Ids -> Conditions] /\ ruleset_actions' \in [Ids -> Actions]
  BY <1>1 DEF RulesetInv, TypeOK
<1>6. \A id \in Ids : rulesets[id] = Absent => ruleset_conditions[id] = <<>> /\ ruleset_actions[id] = <<>>
  BY DEF RulesetInv, StoredWhole
<1>7. ASSUME NEW id \in Ids
      PROVE  \/ /\ rulesets'[id] = Absent
                /\ ruleset_conditions'[id] = <<>> /\ ruleset_actions'[id] = <<>>
             \/ /\ rulesets'[id] # Absent /\ rulesets[id] # Absent
                /\ IsRowOf(rulesets'[id], rulesets[id])
                /\ ruleset_conditions'[id] = ruleset_conditions[id]
                /\ ruleset_actions'[id] = ruleset_actions[id]
  <2>1. CASE rulesets[id] = Absent
    BY <1>1, <1>3, <1>6, <2>1
  <2>2. CASE rulesets[id] # Absent
    <3>1. [rulesets[id] EXCEPT !.is_enabled = FALSE] # Absent
      BY <1>2, <2>2, RulesetAssumption
    <3> QED
      BY <1>1, <1>2, <1>3, <2>2, <3>1 DEF IsRowOf
  <2> QED
    BY <2>1, <2>2
<1> QED
  BY <1>1, <1>4, <1>5, <1>7, WriteStep

LEMMA NextInv == RulesetInv /\ [Next]_vars => RulesetInv'
<1> SUFFICES ASSUME RulesetInv, [Next]_vars PROVE RulesetInv'
  OBVIOUS
<1>1. ASSUME NEW r \in Requests, CommitCreate(r) PROVE RulesetInv'
  BY <1>1, StoreStep DEF CommitCreate, At
<1>2. ASSUME NEW r \in Requests, CommitUpdate(r) PROVE RulesetInv'
  <2>1. CASE rulesets[req[r].id] = Absent
    <3>1. UNCHANGED <<tables, ghosts>> /\ Goes(r, Idle)
      BY <1>2, <2>1 DEF CommitUpdate, tables, ghosts
    <3> QED
      BY <3>1, EndStep
  <2>2. CASE rulesets[req[r].id] # Absent
    BY <1>2, <2>2, StoreStep DEF CommitUpdate, At
  <2> QED
    BY <2>1, <2>2
<1>3. ASSUME NEW e \in Emails,
             SelectEnabled(e) \/ SelectConditions(e) \/ SelectActions(e) \/ ChooseFolder(e) \/ StoreMail(e)
      PROVE  RulesetInv'
  <2>1. UNCHANGED <<tables, ghosts, req>>
    BY <1>3 DEF SelectEnabled, SelectConditions, SelectActions, ChooseFolder, StoreMail
  <2> QED
    BY <2>1, QuietStep
<1>4. CASE UNCHANGED vars
  <2>1. UNCHANGED <<tables, ghosts, req>>
    BY <1>4 DEF vars
  <2> QED
    BY <2>1, QuietStep
<1> QED
  BY <1>1, <1>2, <1>3, <1>4, BeginStep, MiddleStep, CommitDeleteStep, DropFolderStep DEF Next

\* Whatever creates, updates, toggles, deletions and folder deletions overlap, the
\* three tables hold one form's contents for a ruleset, complete, or nothing of it;
\* only what a toggle puts back that read over another write may be of several
\* forms, and only until a form replaces it (rulesets/service.ts batches,
\* folders/service.ts:152).
THEOREM RulesetsStoredWhole == Spec => []StoredWhole
<1>1. RulesetInv => StoredWhole
  BY DEF RulesetInv
<1> QED
  BY <1>1, InitInv, NextInv, PTL DEF Spec

-----------------------------------------------------------------------------
(* Loops                                                                   *)

\* Numbers of which some has a property have a least one.
LEMMA LeastNumber ==
  ASSUME NEW S \in SUBSET Nat, S # {}
  PROVE  \E n \in S : \A k \in S : n <= k
<1> DEFINE less == OpToRel(<, Nat)
<1>1. \A x, y \in Nat : x < y => <<x, y>> \in less
  BY DEF OpToRel
<1>2. IsWellFoundedOn(less, Nat)
  BY NatLessThanWellFounded
<1> HIDE DEF less
<1>3. PICK x \in S : \A y \in S : ~(<<y, x>> \in less)
  BY <1>2, WFMin
<1>4. \A y \in S : x <= y
  <2> SUFFICES ASSUME NEW y \in S, y < x PROVE FALSE
    OBVIOUS
  <2> QED
    BY <1>1, <1>3
<1> QED
  BY <1>4

\* What a loop's variable is after each of its turns.
RunOf(f, base, step, N) ==
  f[0] = base /\ \A n \in 1..N : f[n] = step[<<f[n - 1], n>>]

\* A loop of N turns has a run.
LEMMA LoopRuns ==
  ASSUME NEW S, NEW base \in S, NEW N \in Nat, NEW step \in [S \X (1..N) -> S]
  PROVE  \E f \in [0..N -> S] : RunOf(f, base, step, N)
<1> DEFINE Runs(f, k) == f[0] = base /\ \A n \in 1..k : f[n] = step[<<f[n - 1], n>>]
           stuck == {k \in 0..N : ~ \E f \in [0..k -> S] : Runs(f, k)}
<1> SUFFICES \E f \in [0..N -> S] : Runs(f, N)
  BY DEF RunOf
<1>1. SUFFICES ASSUME stuck # {} PROVE FALSE
  <2> SUFFICES ASSUME stuck = {} PROVE \E f \in [0..N -> S] : Runs(f, N)
    OBVIOUS
  <2> HIDE DEF Runs
  <2> QED
    BY N \in 0..N
<1>2. PICK k \in stuck : \A n \in stuck : k <= n
  <2> HIDE DEF Runs
  <2>1. stuck \in SUBSET Nat
    OBVIOUS
  <2> HIDE DEF stuck
  <2> QED
    BY <1>1, <2>1, LeastNumber
<1>3. k \in 0..N /\ ~ \E f \in [0..k -> S] : Runs(f, k)
  BY <1>2
<1>4. k # 0
  <2>1. SUFFICES ASSUME k = 0 PROVE FALSE
    OBVIOUS
  <2>2. [n \in 0..k |-> base] \in [0..k -> S] /\ Runs([n \in 0..k |-> base], k)
    BY <2>1
  <2> HIDE DEF Runs
  <2> QED
    BY <1>3, <2>2
<1>5. k \in 1..N /\ k - 1 \in 0..N /\ k - 1 < k
  BY <1>3, <1>4
<1>6. k - 1 \notin stuck
  <2> HIDE DEF stuck, Runs
  <2> QED
    BY <1>2, <1>5
<1>7. PICK f \in [0..(k - 1) -> S] : Runs(f, k - 1)
  <2> HIDE DEF Runs
  <2> QED
    BY <1>5, <1>6
<1> HIDE DEF stuck
<1>8. f[k - 1] \in S /\ step[<<f[k - 1], k>>] \in S
  <2>1. f[k - 1] \in S
    BY <1>5, <1>7
  <2>2. <<f[k - 1], k>> \in S \X (1..N)
    BY <1>5, <2>1
  <2> QED
    BY <2>1, <2>2
<1> DEFINE g == [n \in 0..k |-> IF n = k THEN step[<<f[k - 1], k>>] ELSE f[n]]
<1>9. g \in [0..k -> S]
  BY <1>5, <1>7, <1>8
<1>10. Runs(g, k)
  <2>1. g[0] = base
    BY <1>5, <1>7
  <2>2. ASSUME NEW n \in 1..k PROVE g[n] = step[<<g[n - 1], n>>]
    <3>1. n - 1 \in 0..k /\ n - 1 # k /\ g[n - 1] = f[n - 1]
      BY <1>5
    <3>2. CASE n = k
      BY <3>1, <3>2, <1>5
    <3>3. CASE n # k
      <4>1. n \in 1..(k - 1) /\ n \in 0..k
        BY <3>3, <1>5
      <4>2. f[n] = step[<<f[n - 1], n>>]
        BY <4>1, <1>7
      <4> QED
        BY <3>1, <3>3, <4>1, <4>2
    <3> QED
      BY <3>2, <3>3
  <2> QED
    BY <2>1, <2>2
<1> HIDE DEF Runs, g
<1> QED
  BY <1>3, <1>9, <1>10

-----------------------------------------------------------------------------
(* What the engine computes                                                *)

Folder == CustomFolders \cup {Inbox, Null}
Decision ==
  [matched : BOOLEAN, folder_id : Folder, is_starred : BOOLEAN, is_read : BOOLEAN,
   matched_ruleset_ids : Seq(Ids)]
Action == [action_type : ActionTypes, action_value : Folder]
Evaluables ==
  [id : Ids, priority : Nat, logic_operator : {"AND", "OR"},
   conditions : Conditions, actions : Actions]

LEMMA ActionsDef == Actions = Seq(Action)
BY DEF Actions, Action, Folder

IsMove(action) == action.action_type = "move_to_folder" /\ action.action_value # Null

\* Decision e is decision d after the first n of the actions.
Acted(e, d, actions, n) ==
  /\ e \in Decision
  /\ e.matched = d.matched /\ e.matched_ruleset_ids = d.matched_ruleset_ids
  /\ e.is_starred = TRUE <=>
       d.is_starred = TRUE \/ \E i \in 1..n : actions[i].action_type = "mark_as_star"
  /\ e.is_read = TRUE <=>
       d.is_read = TRUE \/ \E i \in 1..n : actions[i].action_type = "mark_as_read"
  /\ IF \A i \in 1..n : ~IsMove(actions[i]) THEN e.folder_id = d.folder_id
     ELSE \E p \in 1..n :
            /\ IsMove(actions[p]) /\ e.folder_id = actions[p].action_value
            /\ \A q \in 1..n : IsMove(actions[q]) => q <= p

LEMMA ApplyActionTyped ==
  ASSUME NEW d \in Decision, NEW action \in Action
  PROVE  ApplyAction(d, action) \in Decision
BY DEF Decision, Action, ActionTypes, ApplyAction

LEMMA OneMoreAction ==
  ASSUME NEW d \in Decision, NEW e \in Decision, NEW actions \in Actions,
         NEW n \in 1..Len(actions), Acted(e, d, actions, n - 1)
  PROVE  Acted(ApplyAction(e, actions[n]), d, actions, n)
<1> DEFINE action == actions[n]
           f == ApplyAction(e, action)
<1>1. action \in Action /\ n \in Nat /\ n >= 1
  BY ActionsDef
<1>2. \A i \in Int : i \in 1..n <=> (i \in 1..(n - 1) \/ i = n)
  BY <1>1
<1>3. f \in Decision
  BY <1>1, ApplyActionTyped
<1>4. f.matched = d.matched /\ f.matched_ruleset_ids = d.matched_ruleset_ids
  BY <1>1 DEF Acted, ApplyAction, Action, ActionTypes, Decision
<1>5. f.is_starred = TRUE <=> e.is_starred = TRUE \/ action.action_type = "mark_as_star"
  BY <1>1 DEF ApplyAction, Action, ActionTypes, Decision
<1>6. f.is_read = TRUE <=> e.is_read = TRUE \/ action.action_type = "mark_as_read"
  BY <1>1 DEF ApplyAction, Action, ActionTypes, Decision
<1>7. IF IsMove(action) THEN f.folder_id = action.action_value ELSE f.folder_id = e.folder_id
  BY <1>1 DEF ApplyAction, Action, ActionTypes, Decision, IsMove
<1> HIDE DEF f
<1>8. f.is_starred = TRUE <=>
       d.is_starred = TRUE \/ \E i \in 1..n : actions[i].action_type = "mark_as_star"
  BY <1>2, <1>5 DEF Acted
<1>9. f.is_read = TRUE <=>
       d.is_read = TRUE \/ \E i \in 1..n : actions[i].action_type = "mark_as_read"
  BY <1>2, <1>6 DEF Acted
<1>10. IF \A i \in 1..n : ~IsMove(actions[i]) THEN f.folder_id = d.folder_id
       ELSE \E p \in 1..n :
              /\ IsMove(actions[p]) /\ f.folder_id = actions[p].action_value
              /\ \A q \in 1..n : IsMove(actions[q]) => q <= p
  <2>1. CASE IsMove(action)
    <3>1. n \in 1..n /\ \A q \in 1..n : q <= n
      BY <1>1
    <3> QED
      BY <2>1, <3>1, <1>7
  <2>2. CASE ~IsMove(action)
    <3>1. CASE \A i \in 1..(n - 1) : ~IsMove(actions[i])
      BY <2>2, <3>1, <1>2, <1>7 DEF Acted
    <3>2. CASE \E i \in 1..(n - 1) : IsMove(actions[i])
      <4>1. PICK p \in 1..(n - 1) :
              /\ IsMove(actions[p]) /\ e.folder_id = actions[p].action_value
              /\ \A q \in 1..(n - 1) : IsMove(actions[q]) => q <= p
        BY <3>2 DEF Acted
      <4>2. p \in 1..n /\ \A q \in 1..n : IsMove(actions[q]) => q <= p
        BY <4>1, <2>2, <1>2
      <4> QED
        BY <4>1, <4>2, <2>2, <1>7
    <3> QED
      BY <3>1, <3>2
  <2> QED
    BY <2>1, <2>2
<1> QED
  BY <1>3, <1>4, <1>8, <1>9, <1>10 DEF Acted, f

\* What the loop over the actions of a ruleset does.
LEMMA ActDoes ==
  ASSUME NEW d \in Decision, NEW actions \in Actions
  PROVE  Acted(Act(d, actions), d, actions, Len(actions))
<1> DEFINE N == Len(actions)
           step == [x \in Decision \X (1..N) |-> ApplyAction(x[1], actions[x[2]])]
           after == CHOOSE f : f = [n \in 0..N |-> IF n = 0 THEN d ELSE ApplyAction(f[n - 1], actions[n])]
<1>1. N \in Nat /\ \A n \in 1..N : actions[n] \in Action
  BY ActionsDef
<1>2. step \in [Decision \X (1..N) -> Decision]
  BY <1>1, ApplyActionTyped
<1>3. PICK g \in [0..N -> Decision] : RunOf(g, d, step, N)
  <2> HIDE DEF step, N, after
  <2> QED
    BY <1>1, <1>2, LoopRuns
<1>4. g = [n \in 0..N |-> IF n = 0 THEN d ELSE ApplyAction(g[n - 1], actions[n])]
  <2>1. ASSUME NEW n \in 0..N PROVE g[n] = IF n = 0 THEN d ELSE ApplyAction(g[n - 1], actions[n])
    <3>1. CASE n = 0
      BY <3>1, <1>3 DEF RunOf
    <3>2. CASE n # 0
      <4>1. n \in 1..N /\ n - 1 \in 0..N
        BY <3>2, <1>1
      <4>2. <<g[n - 1], n>> \in Decision \X (1..N)
        BY <4>1, <1>3
      <4>3. step[<<g[n - 1], n>>] = ApplyAction(g[n - 1], actions[n])
        BY <4>2
      <4> QED
        BY <3>2, <4>1, <4>3, <1>3 DEF RunOf
    <3> QED
      BY <3>1, <3>2
  <2> QED
    BY <2>1, <1>3
<1>5. after = [n \in 0..N |-> IF n = 0 THEN d ELSE ApplyAction(after[n - 1], actions[n])]
  BY <1>4
<1>6. Act(d, actions) = after[N]
  BY DEF Act
<1> HIDE DEF after, step, N
<1> DEFINE wrong == {n \in 0..N : ~Acted(after[n], d, actions, n)}
<1>7. wrong = {}
  <2>1. SUFFICES ASSUME wrong # {} PROVE FALSE
    OBVIOUS
  <2>2. PICK n \in wrong : \A k \in wrong : n <= k
    <3>1. wrong \in SUBSET Nat
      BY <1>1
    <3> HIDE DEF wrong
    <3> QED
      BY <2>1, <3>1, LeastNumber
  <2>3. CASE n = 0
    <3>1. after[n] = d
      BY <1>1, <1>5, <2>3
    <3>2. Acted(d, d, actions, 0)
      <4>1. d.is_starred \in BOOLEAN /\ d.is_read \in BOOLEAN
        BY DEF Decision
      <4>2. \A i \in 1..0 : FALSE
        OBVIOUS
      <4> QED
        BY <4>1, <4>2 DEF Acted
    <3> QED
      BY <2>2, <2>3, <3>1, <3>2
  <2>4. CASE n # 0
    <3>1. n \in 1..N /\ n - 1 \in 0..N /\ n - 1 \notin wrong
      BY <1>1, <2>2, <2>4
    <3>2. Acted(after[n - 1], d, actions, n - 1) /\ after[n - 1] \in Decision
      BY <3>1 DEF Acted
    <3>3. after[n] = ApplyAction(after[n - 1], actions[n])
      BY <1>5, <3>1
    <3>4. Acted(ApplyAction(after[n - 1], actions[n]), d, actions, n)
      BY <3>1, <3>2, OneMoreAction DEF N
    <3> QED
      BY <2>2, <3>3, <3>4
  <2> QED
    BY <2>3, <2>4
<1>8. N \in 0..N
  BY <1>1
<1>9. Acted(after[N], d, actions, N)
  BY <1>7, <1>8
<1> QED
  BY <1>6, <1>9 DEF N

-----------------------------------------------------------------------------
(* The order of the rulesets                                               *)

\* Among sets of elements of a finite set one can be chosen that is minimal.
LEMMA SmallestSet ==
  ASSUME NEW S, IsFiniteSet(S), NEW family \in SUBSET SUBSET S, family # {}
  PROVE  \E T \in family : \A x \in T : T \ {x} \notin family
<1>1. FiniteSubsetsOf(S) = SUBSET S
  BY FS_FiniteSubsetsOfFinite
<1>2. IsWellFoundedOn(StrictSubsetOrdering(S), SUBSET S)
  BY <1>1, FS_StrictSubsetOrderingWellFounded
<1>3. PICK T \in family : \A U \in family : ~(<<U, T>> \in StrictSubsetOrdering(S))
  BY <1>2, WFMin
<1>4. ASSUME NEW x \in T PROVE T \ {x} \notin family
  <2>1. <<T \ {x}, T>> \in StrictSubsetOrdering(S)
    BY DEF StrictSubsetOrdering
  <2> QED
    BY <1>3, <2>1
<1> QED
  BY <1>4

\* Rulesets as they are read: no two with the same id.
Different(R) == R \in SUBSET Evaluables /\ IsFiniteSet(R) /\ \A a, b \in R : a.id = b.id => a = b

LEMMA PrecedesOrders ==
  ASSUME NEW R, Different(R)
  PROVE  /\ \A a, b \in R : a = b \/ Precedes(a, b) \/ Precedes(b, a)
         /\ \A a, b, c \in R : Precedes(a, b) /\ Precedes(b, c) => Precedes(a, c)
         /\ \A a \in R : ~Precedes(a, a)
<1>1. ASSUME NEW a \in R PROVE a.id \in Int /\ a.priority \in Int
  <2>1. a \in Evaluables
    BY DEF Different
  <2> QED
    <3>1. a.id \in Ids /\ a.priority \in Nat
      BY <2>1 DEF Evaluables
    <3>2. Ids \subseteq Int
      BY RulesetAssumption
    <3>3. a.id \in Int
      BY <3>1, <3>2
    <3>4. a.priority \in Int
      BY <3>1
    <3> QED
      BY <3>3, <3>4
<1> QED
  BY <1>1 DEF Precedes, Different

LEMMA LastRuleset ==
  ASSUME NEW R, Different(R), R # {}
  PROVE  \E r \in R : \A x \in R : x = r \/ Precedes(x, r)
<1> DEFINE Endless(T) == T # {} /\ \A r \in T : \E x \in T : ~(x = r \/ Precedes(x, r))
           family == {T \in SUBSET R : Endless(T)}
<1>1. SUFFICES ASSUME family # {} PROVE FALSE
  OBVIOUS
<1>2. PICK T \in family : \A x \in T : T \ {x} \notin family
  <2>1. family \in SUBSET SUBSET R /\ IsFiniteSet(R)
    BY DEF Different
  <2> HIDE DEF family
  <2> QED
    BY <1>1, <2>1, SmallestSet
<1>3. PICK x \in T : TRUE
  BY <1>2
<1>4. CASE T \ {x} = {}
  BY <1>2, <1>3, <1>4
<1>5. CASE T \ {x} # {}
  <2>1. PICK r \in T \ {x} : \A y \in T \ {x} : y = r \/ Precedes(y, r)
    BY <1>2, <1>3, <1>5
  <2>2. x \in R /\ r \in R /\ T \subseteq R
    BY <1>2, <1>3
  <2>3. CASE Precedes(x, r)
    BY <1>2, <2>1, <2>3
  <2>4. CASE Precedes(r, x)
    <3>1. \A y \in T : y = x \/ Precedes(y, x)
      BY <2>1, <2>2, <2>4, PrecedesOrders
    <3> QED
      BY <1>2, <1>3, <3>1
  <2> QED
    BY <2>1, <2>2, <2>3, <2>4, PrecedesOrders
<1> QED
  BY <1>4, <1>5

Sorted(s, R) ==
  /\ s \in [1..Cardinality(R) -> R]
  /\ \A i, j \in DOMAIN s : i < j => Precedes(s[i], s[j])

LEMMA SortedExists ==
  ASSUME NEW R, Different(R)
  PROVE  \E s : Sorted(s, R)
<1> DEFINE family == {T \in SUBSET R : ~ \E s : Sorted(s, T)}
<1>1. SUFFICES ASSUME family # {} PROVE FALSE
  OBVIOUS
<1>2. PICK T \in family : \A x \in T : T \ {x} \notin family
  <2>1. family \in SUBSET SUBSET R /\ IsFiniteSet(R)
    BY DEF Different
  <2> HIDE DEF family
  <2> QED
    BY <1>1, <2>1, SmallestSet
<1>3. T \subseteq R /\ Different(T)
  <2>1. IsFiniteSet(T)
    BY FS_Subset DEF Different
  <2> QED
    BY <2>1 DEF Different
<1>4. T # {}
  <2>1. SUFFICES ASSUME T = {} PROVE FALSE
    OBVIOUS
  <2>2. Cardinality(T) = 0
    BY <2>1, FS_EmptySet
  <2>3. [i \in 1..0 |-> 0] \in [1..0 -> T] /\ DOMAIN [i \in 1..0 |-> 0] = 1..0
    OBVIOUS
  <2>4. Sorted([i \in 1..0 |-> 0], T)
    BY <2>2, <2>3 DEF Sorted
  <2> QED
    BY <1>2, <2>4
<1>5. PICK r \in T : \A x \in T : x = r \/ Precedes(x, r)
  BY <1>3, <1>4, LastRuleset
<1>6. PICK s : Sorted(s, T \ {r})
  BY <1>2, <1>5
<1> DEFINE N == Cardinality(T)
           t == [i \in 1..N |-> IF i = N THEN r ELSE s[i]]
<1>7. N \in Nat /\ N >= 1 /\ Cardinality(T \ {r}) = N - 1
  <2>1. N \in Nat
    BY <1>3, FS_CardinalityType DEF Different
  <2>2. Cardinality(T \ {r}) = N - 1 /\ IsFiniteSet(T \ {r})
    BY <1>3, FS_RemoveElement DEF Different
  <2>3. Cardinality(T \ {r}) \in Nat
    BY <2>2, FS_CardinalityType
  <2> QED
    BY <2>1, <2>2, <2>3
<1> HIDE DEF N
<1>8. s \in [1..(N - 1) -> T \ {r}] /\ \A i, j \in 1..(N - 1) : i < j => Precedes(s[i], s[j])
  BY <1>6, <1>7 DEF Sorted
<1>9. t \in [1..N -> T]
  BY <1>7, <1>8
<1>10. ASSUME NEW i \in 1..N, NEW j \in 1..N, i < j PROVE Precedes(t[i], t[j])
  <2>1. i \in 1..(N - 1) /\ t[i] = s[i]
    BY <1>7, <1>10
  <2>2. CASE j = N
    BY <1>5, <1>8, <2>1, <2>2
  <2>3. CASE j # N
    <3>1. j \in 1..(N - 1) /\ t[j] = s[j]
      BY <1>7, <2>3
    <3> QED
      BY <1>8, <1>10, <2>1, <3>1
  <2> QED
    BY <2>2, <2>3
<1>11. Sorted(t, T)
  <2>1. DOMAIN t = 1..N
    OBVIOUS
  <2> QED
    BY <1>9, <1>10, <2>1 DEF Sorted, N
<1> QED
  BY <1>2, <1>11

\* The rulesets come one after the other, each once.
LEMMA InOrderSorts ==
  ASSUME NEW R, Different(R)
  PROVE  LET s == InOrder(R) N == Cardinality(R)
         IN  /\ N \in Nat /\ s \in [1..N -> R] /\ Len(s) = N
             /\ \A i, j \in 1..N : i < j => Precedes(s[i], s[j])
             /\ \A r \in R : \E i \in 1..N : s[i] = r
<1> DEFINE s == InOrder(R)
           N == Cardinality(R)
<1>1. Sorted(s, R)
  BY SortedExists DEF InOrder, Sorted
<1>2. N \in Nat
  BY FS_CardinalityType DEF Different
<1>3. s \in [1..N -> R] /\ \A i, j \in 1..N : i < j => Precedes(s[i], s[j])
  BY <1>1 DEF Sorted
<1> HIDE DEF s
<1>4. \A i, j \in 1..N : s[i] = s[j] => i = j
  <2> SUFFICES ASSUME NEW i \in 1..N, NEW j \in 1..N, s[i] = s[j], i # j PROVE FALSE
    OBVIOUS
  <2>1. Precedes(s[i], s[j]) \/ Precedes(s[j], s[i])
    BY <1>2, <1>3
  <2>2. s[i] \in R /\ s[j] \in R
    BY <1>3
  <2> QED
    BY <2>1, <2>2, PrecedesOrders
<1>5. s \in Injection(1..N, R)
  BY <1>3, <1>4 DEF Injection, IsInjective
<1>6. Cardinality(1..N) = N
  <2>1. Cardinality(1..N) = IF 1 > N THEN 0 ELSE N - 1 + 1
    BY <1>2, FS_Interval
  <2> QED
    BY <1>2, <2>1
<1>7. s \in Surjection(1..N, R)
  BY <1>5, <1>6, FS_Injection DEF Different
<1>8. \A r \in R : \E i \in 1..N : s[i] = r
  BY <1>7 DEF Surjection
<1>9. Len(s) = N
  BY <1>2, <1>3
<1> QED
  BY <1>2, <1>3, <1>8, <1>9 DEF s

-----------------------------------------------------------------------------
(* The loop over the rulesets                                              *)

Marks(type, A) ==
  \E rs \in A : \E i \in 1..Len(rs.actions) : rs.actions[i].action_type = type

\* The ids are those of the rulesets A, in their order.
Lists(ids, A) ==
  /\ \A i \in 1..Len(ids) : \E a \in A : ids[i] = a.id
  /\ \A a \in A : \E i \in 1..Len(ids) : ids[i] = a.id
  /\ Len(ids) = Cardinality(A)
  /\ \A a, b \in A : Precedes(a, b) =>
       \E i, j \in 1..Len(ids) : i < j /\ ids[i] = a.id /\ ids[j] = b.id

\* The folder is that of the last move of the rulesets A.
Files(folder, A) ==
  IF \A rs \in A : \A i \in 1..Len(rs.actions) : ~IsMove(rs.actions[i]) THEN folder = Null
  ELSE \E rs \in A : \E i \in 1..Len(rs.actions) :
         /\ IsMove(rs.actions[i]) /\ folder = rs.actions[i].action_value
         /\ \A x \in A : \A j \in 1..Len(x.actions) :
              IsMove(x.actions[j]) => Precedes(x, rs) \/ (x = rs /\ j <= i)

\* Decision e is what the rulesets A, which have all acted, make of NoDecision.
Turned(e, A) ==
  /\ e \in Decision
  /\ e.matched = TRUE <=> A # {}
  /\ e.is_starred = TRUE <=> Marks("mark_as_star", A)
  /\ e.is_read = TRUE <=> Marks("mark_as_read", A)
  /\ Lists(e.matched_ruleset_ids, A)
  /\ Files(e.folder_id, A)

LEMMA AppendLists ==
  ASSUME NEW R, Different(R), NEW A \in SUBSET R, NEW r \in R, \A x \in A : Precedes(x, r),
         NEW ids \in Seq(Ids), Lists(ids, A)
  PROVE  Lists(Append(ids, r.id), A \cup {r})
<1> DEFINE n == Len(ids)
           more == Append(ids, r.id)
<1>1. n \in Nat /\ Len(more) = n + 1 /\ more[n + 1] = r.id /\ \A i \in 1..n : more[i] = ids[i]
  <2>1. r.id \in Ids
    BY DEF Different, Evaluables
  <2> QED
    BY <2>1
<1> HIDE DEF more
<1>2. n + 1 \in 1..(n + 1) /\ \A i \in 1..n : i \in 1..(n + 1) /\ i < n + 1
  BY <1>1
<1>3. \A i \in 1..(n + 1) : i \in 1..n \/ i = n + 1
  BY <1>1
<1>4. r \notin A
  BY PrecedesOrders
<1>5. Cardinality(A \cup {r}) = n + 1
  <2>1. IsFiniteSet(A)
    BY FS_Subset DEF Different
  <2>2. Cardinality(A \cup {r}) = Cardinality(A) + 1
    BY <1>4, <2>1, FS_AddElement
  <2> QED
    BY <2>2 DEF Lists
<1>6. ASSUME NEW i \in 1..(n + 1) PROVE \E a \in A \cup {r} : more[i] = a.id
  BY <1>1, <1>3 DEF Lists
<1>7. ASSUME NEW a \in A \cup {r} PROVE \E i \in 1..(n + 1) : more[i] = a.id
  <2>1. CASE a = r
    BY <1>1, <1>2, <2>1
  <2>2. CASE a \in A
    <3>1. PICK i \in 1..n : ids[i] = a.id
      BY <2>2 DEF Lists
    <3> QED
      BY <1>1, <1>2, <3>1
  <2> QED
    BY <2>1, <2>2
<1>8. ASSUME NEW a \in A \cup {r}, NEW b \in A \cup {r}, Precedes(a, b)
      PROVE  \E i, j \in 1..(n + 1) : i < j /\ more[i] = a.id /\ more[j] = b.id
  <2>1. a \in A
    BY <1>8, PrecedesOrders
  <2>2. CASE b = r
    <3>1. PICK i \in 1..n : ids[i] = a.id
      BY <2>1 DEF Lists
    <3> QED
      BY <1>1, <1>2, <2>2, <3>1
  <2>3. CASE b \in A
    <3>1. PICK i \in 1..n, j \in 1..n : i < j /\ ids[i] = a.id /\ ids[j] = b.id
      BY <1>8, <2>1, <2>3 DEF Lists
    <3> QED
      BY <1>1, <1>2, <3>1
  <2> QED
    BY <2>2, <2>3
<1>9. Len(more) = n + 1
  BY <1>1
<1> HIDE DEF n
<1>10. Lists(more, A \cup {r})
  <2>1. Len(more) = Cardinality(A \cup {r})
    BY <1>5, <1>9
  <2>2. \A i \in 1..Len(more) : \E a \in A \cup {r} : more[i] = a.id
    BY <1>6, <1>9
  <2>3. \A a \in A \cup {r} : \E i \in 1..Len(more) : more[i] = a.id
    BY <1>7, <1>9
  <2>4. \A a, b \in A \cup {r} : Precedes(a, b) =>
          \E i, j \in 1..Len(more) : i < j /\ more[i] = a.id /\ more[j] = b.id
    BY <1>8, <1>9
  <2> QED
    BY <2>1, <2>2, <2>3, <2>4 DEF Lists
<1> QED
  BY <1>10 DEF more

LEMMA MatchedFields ==
  ASSUME NEW e \in Decision, NEW r, r.id \in Ids
  PROVE  LET d == Matched(e, r)
         IN  /\ d \in Decision /\ d.matched = TRUE
             /\ d.matched_ruleset_ids = Append(e.matched_ruleset_ids, r.id)
             /\ d.is_starred = e.is_starred /\ d.is_read = e.is_read /\ d.folder_id = e.folder_id
<1> DEFINE ids == Append(e.matched_ruleset_ids, r.id)
           d == [e EXCEPT !.matched = TRUE, !.matched_ruleset_ids = ids]
<1>1. ids \in Seq(Ids)
  BY DEF Decision
<1>2. Matched(e, r) = d
  BY Zenon DEF Matched
<1> HIDE DEF ids
<1>3. /\ d \in Decision /\ d.matched = TRUE /\ d.matched_ruleset_ids = ids
      /\ d.is_starred = e.is_starred /\ d.is_read = e.is_read /\ d.folder_id = e.folder_id
  BY <1>1 DEF Decision
<1> HIDE DEF d
<1>4. ids = Append(e.matched_ruleset_ids, r.id)
  BY DEF ids
<1> QED
  BY <1>2, <1>3, <1>4

LEMMA OneMoreRuleset ==
  ASSUME NEW R, Different(R), NEW A \in SUBSET R, NEW r \in R, \A x \in A : Precedes(x, r),
         NEW e, Turned(e, A)
  PROVE  Turned(Act(Matched(e, r), r.actions), A \cup {r})
<1> DEFINE d == Matched(e, r)
           f == Act(d, r.actions)
           B == A \cup {r}
           N == Len(r.actions)
<1>1. r.id \in Ids /\ r.actions \in Actions /\ e \in Decision
  BY DEF Different, Evaluables, Turned
<1>2. /\ d \in Decision /\ d.matched = TRUE
      /\ d.matched_ruleset_ids = Append(e.matched_ruleset_ids, r.id)
      /\ d.is_starred = e.is_starred /\ d.is_read = e.is_read /\ d.folder_id = e.folder_id
  BY <1>1, MatchedFields
<1>3. e.matched_ruleset_ids \in Seq(Ids)
  BY <1>1 DEF Decision
<1> HIDE DEF d
<1>4. Acted(f, d, r.actions, N)
  BY <1>1, <1>2, ActDoes
<1> HIDE DEF f
<1>5. f \in Decision /\ f.matched = TRUE /\ B # {}
  BY <1>2, <1>4 DEF Acted
<1>6. Lists(f.matched_ruleset_ids, B)
  BY <1>2, <1>3, <1>4, AppendLists DEF Acted, Turned
<1>7. f.is_starred = TRUE <=> Marks("mark_as_star", B)
  BY <1>2, <1>4 DEF Acted, Turned, Marks
<1>8. f.is_read = TRUE <=> Marks("mark_as_read", B)
  BY <1>2, <1>4 DEF Acted, Turned, Marks
<1>9. Files(f.folder_id, B)
  <2>1. CASE \A i \in 1..N : ~IsMove(r.actions[i])
    <3>1. f.folder_id = e.folder_id /\ Files(e.folder_id, A)
      BY <1>2, <1>4, <2>1 DEF Acted, Turned
    <3>2. CASE \A rs \in A : \A i \in 1..Len(rs.actions) : ~IsMove(rs.actions[i])
      BY <2>1, <3>1, <3>2 DEF Files
    <3>3. CASE \E rs \in A : \E i \in 1..Len(rs.actions) : IsMove(rs.actions[i])
      <4>1. PICK rs \in A : \E i \in 1..Len(rs.actions) :
              /\ IsMove(rs.actions[i]) /\ e.folder_id = rs.actions[i].action_value
              /\ \A x \in A : \A j \in 1..Len(x.actions) :
                   IsMove(x.actions[j]) => Precedes(x, rs) \/ (x = rs /\ j <= i)
        BY <3>1, <3>3 DEF Files
      <4>2. \E i \in 1..Len(rs.actions) :
              /\ IsMove(rs.actions[i]) /\ e.folder_id = rs.actions[i].action_value
              /\ \A x \in B : \A j \in 1..Len(x.actions) :
                   IsMove(x.actions[j]) => Precedes(x, rs) \/ (x = rs /\ j <= i)
        BY <2>1, <4>1
      <4> QED
        BY <3>1, <4>2 DEF Files
    <3> QED
      BY <3>2, <3>3
  <2>2. CASE \E i \in 1..N : IsMove(r.actions[i])
    <3>1. PICK p \in 1..N :
            /\ IsMove(r.actions[p]) /\ f.folder_id = r.actions[p].action_value
            /\ \A q \in 1..N : IsMove(r.actions[q]) => q <= p
      BY <1>4, <2>2 DEF Acted
    <3>2. \A x \in B : \A j \in 1..Len(x.actions) :
            IsMove(x.actions[j]) => Precedes(x, r) \/ (x = r /\ j <= p)
      BY <3>1
    <3> QED
      BY <3>1, <3>2 DEF Files
  <2> QED
    BY <2>1, <2>2
<1> QED
  BY <1>5, <1>6, <1>7, <1>8, <1>9 DEF Turned, f, d

LEMMA NoneTurned == Turned(NoDecision, {})
<1>1. NoDecision \in Decision
  BY DEF NoDecision, Decision, Folder
<1>2. Cardinality({}) = 0
  BY FS_EmptySet
<1>3. Lists(<<>>, {})
  BY <1>2 DEF Lists
<1>4. Files(Null, {})
  BY DEF Files
<1> QED
  BY <1>1, <1>3, <1>4 DEF Turned, NoDecision, Marks

Acts(rs, ctx) == rs.conditions # <<>> /\ RulesetMatches(rs, ctx)

LEMMA OneTurn ==
  ASSUME NEW R, Different(R), NEW ctx, NEW S \in SUBSET R, NEW r \in R,
         \A x \in S : Precedes(x, r), NEW e, Turned(e, Acting(S, ctx))
  PROVE  Turned(ApplyRuleset(e, r, ctx), Acting(S \cup {r}, ctx))
<1>1. Acting(S \cup {r}, ctx) = IF Acts(r, ctx) THEN Acting(S, ctx) \cup {r} ELSE Acting(S, ctx)
  BY DEF Acting, Acts
<1>2. Acting(S, ctx) \in SUBSET R /\ \A x \in Acting(S, ctx) : Precedes(x, r)
  BY DEF Acting
<1>3. CASE Acts(r, ctx)
  <2>1. ApplyRuleset(e, r, ctx) = Act(Matched(e, r), r.actions)
    BY <1>3 DEF ApplyRuleset, Acts
  <2>2. Turned(Act(Matched(e, r), r.actions), Acting(S, ctx) \cup {r})
    BY <1>2, OneMoreRuleset
  <2> QED
    BY <1>1, <1>3, <2>1, <2>2
<1>4. CASE ~Acts(r, ctx)
  <2>1. ApplyRuleset(e, r, ctx) = e
    BY <1>4 DEF ApplyRuleset, Acts
  <2> QED
    BY <1>1, <1>4, <2>1
<1> QED
  BY <1>3, <1>4

LEMMA ApplyRulesetTyped ==
  ASSUME NEW e \in Decision, NEW r \in Evaluables, NEW ctx
  PROVE  ApplyRuleset(e, r, ctx) \in Decision
<1>1. r.id \in Ids /\ r.actions \in Actions
  BY DEF Evaluables
<1>2. Matched(e, r) \in Decision
  BY <1>1, MatchedFields
<1>3. Act(Matched(e, r), r.actions) \in Decision
  BY <1>1, <1>2, ActDoes DEF Acted
<1> QED
  BY <1>3 DEF ApplyRuleset

\* The loop over the rulesets in their order.
LEMMA EvaluationTurns ==
  ASSUME NEW R, Different(R), NEW ctx
  PROVE  Turned(EvaluateRulesets(R, ctx), Acting(R, ctx))
<1> DEFINE s == InOrder(R)
           N == Len(s)
           step == [x \in Decision \X (1..N) |-> ApplyRuleset(x[1], s[x[2]], ctx)]
           after == CHOOSE f : f = [n \in 0..N |-> IF n = 0 THEN NoDecision
                                                    ELSE ApplyRuleset(f[n - 1], s[n], ctx)]
<1>1. EvaluateRulesets(R, ctx) = after[N]
  BY DEF EvaluateRulesets
<1>2. N = Cardinality(R)
  BY InOrderSorts
<1> HIDE DEF N
<1>3. N \in Nat /\ s \in [1..N -> R]
  BY <1>2, InOrderSorts
<1>4. \A i, j \in 1..N : i < j => Precedes(s[i], s[j])
  BY <1>2, InOrderSorts
<1>5. \A r \in R : \E i \in 1..N : s[i] = r
  BY <1>2, InOrderSorts
<1> HIDE DEF s
<1>6. \A n \in 1..N : s[n] \in R /\ s[n] \in Evaluables
  BY <1>3 DEF Different
<1>7. step \in [Decision \X (1..N) -> Decision]
  BY <1>6, ApplyRulesetTyped
<1>8. NoDecision \in Decision
  BY NoneTurned DEF Turned
<1>9. PICK g \in [0..N -> Decision] : RunOf(g, NoDecision, step, N)
  <2> HIDE DEF step, after
  <2> QED
    BY <1>3, <1>7, <1>8, LoopRuns
<1>10. g = [n \in 0..N |-> IF n = 0 THEN NoDecision ELSE ApplyRuleset(g[n - 1], s[n], ctx)]
  <2>1. ASSUME NEW n \in 0..N
        PROVE  g[n] = IF n = 0 THEN NoDecision ELSE ApplyRuleset(g[n - 1], s[n], ctx)
    <3>1. CASE n = 0
      BY <3>1, <1>9 DEF RunOf
    <3>2. CASE n # 0
      <4>1. n \in 1..N /\ n - 1 \in 0..N
        BY <3>2, <1>3
      <4>2. <<g[n - 1], n>> \in Decision \X (1..N)
        BY <4>1, <1>9
      <4>3. step[<<g[n - 1], n>>] = ApplyRuleset(g[n - 1], s[n], ctx)
        BY <4>2
      <4> QED
        BY <3>2, <4>1, <4>3, <1>9 DEF RunOf
    <3> QED
      BY <3>1, <3>2
  <2> QED
    BY <2>1, <1>9
<1>11. after = [n \in 0..N |-> IF n = 0 THEN NoDecision ELSE ApplyRuleset(after[n - 1], s[n], ctx)]
  BY <1>10
<1> HIDE DEF after, step
<1> DEFINE Seen(n) == {s[i] : i \in 1..n}
           wrong == {n \in 0..N : ~Turned(after[n], Acting(Seen(n), ctx))}
<1>12. wrong = {}
  <2>1. SUFFICES ASSUME wrong # {} PROVE FALSE
    OBVIOUS
  <2>2. PICK n \in wrong : \A k \in wrong : n <= k
    <3>1. wrong \in SUBSET Nat
      BY <1>3
    <3> HIDE DEF wrong
    <3> QED
      BY <2>1, <3>1, LeastNumber
  <2>3. CASE n = 0
    <3>1. after[n] = NoDecision
      BY <1>3, <1>11, <2>3
    <3>2. Acting(Seen(n), ctx) = {}
      BY <2>3 DEF Acting
    <3> QED
      BY <2>2, <3>1, <3>2, NoneTurned
  <2>4. CASE n # 0
    <3>1. n \in 1..N /\ n - 1 \in 0..N /\ n - 1 \notin wrong
      BY <1>3, <2>2, <2>4
    <3>2. Turned(after[n - 1], Acting(Seen(n - 1), ctx))
      BY <3>1
    <3>3. after[n] = ApplyRuleset(after[n - 1], s[n], ctx)
      BY <1>11, <3>1
    <3>4. Seen(n) = Seen(n - 1) \cup {s[n]}
      <4>1. \A i : i \in 1..n <=> (i \in 1..(n - 1) \/ i = n)
        BY <3>1
      <4> QED
        BY <4>1
    <3>5. Seen(n - 1) \in SUBSET R /\ \A x \in Seen(n - 1) : Precedes(x, s[n])
      <4>1. \A i \in 1..(n - 1) : i \in 1..N /\ i < n
        BY <1>3, <3>1
      <4> QED
        BY <4>1, <3>1, <1>4, <1>6
    <3>6. s[n] \in R
      BY <3>1, <1>6
    <3> HIDE DEF Seen, wrong
    <3>7. Turned(ApplyRuleset(after[n - 1], s[n], ctx), Acting(Seen(n - 1) \cup {s[n]}, ctx))
      BY <3>2, <3>5, <3>6, OneTurn
    <3>8. Turned(after[n], Acting(Seen(n), ctx))
      BY <3>3, <3>4, <3>7
    <3> QED
      BY <2>2, <3>8 DEF wrong
  <2> QED
    BY <2>3, <2>4
<1>13. Turned(after[N], Acting(Seen(N), ctx))
  <2>1. N \in 0..N
    BY <1>3
  <2> QED
    BY <1>12, <2>1
<1>14. Seen(N) = R
  BY <1>5, <1>6
<1> QED
  BY <1>1, <1>13, <1>14

LEMMA MovesDef ==
  ASSUME NEW A \in SUBSET Evaluables
  PROVE  \A p : p \in Moves(A) <=>
           \E rs \in A : \E i \in 1..Len(rs.actions) : IsMove(rs.actions[i]) /\ p = <<rs, i>>
<1>1. \A rs \in A : rs.actions \in Seq(Action) /\ DOMAIN rs.actions = 1..Len(rs.actions)
  BY ActionsDef DEF Evaluables
<1>2. ASSUME NEW p PROVE p \in Moves(A) <=> \E rs \in A : \E i \in DOMAIN rs.actions :
                                           IsMove(rs.actions[i]) /\ p = <<rs, i>>
  BY DEF Moves, IsMove
<1> QED
  BY <1>1, <1>2

\* The engine decides what RULE-3 to RULE-15 say.
LEMMA EvaluationDecides ==
  ASSUME NEW R, Different(R), NEW ctx
  PROVE  Decides(EvaluateRulesets(R, ctx), R, ctx)
<1> DEFINE e == EvaluateRulesets(R, ctx)
           A == Acting(R, ctx)
           ids == e.matched_ruleset_ids
<1>1. Turned(e, A) /\ A \in SUBSET Evaluables
  BY EvaluationTurns DEF Different, Acting
<1> HIDE DEF e, A
<1>2. e.matched \in BOOLEAN /\ e.is_starred \in BOOLEAN /\ e.is_read \in BOOLEAN /\ ids \in Seq(Ids)
  BY <1>1 DEF Turned, Decision
<1>3. DOMAIN ids = 1..Len(ids) /\ Lists(ids, A)
  BY <1>1, <1>2 DEF Turned
<1> HIDE DEF ids
<1>4. ToSet(ids) = {rs.id : rs \in A} /\ Len(ids) = Cardinality(A)
  <2>1. Len(ids) = Cardinality(A)
    BY <1>3 DEF Lists
  <2>2. \A i \in DOMAIN ids : \E a \in A : ids[i] = a.id
    BY <1>3 DEF Lists
  <2>3. \A a \in A : \E i \in DOMAIN ids : ids[i] = a.id
    BY <1>3 DEF Lists
  <2>4. ToSet(ids) = {rs.id : rs \in A}
    BY <2>2, <2>3 DEF ToSet
  <2> QED
    BY <2>1, <2>4
<1>5. \A a, b \in A : Precedes(a, b) =>
        \E i, j \in DOMAIN ids : i < j /\ ids[i] = a.id /\ ids[j] = b.id
  <2> SUFFICES ASSUME NEW a \in A, NEW b \in A, Precedes(a, b)
               PROVE  \E i, j \in DOMAIN ids : i < j /\ ids[i] = a.id /\ ids[j] = b.id
    OBVIOUS
  <2>1. PICK i \in 1..Len(ids), j \in 1..Len(ids) : i < j /\ ids[i] = a.id /\ ids[j] = b.id
    BY <1>3 DEF Lists
  <2> QED
    BY <1>3, <2>1
<1>6. e.matched = (A # {})
  BY <1>1, <1>2 DEF Turned
<1>7. ASSUME NEW type
      PROVE  Marks(type, A) <=> \E rs \in A : \E a \in ToSet(rs.actions) : a.action_type = type
  <2>1. \A rs \in A : rs.actions \in Seq(Action) /\ DOMAIN rs.actions = 1..Len(rs.actions)
    BY <1>1, ActionsDef DEF Evaluables
  <2> QED
    BY <2>1 DEF Marks, ToSet
<1>8. e.is_starred = (\E rs \in A : \E a \in ToSet(rs.actions) : a.action_type = "mark_as_star")
  BY <1>1, <1>2, <1>7 DEF Turned
<1>9. e.is_read = (\E rs \in A : \E a \in ToSet(rs.actions) : a.action_type = "mark_as_read")
  BY <1>1, <1>2, <1>7 DEF Turned
<1>10. IF Moves(A) = {} THEN e.folder_id = Null
       ELSE \E p \in Moves(A) : LastMove(p, Moves(A)) /\ e.folder_id = p[1].actions[p[2]].action_value
  <2>1. CASE \A rs \in A : \A i \in 1..Len(rs.actions) : ~IsMove(rs.actions[i])
    <3>1. Moves(A) = {}
      BY <1>1, <2>1, MovesDef
    <3> QED
      BY <1>1, <2>1, <3>1 DEF Turned, Files
  <2>2. CASE \E rs \in A : \E i \in 1..Len(rs.actions) : IsMove(rs.actions[i])
    <3>1. PICK rs \in A : \E i \in 1..Len(rs.actions) :
            /\ IsMove(rs.actions[i]) /\ e.folder_id = rs.actions[i].action_value
            /\ \A x \in A : \A j \in 1..Len(x.actions) :
                 IsMove(x.actions[j]) => Precedes(x, rs) \/ (x = rs /\ j <= i)
      BY <1>1, <2>2 DEF Turned, Files
    <3>2. PICK i \in 1..Len(rs.actions) :
            /\ IsMove(rs.actions[i]) /\ e.folder_id = rs.actions[i].action_value
            /\ \A x \in A : \A j \in 1..Len(x.actions) :
                 IsMove(x.actions[j]) => Precedes(x, rs) \/ (x = rs /\ j <= i)
      BY <3>1
    <3>3. <<rs, i>> \in Moves(A)
      BY <1>1, <3>1, <3>2, MovesDef
    <3>4. ASSUME NEW q \in Moves(A)
          PROVE  q = <<rs, i>> \/ Precedes(q[1], rs) \/ (q[1] = rs /\ q[2] < i)
      <4>1. PICK x \in A : \E j \in 1..Len(x.actions) : IsMove(x.actions[j]) /\ q = <<x, j>>
        BY <1>1, MovesDef
      <4>2. PICK j \in 1..Len(x.actions) : IsMove(x.actions[j]) /\ q = <<x, j>>
        BY <4>1
      <4>3. Precedes(x, rs) \/ (x = rs /\ j <= i)
        BY <3>2, <4>2
      <4>4. q[1] = x /\ q[2] = j
        BY <4>2
      <4> QED
        BY <4>2, <4>3, <4>4
    <3>5. LastMove(<<rs, i>>, Moves(A))
      BY <3>4 DEF LastMove
    <3> QED
      BY <3>2, <3>3, <3>5
  <2> QED
    BY <2>1, <2>2
<1> QED
  BY <1>4, <1>5, <1>6, <1>8, <1>9, <1>10 DEF Decides, e, A, ids

-----------------------------------------------------------------------------
(* The inbound handler                                                     *)

FewRulesets == IsFiniteSet({id \in Ids : submitted[id] # {}})

\* A message that is reading holds rows, conditions and actions that were all
\* submitted, and what the tables held at its first query as long as they have
\* not changed since.
Reading(e) ==
  LET m == mail[e]
      D == DOMAIN m.rows
  IN /\ m = [stage |-> "read", ctx |-> m.ctx, rows |-> m.rows,
             conditions |-> m.conditions, actions |-> m.actions]
     /\ D \in SUBSET Ids /\ IsFiniteSet(D)
     /\ \A id \in D : m.rows[id] \in Row /\ \E v \in submitted[id] : IsRowOf(m.rows[id], v)
     /\ m.conditions # Null => \A id \in D :
          m.conditions[id] = <<>> \/ \E v \in submitted[id] : m.conditions[id] = v.conditions
     /\ m.actions # Null => \A id \in D :
          m.actions[id] = <<>> \/ \E v \in submitted[id] : m.actions[id] = v.actions
     /\ snapshot[e] # Null =>
          /\ snapshot[e] = {Evaluable(id, rulesets[id], ruleset_conditions[id],
                                      ruleset_actions[id]) : id \in D}
          /\ \A id \in D :
               /\ m.rows[id] = rulesets[id]
               /\ m.conditions # Null => m.conditions[id] = ruleset_conditions[id]
               /\ m.actions # Null => m.actions[id] = ruleset_actions[id]

\* What DecisionAgrees and ActsOnlyOnMatch say of one message.
Agrees(e) ==
  snapshot[e] # Null => Decides(mail[e].decision, snapshot[e], mail[e].ctx)

Matches(e) ==
  LET decision == mail[e].decision
      acted == ToSet(decision.matched_ruleset_ids)
  IN /\ acted \subseteq Ids
     /\ \A id \in acted : \E v, w \in submitted[id] :
          RulesetMatches([v EXCEPT !.conditions = w.conditions], mail[e].ctx)
     /\ decision.folder_id # Null =>
          \E id \in acted : \E input \in submitted[id] :
            decision.folder_id \in MoveTargets(input.actions)

MailOK(e) ==
  \/ mail[e].stage = "idle"
  \/ mail[e].stage = "read" /\ Reading(e)
  \/ mail[e].stage = "commit" /\ Agrees(e) /\ Matches(e)

MailInv ==
  /\ FewRulesets
  /\ mail = [e \in Emails |-> mail[e]] /\ snapshot = [e \in Emails |-> snapshot[e]]
  /\ \A e \in Emails : MailOK(e)

LEMMA InitMail == Init => MailInv
<1> SUFFICES ASSUME Init PROVE MailInv
  OBVIOUS
<1>1. FewRulesets
  BY DEF Init, FewRulesets
<1>2. mail = [e \in Emails |-> Idle] /\ snapshot = [e \in Emails |-> Null]
  BY DEF Init
<1>3. \A e \in Emails : mail[e].stage = "idle"
  BY <1>2 DEF Idle
<1> QED
  BY <1>1, <1>2, <1>3 DEF MailInv, MailOK

Quiet == UNCHANGED <<rulesets, ruleset_conditions, ruleset_actions, snapshot>>

\* A step of a request.
LEMMA RequestStep ==
  ASSUME MailInv, UNCHANGED mail, Grows, Quiet \/ Disturb, FewRulesets'
  PROVE  MailInv'
<1>1. (mail = [e \in Emails |-> mail[e]])' /\ (snapshot = [e \in Emails |-> snapshot[e]])'
  BY DEF MailInv, Quiet, Disturb
<1>2. ASSUME NEW e \in Emails PROVE MailOK(e)'
  <2>1. MailOK(e)
    BY DEF MailInv
  <2>2. CASE mail[e].stage = "idle"
    BY <2>2 DEF MailOK
  <2>3. CASE mail[e].stage = "read" /\ Reading(e)
    <3>1. CASE Quiet
      BY <2>3, <3>1 DEF Reading, MailOK, Grows, Quiet
    <3>2. CASE Disturb
      <4>1. snapshot'[e] = Null
        BY <2>3, <3>2 DEF Disturb
      <4> QED
        BY <2>3, <4>1 DEF Reading, MailOK, Grows
    <3> QED
      BY <3>1, <3>2
  <2>4. CASE mail[e].stage = "commit" /\ Agrees(e) /\ Matches(e)
    <3>1. snapshot'[e] = snapshot[e]
      BY <2>4 DEF Quiet, Disturb
    <3>2. Agrees(e)'
      BY <2>4, <3>1 DEF Agrees
    <3>3. Matches(e)'
      <4> DEFINE acted == ToSet(mail[e].decision.matched_ruleset_ids)
                 target == mail[e].decision.folder_id
      <4>1. acted \subseteq Ids
        BY <2>4 DEF Matches
      <4>2. \A id \in acted : \E v, w \in submitted'[id] :
              RulesetMatches([v EXCEPT !.conditions = w.conditions], mail[e].ctx)
        BY <2>4, <4>1 DEF Matches, Grows
      <4>3. target # Null =>
              \E id \in acted : \E input \in submitted'[id] : target \in MoveTargets(input.actions)
        BY <2>4, <4>1 DEF Matches, Grows
      <4> QED
        BY <4>1, <4>2, <4>3 DEF Matches
    <3> QED
      BY <2>4, <3>2, <3>3 DEF MailOK
  <2> QED
    BY <2>1, <2>2, <2>3, <2>4 DEF MailOK
<1> QED
  BY <1>1, <1>2 DEF MailInv

\* A step of message e leaves every other message as it was.
LEMMA MailStep ==
  ASSUME MailInv, NEW e \in Emails, UNCHANGED <<tables, submitted>>,
         NEW state, MailGoes(e, state),
         snapshot' = [snapshot EXCEPT ![e] = snapshot'[e]],
         MailOK(e)'
  PROVE  MailInv'
<1>1. /\ mail' = [x \in Emails |-> mail'[x]] /\ snapshot' = [x \in Emails |-> snapshot'[x]]
      /\ \A x \in Emails : x # e => mail'[x] = mail[x] /\ snapshot'[x] = snapshot[x]
  BY DEF MailInv, MailGoes
<1>2. ASSUME NEW x \in Emails PROVE MailOK(x)'
  <2>1. CASE x # e
    <3>1. mail'[x] = mail[x] /\ snapshot'[x] = snapshot[x] /\ MailOK(x)
      BY <1>1, <2>1 DEF MailInv
    <3> QED
      BY <3>1 DEF MailOK, Reading, Agrees, Matches, tables
  <2> QED
    BY <2>1
<1>3. FewRulesets'
  BY DEF MailInv, FewRulesets
<1> QED
  BY <1>1, <1>2, <1>3 DEF MailInv

\* Enabled rulesets have rows that somebody submitted.
LEMMA EnabledAreSubmitted ==
  ASSUME RulesetInv, MailInv
  PROVE  /\ EnabledIds \in SUBSET Ids /\ IsFiniteSet(EnabledIds)
         /\ \A id \in EnabledIds : rulesets[id] \in Row /\ \E v \in submitted[id] : IsRowOf(rulesets[id], v)
<1>1. ASSUME NEW id \in EnabledIds
      PROVE  rulesets[id] \in Row /\ \E v \in submitted[id] : IsRowOf(rulesets[id], v)
  <2>1. id \in Ids /\ rulesets[id] # Absent
    BY DEF EnabledIds
  <2> QED
    BY <2>1, WholeDef DEF Whole, WholeIn, Sent, RulesetInv, TypeOK
<1>2. EnabledIds \in SUBSET {id \in Ids : submitted[id] # {}}
  BY <1>1 DEF EnabledIds
<1>3. IsFiniteSet(EnabledIds)
  BY <1>2, FS_Subset DEF MailInv, FewRulesets
<1> QED
  BY <1>1, <1>3 DEF EnabledIds

LEMMA SelectEnabledStep ==
  ASSUME RulesetInv, MailInv, NEW e \in Emails, SelectEnabled(e)
  PROVE  MailInv'
<1> DEFINE none == IF EnabledIds = {} THEN <<>> ELSE Null
           rows == [id \in EnabledIds |-> rulesets[id]]
           State(ctx) == [stage |-> "read", ctx |-> ctx, rows |-> rows,
                          conditions |-> none, actions |-> none]
           snap == {Evaluable(id, rulesets[id], ruleset_conditions[id], ruleset_actions[id]) :
                      id \in EnabledIds}
<1>1. PICK ctx \in Contexts : MailGoes(e, State(ctx))
  BY DEF SelectEnabled
<1>2. UNCHANGED <<tables, submitted>> /\ snapshot' = [snapshot EXCEPT ![e] = snap]
  BY DEF SelectEnabled, ghosts
<1>3. EnabledIds \in SUBSET Ids /\ IsFiniteSet(EnabledIds)
      /\ \A id \in EnabledIds : rulesets[id] \in Row /\ \E v \in submitted[id] : IsRowOf(rulesets[id], v)
  BY EnabledAreSubmitted
<1>4. DOMAIN rows = EnabledIds /\ \A id \in EnabledIds : rows[id] = rulesets[id]
  OBVIOUS
<1>5. none # Null => EnabledIds = {}
  OBVIOUS
<1> HIDE DEF none, rows, snap
<1>6. mail'[e] = State(ctx) /\ snapshot'[e] = snap
  BY <1>1, <1>2 DEF MailInv, MailGoes
<1>7. /\ mail'[e].stage = "read" /\ mail'[e].ctx = ctx /\ mail'[e].rows = rows
      /\ mail'[e].conditions = none /\ mail'[e].actions = none
  BY <1>6
<1>8. UNCHANGED <<rulesets, ruleset_conditions, ruleset_actions, submitted>>
  BY <1>2 DEF tables
<1> HIDE DEF State
<1>9. Reading(e)'
  <2>1. mail'[e] = [stage |-> "read", ctx |-> mail'[e].ctx, rows |-> mail'[e].rows,
             conditions |-> mail'[e].conditions, actions |-> mail'[e].actions]
    BY <1>6, <1>7 DEF State
  <2>2. snapshot'[e] = {Evaluable(id, rulesets'[id], ruleset_conditions'[id],
                                  ruleset_actions'[id]) : id \in EnabledIds}
    BY <1>6, <1>8 DEF snap
  <2> HIDE DEF EnabledIds
  <2> QED
    BY <1>3, <1>4, <1>5, <1>7, <1>8, <2>1, <2>2 DEF Reading
<1>10. MailOK(e)'
  BY <1>7, <1>9 DEF MailOK
<1>11. snapshot' = [snapshot EXCEPT ![e] = snapshot'[e]]
  BY <1>2, <1>6
<1> QED
  BY <1>1, <1>2, <1>10, <1>11, MailStep

LEMMA StoreMailStep ==
  ASSUME MailInv, NEW e \in Emails, StoreMail(e)
  PROVE  MailInv'
<1>1. UNCHANGED <<tables, submitted>> /\ MailGoes(e, Idle)
      /\ snapshot' = [snapshot EXCEPT ![e] = Null]
  BY DEF StoreMail, ghosts
<1>2. mail'[e] = Idle /\ snapshot'[e] = Null
  BY <1>1 DEF MailInv, MailGoes
<1>3. MailOK(e)'
  BY <1>2 DEF MailOK, Idle
<1>4. snapshot' = [snapshot EXCEPT ![e] = snapshot'[e]]
  BY <1>1, <1>2
<1> QED
  BY <1>1, <1>3, <1>4, MailStep

LEMMA SelectConditionsStep ==
  ASSUME RulesetInv, MailInv, NEW e \in Emails, SelectConditions(e)
  PROVE  MailInv'
<1> DEFINE m == mail[e]
           D == DOMAIN m.rows
           read == [id \in D |-> ruleset_conditions[id]]
           state == [m EXCEPT !.conditions = read]
<1>1. mail[e].stage = "read" /\ m.conditions = Null /\ MailGoes(e, state)
      /\ UNCHANGED <<tables, submitted>> /\ UNCHANGED snapshot
  BY DEF SelectConditions, ghosts
<1>2. Reading(e)
  BY <1>1 DEF MailInv, MailOK
<1>3. \A id \in D : ruleset_conditions[id] = <<>> \/ \E v \in submitted[id] : ruleset_conditions[id] = v.conditions
  <2>1. D \in SUBSET Ids
    BY <1>2 DEF Reading
  <2> QED
    BY <2>1, WholeDef DEF Whole, WholeIn, Sent, RulesetInv
<1>4. \A id \in D : read[id] = ruleset_conditions[id]
  OBVIOUS
<1> HIDE DEF read
<1>5. mail'[e] = state /\ snapshot'[e] = snapshot[e]
  BY <1>1 DEF MailInv, MailGoes
<1>6. /\ mail'[e] = [stage |-> "read", ctx |-> m.ctx, rows |-> m.rows,
                     conditions |-> read, actions |-> m.actions]
      /\ mail'[e].stage = "read" /\ mail'[e].ctx = m.ctx /\ mail'[e].rows = m.rows
      /\ mail'[e].conditions = read /\ mail'[e].actions = m.actions
  BY <1>2, <1>5 DEF Reading
<1>7. UNCHANGED <<rulesets, ruleset_conditions, ruleset_actions, submitted>>
  BY <1>1 DEF tables
<1>8. Reading(e)'
  BY <1>2, <1>3, <1>4, <1>5, <1>6, <1>7 DEF Reading
<1>9. MailOK(e)'
  BY <1>6, <1>8 DEF MailOK
<1>10. snapshot' = [snapshot EXCEPT ![e] = snapshot'[e]]
  BY <1>1 DEF MailInv
<1> HIDE DEF state
<1> QED
  BY <1>1, <1>9, <1>10, MailStep

LEMMA SelectActionsStep ==
  ASSUME RulesetInv, MailInv, NEW e \in Emails, SelectActions(e)
  PROVE  MailInv'
<1> DEFINE m == mail[e]
           D == DOMAIN m.rows
           read == [id \in D |-> ruleset_actions[id]]
           state == [m EXCEPT !.actions = read]
<1>1. mail[e].stage = "read" /\ m.actions = Null /\ MailGoes(e, state)
      /\ UNCHANGED <<tables, submitted>> /\ UNCHANGED snapshot
  BY DEF SelectActions, ghosts
<1>2. Reading(e)
  BY <1>1 DEF MailInv, MailOK
<1>3. \A id \in D : ruleset_actions[id] = <<>> \/ \E v \in submitted[id] : ruleset_actions[id] = v.actions
  <2>1. D \in SUBSET Ids
    BY <1>2 DEF Reading
  <2> QED
    BY <2>1, WholeDef DEF Whole, WholeIn, Sent, RulesetInv
<1>4. \A id \in D : read[id] = ruleset_actions[id]
  OBVIOUS
<1> HIDE DEF read
<1>5. mail'[e] = state /\ snapshot'[e] = snapshot[e]
  BY <1>1 DEF MailInv, MailGoes
<1>6. /\ mail'[e] = [stage |-> "read", ctx |-> m.ctx, rows |-> m.rows,
                     conditions |-> m.conditions, actions |-> read]
      /\ mail'[e].stage = "read" /\ mail'[e].ctx = m.ctx /\ mail'[e].rows = m.rows
      /\ mail'[e].actions = read /\ mail'[e].conditions = m.conditions
  BY <1>2, <1>5 DEF Reading
<1>7. UNCHANGED <<rulesets, ruleset_conditions, ruleset_actions, submitted>>
  BY <1>1 DEF tables
<1>8. Reading(e)'
  BY <1>2, <1>3, <1>4, <1>5, <1>6, <1>7 DEF Reading
<1>9. MailOK(e)'
  BY <1>6, <1>8 DEF MailOK
<1>10. snapshot' = [snapshot EXCEPT ![e] = snapshot'[e]]
  BY <1>1 DEF MailInv
<1> HIDE DEF state
<1> QED
  BY <1>1, <1>9, <1>10, MailStep

\* The rulesets a message has read when it has read them all.
ReadRulesets(e) ==
  {Evaluable(id, mail[e].rows[id], mail[e].conditions[id], mail[e].actions[id]) :
     id \in DOMAIN mail[e].rows}

LEMMA ReadAreDifferent ==
  ASSUME RulesetInv, NEW e \in Emails, Reading(e), Null \notin {mail[e].conditions, mail[e].actions}
  PROVE  Different(ReadRulesets(e))
<1> DEFINE m == mail[e]
           D == DOMAIN m.rows
           E(id) == Evaluable(id, m.rows[id], m.conditions[id], m.actions[id])
           R == {E(id) : id \in D}
<1>1. ASSUME NEW id \in D PROVE E(id) \in Evaluables /\ E(id).id = id
  <2>1. id \in Ids /\ submitted[id] \subseteq Input
    BY DEF Reading, RulesetInv, TypeOK
  <2>2. m.rows[id] \in Row
    BY DEF Reading
  <2>3. m.rows[id].priority \in Nat /\ m.rows[id].logic_operator \in {"AND", "OR"}
    BY <2>2 DEF Row
  <2>4. m.conditions[id] \in Conditions
    <3>1. m.conditions[id] = <<>> \/ \E w \in submitted[id] : m.conditions[id] = w.conditions
      BY DEF Reading
    <3> QED
      BY <2>1, <3>1, EmptyIsTyped DEF Input
  <2>5. m.actions[id] \in Actions
    <3>1. m.actions[id] = <<>> \/ \E w \in submitted[id] : m.actions[id] = w.actions
      BY DEF Reading
    <3> QED
      BY <2>1, <3>1, EmptyIsTyped DEF Input
  <2> QED
    BY <2>1, <2>3, <2>4, <2>5 DEF Evaluables, Evaluable
<1> HIDE DEF E
<1>2. R \in SUBSET Evaluables
  BY <1>1
<1>3. \A a, b \in R : a.id = b.id => a = b
  BY <1>1
<1>4. IsFiniteSet(R)
  <2>1. IsFiniteSet(D)
    BY DEF Reading
  <2>2. [id \in D |-> E(id)] \in Surjection(D, R)
    BY DEF Surjection
  <2> QED
    BY <2>1, <2>2, FS_Surjection
<1> QED
  BY <1>2, <1>3, <1>4 DEF Different, ReadRulesets, E

LEMMA ChooseFolderStep ==
  ASSUME RulesetInv, MailInv, NEW e \in Emails, ChooseFolder(e)
  PROVE  MailInv'
<1> DEFINE m == mail[e]
           R == ReadRulesets(e)
           decision == EvaluateRulesets(R, m.ctx)
           folder == IF decision.folder_id \in folders THEN decision.folder_id ELSE Inbox
           state == [stage |-> "commit", ctx |-> m.ctx, decision |-> decision, folder |-> folder]
           A == Acting(R, m.ctx)
<1>1. /\ mail[e].stage = "read" /\ Null \notin {m.conditions, m.actions}
      /\ MailGoes(e, state)
      /\ UNCHANGED <<tables, submitted>> /\ UNCHANGED snapshot
  BY DEF ChooseFolder, ReadRulesets, ghosts
<1>2. Reading(e)
  BY <1>1 DEF MailInv, MailOK
<1>3. Different(R)
  BY <1>1, <1>2, ReadAreDifferent
<1>4. Decides(decision, R, m.ctx) /\ Turned(decision, A)
  BY <1>3, EvaluationDecides, EvaluationTurns
<1>5. ASSUME NEW rs \in A
      PROVE  /\ rs.id \in Ids
             /\ \E v, w \in submitted[rs.id] : RulesetMatches([v EXCEPT !.conditions = w.conditions], m.ctx)
             /\ rs.actions = <<>> \/ \E v \in submitted[rs.id] : rs.actions = v.actions
  <2>1. rs \in R /\ rs.conditions # <<>> /\ RulesetMatches(rs, m.ctx)
    BY DEF Acting
  <2>2. PICK id \in DOMAIN m.rows : rs = Evaluable(id, m.rows[id], m.conditions[id], m.actions[id])
    BY <2>1 DEF ReadRulesets
  <2>3. /\ rs.id = id /\ rs.conditions = m.conditions[id] /\ rs.actions = m.actions[id]
        /\ rs.logic_operator = m.rows[id].logic_operator
    BY <2>2 DEF Evaluable
  <2>4. id \in Ids /\ submitted[id] \subseteq Input
    BY <1>2 DEF Reading, RulesetInv, TypeOK
  <2>5. PICK v \in submitted[id] : IsRowOf(m.rows[id], v)
    BY <1>2 DEF Reading
  <2>6. PICK w \in submitted[id] : m.conditions[id] = w.conditions
    BY <1>1, <1>2, <2>1, <2>3 DEF Reading
  <2>7. rs.logic_operator = v.logic_operator /\ rs.conditions = w.conditions
    BY <2>3, <2>5, <2>6 DEF IsRowOf
  <2>8. /\ [v EXCEPT !.conditions = w.conditions].logic_operator = v.logic_operator
        /\ [v EXCEPT !.conditions = w.conditions].conditions = w.conditions
    BY <2>4 DEF Input
  <2>9. RulesetMatches([v EXCEPT !.conditions = w.conditions], m.ctx)
    <3> DEFINE x == [v EXCEPT !.conditions = w.conditions]
    <3>1. x.logic_operator = rs.logic_operator /\ x.conditions = rs.conditions
      BY <2>7, <2>8
    <3> HIDE DEF x
    <3>2. RulesetMatches(x, m.ctx)
      BY <2>1, <3>1 DEF RulesetMatches
    <3> QED
      BY <3>2 DEF x
  <2>10. rs.actions = <<>> \/ \E u \in submitted[rs.id] : rs.actions = u.actions
    BY <1>1, <1>2, <2>3 DEF Reading
  <2> QED
    BY <2>3, <2>4, <2>9, <2>10
<1>6. A \in SUBSET Evaluables
  BY <1>3 DEF Different, Acting
<1> DEFINE ids == decision.matched_ruleset_ids
           target == decision.folder_id
<1> HIDE DEF decision, A, R
<1>7. DOMAIN ids = 1..Len(ids) /\ Lists(ids, A) /\ Files(target, A)
  BY <1>4 DEF Turned, Decision
<1>8. ToSet(ids) = {rs.id : rs \in A}
  <2>1. \A i \in DOMAIN ids : \E rs \in A : ids[i] = rs.id
    BY <1>7 DEF Lists
  <2>2. \A rs \in A : \E i \in DOMAIN ids : ids[i] = rs.id
    BY <1>7 DEF Lists
  <2> QED
    BY <2>1, <2>2 DEF ToSet
<1> HIDE DEF ids, target
<1>9. ToSet(ids) \subseteq Ids /\ \A id \in ToSet(ids) : \E v, w \in submitted[id] :
        RulesetMatches([v EXCEPT !.conditions = w.conditions], m.ctx)
  BY <1>5, <1>8
<1>10. target # Null => \E id \in ToSet(ids) : \E input \in submitted[id] :
         target \in MoveTargets(input.actions)
  <2> SUFFICES ASSUME target # Null
               PROVE  \E id \in ToSet(ids) : \E input \in submitted[id] :
                        target \in MoveTargets(input.actions)
    OBVIOUS
  <2>1. PICK rs \in A : \E i \in 1..Len(rs.actions) :
          IsMove(rs.actions[i]) /\ target = rs.actions[i].action_value
    BY <1>7 DEF Files
  <2>2. PICK i \in 1..Len(rs.actions) : IsMove(rs.actions[i]) /\ target = rs.actions[i].action_value
    BY <2>1
  <2>3. rs.actions \in Seq(Action)
    BY <1>6, ActionsDef DEF Evaluables
  <2>4. i \in DOMAIN rs.actions /\ rs.actions # <<>>
    BY <2>2, <2>3
  <2>5. PICK v \in submitted[rs.id] : rs.actions = v.actions
    BY <1>5, <2>4
  <2>6. target \in MoveTargets(rs.actions)
    BY <2>2, <2>4 DEF MoveTargets, IsMove, ToSet
  <2> QED
    BY <1>8, <2>5, <2>6
<1>11. mail'[e] = state /\ snapshot'[e] = snapshot[e]
  BY <1>1 DEF MailInv, MailGoes
<1>12. mail'[e].stage = "commit" /\ mail'[e].ctx = m.ctx /\ mail'[e].decision = decision
  BY <1>11
<1>13. Agrees(e)'
  <2>1. ASSUME snapshot[e] # Null PROVE snapshot[e] = R
    <3>1. \A id \in DOMAIN m.rows :
            /\ m.rows[id] = rulesets[id] /\ m.conditions[id] = ruleset_conditions[id]
            /\ m.actions[id] = ruleset_actions[id]
      BY <1>1, <1>2, <2>1 DEF Reading
    <3>2. snapshot[e] = {Evaluable(id, rulesets[id], ruleset_conditions[id], ruleset_actions[id]) :
                           id \in DOMAIN m.rows}
      BY <1>2, <2>1 DEF Reading
    <3> QED
      BY <3>1, <3>2 DEF R, ReadRulesets
  <2> QED
    BY <1>4, <1>11, <1>12, <2>1 DEF Agrees
<1>14. Matches(e)'
  BY <1>1, <1>9, <1>10, <1>12 DEF Matches, ids, target
<1>15. MailOK(e)'
  BY <1>12, <1>13, <1>14 DEF MailOK
<1>16. snapshot' = [snapshot EXCEPT ![e] = snapshot'[e]]
  BY <1>1 DEF MailInv
<1> HIDE DEF state
<1> QED
  BY <1>1, <1>15, <1>16, MailStep

-----------------------------------------------------------------------------
(* Every step                                                              *)

LEMMA GrowsByOne ==
  ASSUME TypeOK, MailInv, NEW id \in Ids, NEW input, Submits(id, input)
  PROVE  Grows /\ FewRulesets'
<1> DEFINE S == {i \in Ids : submitted[i] # {}}
<1>1. submitted'[id] = submitted[id] \cup {input} /\ \A i \in Ids : i # id => submitted'[i] = submitted[i]
  BY DEF TypeOK, Submits
<1>2. IsFiniteSet(S \cup {id})
  BY FS_AddElement DEF MailInv, FewRulesets
<1>3. {i \in Ids : submitted'[i] # {}} \in SUBSET (S \cup {id})
  BY <1>1
<1>4. IsFiniteSet({i \in Ids : submitted'[i] # {}})
  BY <1>2, <1>3, FS_Subset
<1> QED
  BY <1>1, <1>4 DEF Grows, FewRulesets

LEMMA SameSubmitted ==
  ASSUME MailInv, UNCHANGED submitted
  PROVE  Grows /\ FewRulesets'
BY DEF MailInv, Grows, FewRulesets

LEMMA NextMail == RulesetInv /\ MailInv /\ [Next]_vars => MailInv'
<1> SUFFICES ASSUME RulesetInv, MailInv, [Next]_vars PROVE MailInv'
  OBVIOUS
<1>1. ASSUME UNCHANGED <<mail, submitted>>, Quiet \/ Disturb PROVE MailInv'
  BY <1>1, RequestStep, SameSubmitted
<1>2. ASSUME NEW r \in Requests, BeginCreate(r) \/ BeginUpdate(r) PROVE MailInv'
  <2>1. PICK id \in Ids : \E input \in Inputs : Submits(id, input)
    BY <1>2 DEF BeginCreate, BeginUpdate
  <2>3. PICK input \in Inputs : Submits(id, input)
    BY <2>1
  <2>2. Quiet /\ UNCHANGED mail
    BY <1>2 DEF BeginCreate, BeginUpdate, Quiet, tables
  <2> QED
    BY <2>2, <2>3, GrowsByOne, RequestStep DEF RulesetInv
<1>3. ASSUME NEW r \in Requests,
             \/ BeginDelete(r) \/ BeginToggle(r) \/ LoadFolder(r)
             \/ ValidateFolders(r) \/ SelectRuleset(r) \/ GetConditions(r) \/ GetActions(r)
      PROVE  MailInv'
  <2>1. UNCHANGED <<mail, submitted>> /\ Quiet
    BY <1>3 DEF BeginDelete, BeginToggle, LoadFolder, ValidateFolders, SelectRuleset,
                GetConditions, GetActions, Quiet, tables, ghosts
  <2> QED
    BY <1>1, <2>1
<1>4. ASSUME NEW r \in Requests,
             CommitCreate(r) \/ CommitUpdate(r) \/ CommitDelete(r) \/ DropFolder(r)
      PROVE  MailInv'
  <2>1. UNCHANGED <<mail, submitted>>
    BY <1>4 DEF CommitCreate, CommitUpdate, CommitDelete, DropFolder, ghosts
  <2>2. Quiet \/ Disturb
    BY <1>4 DEF CommitCreate, CommitUpdate, CommitDelete, DropFolder, Store, Replace, Quiet
  <2> QED
    BY <1>1, <2>1, <2>2
<1>5. CASE UNCHANGED vars
  <2>1. UNCHANGED <<mail, submitted>> /\ Quiet
    BY <1>5 DEF vars, tables, ghosts, Quiet
  <2> QED
    BY <1>1, <2>1
<1>6. ASSUME NEW e \in Emails,
             SelectEnabled(e) \/ SelectConditions(e) \/ SelectActions(e) \/ ChooseFolder(e) \/ StoreMail(e)
      PROVE  MailInv'
  BY <1>6, SelectEnabledStep, SelectConditionsStep, SelectActionsStep, ChooseFolderStep, StoreMailStep
<1> QED
  BY <1>2, <1>3, <1>4, <1>5, <1>6 DEF Next

LEMMA SpecMail == Spec => [](RulesetInv /\ MailInv)
<1>1. RulesetInv /\ MailInv /\ [Next]_vars => (RulesetInv /\ MailInv)'
  BY NextInv, NextMail
<1> QED
  BY <1>1, InitInv, InitMail, PTL DEF Spec

\* A message that no change of the rulesets disturbed is decided as RULE-3 to
\* RULE-15 say, in whatever order its two last queries were answered
\* (lib/rules-engine.ts:93, handler/inbound/index.ts:82).
THEOREM UndisturbedDecisionsAgree == Spec => []DecisionAgrees
<1>1. RulesetInv /\ MailInv => DecisionAgrees
  BY DEF MailInv, MailOK, Agrees, DecisionAgrees, Decided
<1> QED
  BY <1>1, SpecMail, PTL

\* A ruleset acts on a message only if conditions that a form once sent for it
\* match, and the folder is one that a ruleset that acted once named, even when the
\* three queries read different versions or a mixture that a toggle stored
\* (handler/inbound/index.ts:82).
THEOREM OnlyMatchesAct == Spec => []ActsOnlyOnMatch
<1>1. RulesetInv /\ MailInv => ActsOnlyOnMatch
  BY DEF MailInv, MailOK, Matches, ActsOnlyOnMatch, Decided
<1> QED
  BY <1>1, SpecMail, PTL
=============================================================================
