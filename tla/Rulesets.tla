------------------------------ MODULE Rulesets ------------------------------
(***************************************************************************)
(* The rulesets of one mailbox: requests that create, replace, toggle and  *)
(* delete them, deleteFolder, and the inbound handler, which reads them    *)
(* with three queries, evaluates them and files the message.               *)
(*                                                                         *)
(* A ruleset is a row with its conditions and its actions in two further   *)
(* tables.  A D1 batch is one step; everything between two awaits is one   *)
(* step; the two halves of a Promise.all come in either order.             *)
(***************************************************************************)
EXTENDS RulesEngine

CONSTANTS
  Ids,            \* ruleset ids
  CustomFolders,
  Inputs,         \* bodies that pass rulesetSchema, see Input
  Contexts,       \* incoming messages: [from, subject, header]
  Requests,       \* requests under way at a time
  Emails,         \* incoming messages
  MaxVersions,    \* bound: id -> contents that forms may send for it; 0: nobody writes it
  Absent

VARIABLES
  folders,             \* table `folders`: custom folders
  rulesets,            \* table `rulesets`: id -> row or Absent
  ruleset_conditions,  \* id -> its conditions by condition_order
  ruleset_actions,     \* id -> its actions by action_order
  req,                 \* request -> what it carries from one await to the next
  mail,                \* incoming message -> the same
  submitted,           \* ghost: id -> the contents that forms have sent for it
  mixed,               \* ghost: ids whose stored contents a toggle put together from
                       \*        what it read before and after another write
  snapshot             \* ghost: message -> the enabled rulesets at its first query,
                       \*        Null once they changed before it had read them all

tables == <<folders, rulesets, ruleset_conditions, ruleset_actions>>
ghosts == <<submitted, mixed>>
vars == <<tables, req, mail, ghosts, snapshot>>

Idle == [stage |-> "idle"]
Inbox == "system.inbox"

Row == [priority : Nat, logic_operator : {"AND", "OR"}, is_enabled : BOOLEAN]
RowOf(input) ==
  [priority |-> input.priority, logic_operator |-> input.logic_operator,
   is_enabled |-> input.is_enabled]

Conditions == Seq([field : RuleFields, match_type : MatchTypes, condition_value : Seq(Int)])
Actions == Seq([action_type : ActionTypes, action_value : CustomFolders \cup {Inbox, Null}])

\* rulesetSchema: at least one condition and one action.
Input ==
  [priority : Nat, logic_operator : {"AND", "OR"}, is_enabled : BOOLEAN,
   conditions : Conditions \ {<<>>}, actions : Actions \ {<<>>}]

ASSUME RulesetAssumption ==
  /\ Ids \subseteq Int /\ MaxVersions \in [Ids -> Nat]
  /\ Inputs \subseteq Input
  /\ Absent \notin Row /\ Inbox \notin CustomFolders

\* Rulesets with their conditions and actions, as the engine takes them.
Evaluable(id, row, conditions, actions) ==
  [id |-> id, priority |-> row.priority, logic_operator |-> row.logic_operator,
   conditions |-> conditions, actions |-> actions]

EnabledIds == {id \in Ids : rulesets[id] # Absent /\ rulesets[id].is_enabled}

\* The database may hold any rulesets to begin with, finitely many.
Init ==
  /\ folders = CustomFolders
  /\ submitted \in [Ids -> {{}} \cup {{input} : input \in Inputs}]
  /\ IsFiniteSet({id \in Ids : submitted[id] # {}})
  /\ rulesets = [id \in Ids |-> IF submitted[id] = {} THEN Absent
                                ELSE RowOf(CHOOSE input \in submitted[id] : TRUE)]
  /\ ruleset_conditions = [id \in Ids |-> IF submitted[id] = {} THEN <<>>
                                ELSE (CHOOSE input \in submitted[id] : TRUE).conditions]
  /\ ruleset_actions = [id \in Ids |-> IF submitted[id] = {} THEN <<>>
                                ELSE (CHOOSE input \in submitted[id] : TRUE).actions]
  /\ req = [r \in Requests |-> Idle]
  /\ mail = [e \in Emails |-> Idle]
  /\ mixed = {}
  /\ snapshot = [e \in Emails |-> Null]

Goes(r, state) == req' = [req EXCEPT ![r] = state]
At(r, op, stage) == req[r] # Idle /\ req[r].op = op /\ req[r].stage = stage

\* A batch commits: messages that are reading see a mixture from now on.
Disturb ==
  snapshot' = [e \in Emails |-> IF mail[e].stage = "read" THEN Null ELSE snapshot[e]]

-----------------------------------------------------------------------------
(* Requests that write a ruleset                                           *)

MoveTargets(actions) ==
  {a.action_value : a \in {b \in ToSet(actions) : b.action_type = "move_to_folder"}}

\* validateRegexConditions, and a move must name a folder; both before any await.
WellFormed(input) ==
  /\ \A c \in ToSet(input.conditions) : c.match_type = "match regex" => ValidRegex(c.condition_value)
  /\ Null \notin MoveTargets(input.actions)

\* The ids of rulesets that are being created.
NewIds == {req[r].id : r \in {q \in Requests : req[q] # Idle /\ req[q].op = "create"}}

\* A form sends contents for ruleset id.
Submits(id, input) == submitted' = [submitted EXCEPT ![id] = @ \cup {input}]

\* POST of a new ruleset; createId never repeats an id.
BeginCreate(r) ==
  /\ req[r] = Idle
  /\ \E input \in Inputs : \E id \in Ids :
       /\ submitted[id] = {} /\ MaxVersions[id] > 0
       /\ WellFormed(input)
       /\ Submits(id, input)
       /\ Goes(r, [op |-> "create", stage |-> "validate", id |-> id, input |-> input, torn |-> FALSE])
  /\ UNCHANGED <<tables, mail, mixed, snapshot>>

\* An id that a client has read: its POST has been answered.
Known(id) == submitted[id] # {} /\ id \notin NewIds

\* PUT by the editor.
BeginUpdate(r) ==
  /\ req[r] = Idle
  /\ \E input \in Inputs : \E id \in Ids :
       /\ Known(id) /\ input \notin submitted[id] /\ Cardinality(submitted[id]) < MaxVersions[id]
       /\ WellFormed(input)
       /\ Submits(id, input)
       /\ Goes(r, [op |-> "update", stage |-> "validate", id |-> id, input |-> input, torn |-> FALSE])
  /\ UNCHANGED <<tables, mail, mixed, snapshot>>

BeginDelete(r) ==
  /\ req[r] = Idle
  /\ \E id \in Ids :
       Known(id) /\ Goes(r, [op |-> "delete", stage |-> "select", id |-> id])
  /\ UNCHANGED <<tables, mail, ghosts, snapshot>>

\* validateMoveToFolderActions: every folder a move names must be there now.
ValidateFolders(r) ==
  /\ req[r] # Idle /\ req[r].stage = "validate"
  /\ IF MoveTargets(req[r].input.actions) \subseteq folders \cup {Inbox}
     THEN Goes(r, [req[r] EXCEPT !.stage = IF req[r].op = "create" THEN "commit" ELSE "select"])
     ELSE Goes(r, Idle)
  /\ UNCHANGED <<tables, mail, ghosts, snapshot>>

\* updateRuleset and deleteRuleset look for the row.
SelectRuleset(r) ==
  /\ req[r] # Idle /\ req[r].stage = "select"
  /\ Goes(r, IF rulesets[req[r].id] = Absent THEN Idle ELSE [req[r] EXCEPT !.stage = "commit"])
  /\ UNCHANGED <<tables, mail, ghosts, snapshot>>

\* A toggle that is reading ruleset id.
Reads(q, id) == req[q] # Idle /\ req[q].op = "toggle" /\ req[q].id = id

\* Request r writes row, conditions and actions of its ruleset and is over.  Toggles
\* that are reading the ruleset are torn from now on.
Replace(r, input) ==
  LET id == req[r].id IN
  /\ rulesets' = [rulesets EXCEPT ![id] = RowOf(input)]
  /\ ruleset_conditions' = [ruleset_conditions EXCEPT ![id] = input.conditions]
  /\ ruleset_actions' = [ruleset_actions EXCEPT ![id] = input.actions]
  /\ mixed' = IF req[r].torn THEN mixed \cup {id} ELSE mixed \ {id}
  /\ req' = [q \in Requests |-> IF q = r THEN Idle
                                ELSE IF Reads(q, id) THEN [req[q] EXCEPT !.torn = TRUE]
                                ELSE req[q]]
  /\ Disturb

\* Mutant of Store: the batch forgets to replace the actions there are.
StoreButActions(r) ==
  LET actions == ruleset_actions[req[r].id] IN
  Replace(r, IF actions = <<>> THEN req[r].input ELSE [req[r].input EXCEPT !.actions = actions])

\* The batch stores what the request was sent with.
Store(r) == Replace(r, req[r].input)

\* The batch of createRuleset.
CommitCreate(r) ==
  /\ At(r, "create", "commit")
  /\ Store(r)
  /\ UNCHANGED <<folders, mail, submitted>>

\* The batch of updateRuleset: conditions and actions are deleted and inserted
\* again.  If the row has gone the inserts violate their foreign key.
CommitUpdate(r) ==
  /\ At(r, "update", "commit")
  /\ IF rulesets[req[r].id] = Absent
     THEN Goes(r, Idle) /\ UNCHANGED <<rulesets, ruleset_conditions, ruleset_actions, mixed, snapshot>>
     ELSE Store(r)
  /\ UNCHANGED <<folders, mail, submitted>>

\* The batch of deleteRuleset.
CommitDelete(r) ==
  /\ At(r, "delete", "commit")
  /\ LET id == req[r].id IN
     /\ rulesets' = [rulesets EXCEPT ![id] = Absent]
     /\ ruleset_conditions' = [ruleset_conditions EXCEPT ![id] = <<>>]
     /\ ruleset_actions' = [ruleset_actions EXCEPT ![id] = <<>>]
  /\ Disturb
  /\ Goes(r, Idle)
  /\ UNCHANGED <<folders, mail, ghosts>>

-----------------------------------------------------------------------------
(* toggleEnabled: GET the ruleset, then PUT it back with the flag changed.  *)
(* A write between the reads leaves it with a mixture, which it PUTs: so    *)
(* does the code.  What it reads of a mixture is one.                       *)

\* Bound: toggles of a ruleset that has its last contents begin only on a mixture.
Toggled(id) == Cardinality(submitted[id]) < MaxVersions[id] \/ id \in mixed

BeginToggle(r) ==
  /\ req[r] = Idle
  /\ \E id \in Ids : \E value \in BOOLEAN :
       /\ Known(id) /\ Toggled(id)
       /\ IF rulesets[id] = Absent THEN UNCHANGED req
          ELSE Goes(r, [op |-> "toggle", stage |-> "details", id |-> id,
                        row |-> [rulesets[id] EXCEPT !.is_enabled = value],
                        conditions |-> Null, actions |-> Null, torn |-> id \in mixed])
  /\ UNCHANGED <<tables, mail, ghosts, snapshot>>

\* The other half of the Promise.all of getRuleset; when both are in, the PUT
\* begins.  A ruleset without conditions or actions does not pass rulesetSchema.
ToggleBody(r, conditions, actions) ==
  IF Null \in {conditions, actions}
  THEN [req[r] EXCEPT !.conditions = conditions, !.actions = actions]
  ELSE IF <<>> \in {conditions, actions} THEN Idle
  ELSE [op |-> "update", stage |-> "validate", id |-> req[r].id,
        input |-> [priority |-> req[r].row.priority, logic_operator |-> req[r].row.logic_operator,
                   is_enabled |-> req[r].row.is_enabled,
                   conditions |-> conditions, actions |-> actions],
        torn |-> req[r].torn]

GetConditions(r) ==
  /\ At(r, "toggle", "details") /\ req[r].conditions = Null
  /\ Goes(r, ToggleBody(r, ruleset_conditions[req[r].id], req[r].actions))
  /\ UNCHANGED <<tables, mail, ghosts, snapshot>>

GetActions(r) ==
  /\ At(r, "toggle", "details") /\ req[r].actions = Null
  /\ Goes(r, ToggleBody(r, req[r].conditions, ruleset_actions[req[r].id]))
  /\ UNCHANGED <<tables, mail, ghosts, snapshot>>

-----------------------------------------------------------------------------
(* deleteFolder; its messages are the business of MailboxStore              *)

LoadFolder(r) ==
  /\ req[r] = Idle
  /\ \E f \in folders : Goes(r, [op |-> "drop", stage |-> "commit", folder |-> f])
  /\ UNCHANGED <<tables, mail, ghosts, snapshot>>

\* The last batch: the rulesets that move to the folder are disabled with it.
DropFolder(r) ==
  /\ At(r, "drop", "commit")
  /\ LET f == req[r].folder IN
     /\ rulesets' = [id \in Ids |->
                       IF rulesets[id] # Absent /\ f \in MoveTargets(ruleset_actions[id])
                       THEN [rulesets[id] EXCEPT !.is_enabled = FALSE] ELSE rulesets[id]]
     /\ folders' = folders \ {f}
  /\ Disturb
  /\ Goes(r, Idle)
  /\ UNCHANGED <<ruleset_conditions, ruleset_actions, mail, ghosts>>

-----------------------------------------------------------------------------
(* The inbound handler                                                     *)

MailGoes(e, state) == mail' = [mail EXCEPT ![e] = state]

\* First query: the enabled rows.  Without any the next two are skipped.
SelectEnabled(e) ==
  /\ mail[e] = Idle
  /\ \E ctx \in Contexts :
       MailGoes(e, [stage |-> "read", ctx |-> ctx,
                    rows |-> [id \in EnabledIds |-> rulesets[id]],
                    conditions |-> IF EnabledIds = {} THEN <<>> ELSE Null,
                    actions |-> IF EnabledIds = {} THEN <<>> ELSE Null])
  /\ snapshot' = [snapshot EXCEPT ![e] =
       {Evaluable(id, rulesets[id], ruleset_conditions[id], ruleset_actions[id]) : id \in EnabledIds}]
  /\ UNCHANGED <<tables, req, ghosts>>

SelectConditions(e) ==
  /\ mail[e].stage = "read" /\ mail[e].conditions = Null
  /\ MailGoes(e, [mail[e] EXCEPT !.conditions =
                    [id \in DOMAIN mail[e].rows |-> ruleset_conditions[id]]])
  /\ UNCHANGED <<tables, req, ghosts, snapshot>>

SelectActions(e) ==
  /\ mail[e].stage = "read" /\ mail[e].actions = Null
  /\ MailGoes(e, [mail[e] EXCEPT !.actions =
                    [id \in DOMAIN mail[e].rows |-> ruleset_actions[id]]])
  /\ UNCHANGED <<tables, req, ghosts, snapshot>>

\* Evaluate, and look for the folder; the inbox takes what has none.
ChooseFolder(e) ==
  /\ mail[e].stage = "read" /\ Null \notin {mail[e].conditions, mail[e].actions}
  /\ LET m == mail[e]
         decision == EvaluateRulesets(
           {Evaluable(id, m.rows[id], m.conditions[id], m.actions[id]) : id \in DOMAIN m.rows}, m.ctx)
     IN MailGoes(e, [stage |-> "commit", ctx |-> m.ctx, decision |-> decision,
                     folder |-> IF decision.folder_id \in folders
                                THEN decision.folder_id ELSE Inbox])
  /\ UNCHANGED <<tables, req, ghosts, snapshot>>

\* The batch that stores the message, or fails: CommitEmail and RejectEmail of
\* MailboxStore.
StoreMail(e) ==
  /\ mail[e].stage = "commit"
  /\ MailGoes(e, Idle)
  /\ snapshot' = [snapshot EXCEPT ![e] = Null]
  /\ UNCHANGED <<tables, req, ghosts>>

-----------------------------------------------------------------------------

Next ==
  \/ \E r \in Requests :
       \/ BeginCreate(r) \/ BeginUpdate(r) \/ BeginDelete(r) \/ BeginToggle(r)
       \/ ValidateFolders(r) \/ SelectRuleset(r) \/ GetConditions(r) \/ GetActions(r)
       \/ CommitCreate(r) \/ CommitUpdate(r) \/ CommitDelete(r)
       \/ LoadFolder(r) \/ DropFolder(r)
  \/ \E e \in Emails :
       \/ SelectEnabled(e) \/ SelectConditions(e) \/ SelectActions(e)
       \/ ChooseFolder(e) \/ StoreMail(e)

Spec == Init /\ [][Next]_vars

-----------------------------------------------------------------------------
(* Properties                                                              *)

\* What a request carries, by the operation it is for.
Request ==
  {Idle}
  \cup [op : {"create", "update"}, stage : {"validate", "select", "commit"}, id : Ids, input : Input,
        torn : BOOLEAN]
  \cup [op : {"delete"}, stage : {"select", "commit"}, id : Ids]
  \cup [op : {"toggle"}, stage : {"details"}, id : Ids, row : Row,
        conditions : Conditions \cup {Null}, actions : Actions \cup {Null}, torn : BOOLEAN]
  \cup [op : {"drop"}, stage : {"commit"}, folder : CustomFolders]

\* Types of the tables and of the requests.
TypeOK ==
  /\ folders \subseteq CustomFolders
  /\ rulesets \in [Ids -> Row \cup {Absent}]
  /\ ruleset_conditions \in [Ids -> Conditions]
  /\ ruleset_actions \in [Ids -> Actions]
  /\ req \in [Requests -> Request]
  /\ submitted \in [Ids -> SUBSET Input] /\ mixed \subseteq Ids

\* A row stands for contents that a form sent; the flag may be another one, since
\* toggles and deleteFolder change it.
IsRowOf(row, input) ==
  row.priority = input.priority /\ row.logic_operator = input.logic_operator

\* Whatever replacements, toggles and deletions overlap, the three tables hold
\* what one form sent for a ruleset, complete, or nothing of it at all.  The one
\* exception is the code's: a toggle that read over another write puts back the row,
\* the conditions and the actions of up to three forms, until a form replaces them.
StoredWhole ==
  \A id \in Ids :
    IF rulesets[id] = Absent
    THEN ruleset_conditions[id] = <<>> /\ ruleset_actions[id] = <<>>
    ELSE \E u, v, w \in submitted[id] :
           /\ IsRowOf(rulesets[id], u)
           /\ ruleset_conditions[id] = v.conditions
           /\ ruleset_actions[id] = w.actions
           /\ id \notin mixed => u = v /\ v = w

Decided(e) == mail[e].stage = "commit"

\* RULE-3 to RULE-15: if the rulesets did not change while they were read, the
\* decision is the declared one.
DecisionAgrees ==
  \A e \in Emails :
    Decided(e) /\ snapshot[e] # Null => Decides(mail[e].decision, snapshot[e], mail[e].ctx)

\* However the three queries of the inbound handler interleave with changes and
\* deletions, a ruleset acts on a message only if conditions that a form once sent
\* for it match, and the folder is one that a ruleset that acted once named.
ActsOnlyOnMatch ==
  \A e \in Emails : Decided(e) =>
    LET decision == mail[e].decision
        acted == ToSet(decision.matched_ruleset_ids)
    IN /\ \A id \in acted : \E v, w \in submitted[id] :
            RulesetMatches([v EXCEPT !.conditions = w.conditions], mail[e].ctx)
       /\ decision.folder_id # Null =>
            \E id \in acted : \E input \in submitted[id] :
              decision.folder_id \in MoveTargets(input.actions)
=============================================================================
