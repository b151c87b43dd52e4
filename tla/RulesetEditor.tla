---------------------------- MODULE RulesetEditor ----------------------------
(***************************************************************************)
(* The editor of rulesets: one component for a new ruleset and for each    *)
(* existing one, which loads the ruleset in the route and saves the form   *)
(* under the id in the route.                                              *)
(*                                                                         *)
(* Of the values in the form the model keeps which ruleset they were taken *)
(* from; of its conditions and actions the rows, and at each row whose     *)
(* error is shown there.                                                   *)
(***************************************************************************)
EXTENDS Naturals, Sequences, FiniteSets, UnderWay

CONSTANTS
  RulesetIds, None,
  New,          \* the route of a new ruleset
  MaxIds,       \* bound: ids of rows that are in use at a time
  MaxLength,    \* bound: rows of a list
  MaxBad,       \* bound: rows that validateForm finds wrong at a time
  MaxVisits     \* bound: changes of the route

VARIABLES
  editing,      \* the ruleset in the route, New, or None: another view
  form,         \* whose values, and the rows of its lists
  errors,       \* the row whose error is shown at each place of the lists
  isLoading, isSaving, notFound,
  details,      \* loads under way, in the order in which they began
  saves,        \* saves under way
  visits,       \* number of changes of the route so far
  mistaken      \* ghost: the values may be those of another ruleset: a load failed, or
                \* was answered after the route had changed

editorVars == <<editing, form, errors, isLoading, isSaving, notFound, details, saves,
                visits, mistaken>>

FormLists == {"conditions", "actions"}
Blank == "blank"
NoRows == [l \in FormLists |-> <<>>]
NoForm == [of |-> Blank, rows |-> NoRows]
NoErrors(rows) == [l \in FormLists |-> [i \in DOMAIN rows[l] |-> None]]

Init ==
  /\ editing = None
  /\ form = NoForm /\ errors = NoRows
  /\ isLoading = FALSE /\ isSaving = FALSE /\ notFound = FALSE
  /\ details = <<>> /\ saves = {} /\ visits = 0 /\ mistaken = FALSE

RowsOf(f) == UNION {Elements(f.rows[l]) : l \in FormLists}

SavedIds == UNION {RowsOf(s) : s \in saves}
ShownIds == RowsOf(form) \cup UNION {Elements(errors[l]) : l \in FormLists}

\* generateId: n ids that nothing else has.
FreeIds(used) == (1 .. MaxIds) \ used
NewIds(n, used) ==
  CHOOSE ids \in [1 .. n -> FreeIds(used)] : \A i, j \in 1 .. n : i # j => ids[i] # ids[j]

\* Rows for a whole form: between one and n of them in each list.
FreshRows(n) ==
  {LET ids == NewIds(c[1] + c[2], SavedIds)
   IN [l \in FormLists |-> IF l = "conditions" THEN SubSeq(ids, 1, c[1])
                           ELSE SubSeq(ids, c[1] + 1, c[1] + c[2])] :
     c \in {counts \in (1 .. n) \X (1 .. n) :
             counts[1] + counts[2] <= Cardinality(FreeIds(SavedIds))}}

\* The form gets other values.
Filled(of, rows) ==
  /\ form' = [of |-> of, rows |-> rows]
  /\ errors' = NoErrors(rows)

-----------------------------------------------------------------------------
(* Loading                                                                 *)

\* Mutant of LoadRuleset: the form stays on the screen while the ruleset is loaded.
LoadRulesetInForm(rest, to) ==
  IF to = New
  THEN /\ \E rows \in FreshRows(1) : Filled(Blank, rows)
       /\ details' = rest
       /\ UNCHANGED <<isLoading, notFound>>
  ELSE /\ details' = Append(rest, [stage |-> "get", of |-> to])
       /\ notFound' = FALSE
       /\ UNCHANGED <<form, errors, isLoading>>

\* loadRuleset: a new one starts with one row of each kind.
LoadRuleset(rest, to) ==
  IF to = New
  THEN /\ \E rows \in FreshRows(1) : Filled(Blank, rows)
       /\ details' = rest
       /\ UNCHANGED <<isLoading, notFound>>
  ELSE /\ details' = Append(rest, [stage |-> "get", of |-> to])
       /\ isLoading' = TRUE /\ notFound' = FALSE
       /\ UNCHANGED <<form, errors>>

\* From the list: a new component, whose init loads the folders first.  Its state
\* is that of Init, which Closed goes back to.
OpenEditor ==
  /\ editing = None /\ visits < MaxVisits /\ visits' = visits + 1
  /\ editing' \in RulesetIds \cup {New}
  /\ details' = <<[stage |-> "folders", of |-> None]>>
  /\ UNCHANGED <<form, errors, isLoading, isSaving, notFound, saves, mistaken>>

LoadFolders ==
  /\ \E i \in DOMAIN details :
       /\ details[i].stage = "folders"
       /\ LoadRuleset(Without(details, i), editing)
  /\ UNCHANGED <<editing, isSaving, saves, visits, mistaken>>

\* Another ruleset through the history of the browser; the component stays.
ChangeRoute ==
  /\ editing # None /\ visits < MaxVisits /\ visits' = visits + 1
  /\ editing' \in (RulesetIds \cup {New}) \ {editing}
  /\ LoadRuleset(details, editing')
  /\ UNCHANGED <<isSaving, saves, mistaken>>

PopulateDetail ==
  /\ \E i \in DOMAIN details :
       /\ details[i].stage = "get"
       /\ \E rows \in FreshRows(MaxLength) : Filled(details[i].of, rows)
       /\ details' = Without(details, i)
       /\ mistaken' = (mistaken \/ details[i].of # editing)
  /\ isLoading' = FALSE
  /\ UNCHANGED <<editing, isSaving, notFound, saves, visits>>

\* The ruleset is gone, or another error: then the form comes back as it was.
LoadFails ==
  /\ \E i \in DOMAIN details :
       /\ details[i].stage = "get"
       /\ details' = Without(details, i)
  /\ notFound' \in {notFound, TRUE}
  /\ isLoading' = FALSE
  /\ mistaken' = TRUE
  /\ UNCHANGED <<editing, form, errors, isSaving, saves, visits>>

-----------------------------------------------------------------------------
(* Rows                                                                    *)

\* The form is shown, and its controls are not disabled.
Editable == editing # None /\ ~isLoading /\ ~notFound /\ ~isSaving

formOnly == <<editing, isLoading, isSaving, notFound, details, saves, visits, mistaken>>

AddRow ==
  /\ Editable
  /\ FreeIds(SavedIds \cup ShownIds) # {}
  /\ \E l \in FormLists :
       /\ Len(form.rows[l]) < MaxLength
       /\ form' = [form EXCEPT !.rows[l] = Append(@, NewIds(1, SavedIds \cup ShownIds)[1])]
       /\ errors' = [errors EXCEPT ![l] = Append(@, None)]
  /\ UNCHANGED formOnly

RemoveRow ==
  /\ Editable
  /\ \E l \in FormLists : \E i \in DOMAIN form.rows[l] :
       /\ Len(form.rows[l]) > 1
       /\ form' = [form EXCEPT !.rows[l] = Without(@, i)]
       /\ errors' = [errors EXCEPT ![l] = Without(@, i)]
  /\ UNCHANGED formOnly

Swapped(s, i) == [s EXCEPT ![i] = s[i + 1], ![i + 1] = s[i]]

\* A row changes places with its neighbour.
MoveRow ==
  /\ Editable
  /\ \E l \in FormLists : \E i \in 1 .. Len(form.rows[l]) - 1 :
       /\ form' = [form EXCEPT !.rows[l] = Swapped(@, i)]
       /\ errors' = [errors EXCEPT ![l] = Swapped(@, i)]
  /\ UNCHANGED formOnly

-----------------------------------------------------------------------------
(* Saving                                                                  *)

\* validateForm marks the rows that are not good, or there is none of a kind, or
\* the name or priority is wrong: the form is not sent.
ValidateForm ==
  /\ Editable
  /\ \E bad \in SUBSET RowsOf(form) :
       /\ Cardinality(bad) <= MaxBad
       /\ errors' = [l \in FormLists |-> [i \in DOMAIN form.rows[l] |->
                       IF form.rows[l][i] \in bad THEN form.rows[l][i] ELSE None]]
  /\ UNCHANGED <<formOnly, form>>

\* init is still loading the folders: the form is shown, and it is the blank one.
Early == \E i \in DOMAIN details : details[i].stage = "folders"

\* The form is sent as a new ruleset or under the id in the route.
Submit ==
  /\ Editable
  /\ \A l \in FormLists : form.rows[l] # <<>>
  /\ errors' = NoErrors(form.rows)
  /\ isSaving' = TRUE
  /\ saves' = saves \cup {[id |-> editing, of |-> form.of, rows |-> form.rows,
                           live |-> TRUE, mistaken |-> mistaken, early |-> Early]}
  /\ UNCHANGED <<editing, form, isLoading, notFound, details, visits, mistaken>>

\* The editor goes, and its state with it; its saves go on, but their errors are
\* shown nowhere.
Closed(ss) ==
  /\ editing' = None
  /\ form' = NoForm /\ errors' = NoRows
  /\ isLoading' = FALSE /\ isSaving' = FALSE /\ notFound' = FALSE
  /\ details' = <<>> /\ mistaken' = FALSE
  /\ saves' = {[s EXCEPT !.live = FALSE, !.rows = NoRows] : s \in ss}

\* Done: to the list, from wherever the user is by now.
SaveDone ==
  /\ \E s \in saves : Closed(saves \ {s})
  /\ UNCHANGED visits

\* mapSaveError: the error of a row is shown at its index.
SaveFails ==
  /\ \E s \in saves :
       /\ saves' = saves \ {s}
       /\ isSaving' = (isSaving /\ ~s.live)
       /\ \/ UNCHANGED errors
          \/ /\ s.live
             /\ \E l \in FormLists : \E i \in DOMAIN s.rows[l] :
                  errors' = IF i \in DOMAIN form.rows[l]
                            THEN [errors EXCEPT ![l][i] = s.rows[l][i]] ELSE errors
  /\ UNCHANGED <<editing, form, isLoading, notFound, details, visits, mistaken>>

\* Cancel, or any other way out of the view.
Leave ==
  /\ editing # None
  /\ Closed(saves)
  /\ UNCHANGED visits

Next ==
  \/ OpenEditor \/ LoadFolders \/ ChangeRoute \/ PopulateDetail \/ LoadFails
  \/ AddRow \/ RemoveRow \/ MoveRow
  \/ ValidateForm \/ Submit \/ SaveDone \/ SaveFails \/ Leave

Spec == Init /\ [][Next]_editorVars

-----------------------------------------------------------------------------
(* Properties                                                              *)

\* What is saved as one ruleset holds that ruleset's own values, and only a new one
\* is made from the blank form: while the right values are on their way there is no
\* form to send.  The code has two exceptions.  While init loads the folders the blank
\* form is shown under an existing ruleset, can be filled in and is saved over it
\* (RulesetEditorTab.vue:85, :404); and when a load failed or was answered after the
\* route had changed, the form may hold other values.
\* And however rows are added, removed and moved, the error shown at a row is not
\* that of another row of the form, also when the save that found it failed only then.
\* (An error of a row that is gone can stand at a row: the route was changed over a save.)
FormBelongs ==
  /\ \A s \in saves : ~s.mistaken =>
       \/ s.of = IF s.id = New THEN Blank ELSE s.id
       \/ s.early /\ s.of = Blank
  /\ editing # None =>
    \A l \in FormLists :
      /\ Len(errors[l]) = Len(form.rows[l])
      /\ \A i \in DOMAIN errors[l] :
           errors[l][i] \in ((1 .. MaxIds) \ RowsOf(form)) \cup {None, form.rows[l][i]}

\* The skeleton is shown only while a load will take it away.
LoadingFormEnds ==
  editing # None /\ isLoading => \E i \in DOMAIN details : details[i].stage = "get"
=============================================================================
