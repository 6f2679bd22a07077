----------------------------- MODULE UserPanel ------------------------------
(***************************************************************************)
(* The page on which an administrator edits the users: the panel of        *)
(* master/frontend/UserSettings_Privs.hx, with the handlers of             *)
(* master/backend/Controller.hx that answer it.  Every request of the      *)
(* panel is an exchange of its own; the backend may carry out the ones     *)
(* that are under way in any order and their answers may come in any       *)
(* order.  The two quotas are alike and modelled as one; the password      *)
(* field, which only travels with a save, is left out.                     *)
(***************************************************************************)
EXTENDS Integers, Sequences, SequencesExt

CONSTANTS Ids, None,   \* the ids of users, and no user
          Names,       \* names an administrator may type
          NewUser,     \* the name addNewUser gives
          Numbers,     \* the mantissas of quotas
          MaxCalls,    \* bound on the requests of the panel
          MaxTyped     \* bound on the changes the administrator types

ASSUME PanelAssumption ==
  /\ None \notin Ids \cup Names \cup {NewUser} /\ NewUser \notin Names /\ 0 \in Numbers
  /\ MaxCalls \in Nat /\ MaxTyped \in Nat

VARIABLES table,      \* the backend's users, a function on the ids that exist
          selected,   \* selectedUser
          form,       \* the text of the fields
          users,      \* the list on the page
          calls,      \* the exchanges under way, in the order they were begun
          sent, typed,
          owner,      \* whose quota the field holds (history)
          edited,     \* it was typed (history)
          failed,     \* an exchange has failed (history)
          overtaken   \* an exchange has overtaken another (history)

vars == <<table, selected, form, users, calls, sent, typed, owner, edited, failed,
          overtaken>>
history == <<owner, edited>>

\* A quota as DataMath.format writes it: a number below 1024 and a unit, which
\* is or is not the byte.
Quota   == [number : Numbers, large : BOOLEAN]
Row     == [name : Names \cup {NewUser}, quota : Quota]
Nobody  == [name |-> None, id |-> None]
Zero    == [number |-> 0, large |-> FALSE]
Empty   == [name |-> None, quota |-> Zero]
Listed(t) == {[name |-> t[i].name, id |-> i] : i \in DOMAIN t}

\* A call and what the backend has answered.
Call(op, id, row) == [op |-> op, id |-> id, row |-> row, reply |-> "none", data |-> <<>>]

\* The text of a quota goes into a column of numbers, where its unit is lost.
Stored(q) == [q EXCEPT !.large = FALSE]

(***************************************************************************)
(* The backend.                                                            *)
(***************************************************************************)
\* What a request does to the users.
Effect(c) ==
  CASE c.op = "add"    -> {[i \in DOMAIN table \cup {n} |-> IF i = n THEN c.row ELSE table[i]] :
                             n \in Ids \ DOMAIN table}
    [] c.op = "change" -> {[table EXCEPT ![c.id] = [c.row EXCEPT !.quota = Stored(@)]]}
    [] c.op = "remove" -> {[i \in DOMAIN table \ {c.id} |-> table[i]]}
    [] OTHER           -> {table}

\* The users a request is about; the backend fails on one that does not exist.
Needs(c) == IF c.op \in {"change", "remove", "read"} THEN {c.id} ELSE {}

\* What it answers.
Data(c) ==
  CASE c.op = "read" -> table[c.id].quota
    [] c.op = "list" -> Listed(table)
    [] OTHER         -> <<>>

Unanswered(k) == calls[k].reply = "none"
Late(k)       == \E l \in 1 .. k - 1 : Unanswered(l)

\* The backend carries out the k-th call, a new user as far as Ids goes.
Serve(k) ==
  /\ Unanswered(k) /\ Needs(calls[k]) \subseteq DOMAIN table
  /\ table' \in Effect(calls[k])
  /\ calls' = [calls EXCEPT ![k].reply = "ok", ![k].data = Data(calls[k])]
  /\ overtaken' = (overtaken \/ Late(k))
  /\ UNCHANGED <<selected, form, users, sent, typed, history, failed>>

\* It does not: the user is gone, or the exchange breaks.  The callback is
\* called with an error, or, when the right is missing, not at all.
Break(k) ==
  /\ Unanswered(k)
  /\ \/ calls' = [calls EXCEPT ![k].reply = "error"]
     \/ calls' = RemoveAt(calls, k)
  /\ failed' = TRUE
  /\ UNCHANGED <<table, selected, form, users, sent, typed, history, overtaken>>

(***************************************************************************)
(* The panel.                                                              *)
(***************************************************************************)
\* The calls cs are begun when q are under way.
Begin(q, cs) ==
  /\ sent + Len(cs) <= MaxCalls
  /\ sent' = sent + Len(cs) /\ calls' = q \o cs

updateList == <<Call("list", None, Empty)>>

\* The calls updateSettings makes for the user s.
Reads(s) == IF s = Nobody THEN <<>> ELSE <<Call("read", s.id, Empty)>>

\* updateSettings shows the name, and clears the form if nobody is selected.
Shown(s) == IF s = Nobody THEN Empty ELSE [form EXCEPT !.name = s.name]

\* The panel is shown.
showUsers ==
  /\ Begin(calls, updateList)
  /\ UNCHANGED <<table, selected, form, users, typed, history, failed, overtaken>>

\* The settings of the new user are not asked for.
SelectSilently(s) ==
  /\ s \in users
  /\ selected' = s /\ form' = Shown(s)
  /\ Begin(calls, <<>>)
  /\ UNCHANGED <<table, users, typed, history, failed, overtaken>>

selectUser(s) ==
  /\ s \in users
  /\ selected' = s /\ form' = Shown(s)
  /\ Begin(calls, Reads(s))
  /\ UNCHANGED <<table, users, typed, history, failed, overtaken>>

\* The administrator types; the user selected is the one that is meant.
TypeQuota(n) ==
  /\ selected # Nobody /\ typed < MaxTyped
  /\ form' = [form EXCEPT !.quota = [number |-> n, large |-> FALSE]]
  /\ owner' = selected.id /\ edited' = TRUE /\ typed' = typed + 1
  /\ UNCHANGED <<table, selected, users, calls, sent, failed, overtaken>>

TypeName(n) ==
  /\ selected # Nobody /\ typed < MaxTyped
  /\ form' = [form EXCEPT !.name = n]
  /\ typed' = typed + 1
  /\ UNCHANGED <<table, selected, users, calls, sent, history, failed, overtaken>>

addNewUser ==
  /\ Begin(calls, <<Call("add", None, [name |-> NewUser, quota |-> Zero])>>)
  /\ UNCHANGED <<table, selected, form, users, typed, history, failed, overtaken>>

saveSelectedUser ==
  /\ selected # Nobody
  /\ Begin(calls, <<Call("change", selected.id, form)>>)
  /\ UNCHANGED <<table, selected, form, users, typed, history, failed, overtaken>>

\* The answer to the removal is not waited for.
deleteSelectedUser ==
  /\ selected # Nobody
  /\ selected' = Nobody /\ form' = Shown(Nobody)
  /\ Begin(calls, <<Call("remove", selected.id, Empty)>> \o updateList)
  /\ owner' = None /\ edited' = FALSE
  /\ UNCHANGED <<table, users, typed, failed, overtaken>>

\* The k-th call is answered.
Reply(k, op) ==
  /\ ~Unanswered(k) /\ calls[k].op = op
  /\ overtaken' = (overtaken \/ k > 1)
  /\ UNCHANGED <<table, typed, failed>>

\* The list is replaced, by an empty one if the answer is an error.
cb1(k) ==
  /\ Reply(k, "list")
  /\ users' = IF calls[k].reply = "ok" THEN calls[k].data ELSE {}
  /\ Begin(RemoveAt(calls, k), <<>>)
  /\ UNCHANGED <<selected, form, history>>

\* A user has been added, or not.
cb4(k) ==
  /\ Reply(k, "add")
  /\ Begin(RemoveAt(calls, k), updateList)
  /\ UNCHANGED <<selected, form, users, history>>

\* cb5 looks in the answer for the user who is selected now; if it is about
\* another one, or an error, the script throws and the fields stay as they are.
SettingsOf(c) == c.reply = "ok" /\ c.id = selected.id

cb5(k) ==
  /\ Reply(k, "read")
  /\ \/ /\ SettingsOf(calls[k])
        /\ form' = [form EXCEPT !.quota = calls[k].data]
        /\ owner' = calls[k].id
        /\ edited' = FALSE
     \/ ~SettingsOf(calls[k]) /\ UNCHANGED <<form, owner, edited>>
  /\ Begin(RemoveAt(calls, k), <<>>)
  /\ UNCHANGED <<selected, users>>

\* The form is not read again after a save.
SavedOnlyListed(k) ==
  /\ Reply(k, "change")
  /\ form' = Shown(selected)
  /\ Begin(RemoveAt(calls, k), updateList)
  /\ edited' = FALSE
  /\ UNCHANGED <<selected, users, owner>>

\* A save has ended, well or not.
cb6(k) ==
  /\ Reply(k, "change")
  /\ form' = Shown(selected)
  /\ Begin(RemoveAt(calls, k), updateList \o Reads(selected))
  /\ IF selected = Nobody THEN owner' = None /\ edited' = FALSE
     ELSE UNCHANGED <<owner, edited>>
  /\ UNCHANGED <<selected, users>>

\* Nobody asks for the answer to removeUser.
Ignored(k) ==
  /\ Reply(k, "remove")
  /\ Begin(RemoveAt(calls, k), <<>>)
  /\ UNCHANGED <<selected, form, users, history>>

Init ==
  /\ table \in UNION {[S -> [name : Names, quota : Quota \ {[Zero EXCEPT !.large = TRUE]}]] :
                        S \in SUBSET Ids}
  /\ selected = Nobody /\ form = Empty /\ users = {}
  /\ calls = <<>> /\ sent = 0 /\ typed = 0
  /\ owner = None /\ edited = FALSE
  /\ failed = FALSE /\ overtaken = FALSE

Next ==
  \/ showUsers \/ addNewUser \/ saveSelectedUser \/ deleteSelectedUser
  \/ \E s \in users : selectUser(s)
  \/ \E n \in Numbers : TypeQuota(n)
  \/ \E n \in Names : TypeName(n)
  \/ \E k \in 1 .. Len(calls) :
       Serve(k) \/ Break(k) \/ cb1(k) \/ cb4(k) \/ cb5(k) \/ cb6(k) \/ Ignored(k)

Spec == Init /\ [][Next]_vars
-----------------------------------------------------------------------------
Known == Names \cup {NewUser}

TypeOK ==
  /\ DOMAIN table \subseteq Ids /\ \A i \in DOMAIN table : table[i] \in Row
  /\ selected \in [name : Known, id : Ids] \cup {Nobody}
  /\ form \in [name : Known \cup {None}, quota : Quota]
  /\ form.name = None <=> selected = Nobody
  /\ users \subseteq [name : Known, id : Ids]
  /\ sent \in 0 .. MaxCalls /\ Len(calls) <= sent /\ typed \in 0 .. MaxTyped
  /\ owner \in Ids \cup {None}
  /\ {edited, failed, overtaken} \subseteq BOOLEAN

Idle == calls = <<>> /\ ~failed /\ ~overtaken

\* The field holds another user's quota, which a click on save would give to
\* the selected one, only until the answer for the selected user has come; if
\* that fails it stays there.
ForeignOnlyMeanwhile ==
  selected # Nobody /\ owner # selected.id =>
    failed \/ \E k \in 1 .. Len(calls) : calls[k].op = "read" /\ calls[k].id = selected.id

\* When every exchange has ended, in the order they were begun and none of
\* them in an error, the list shows the users that exist under their present
\* names, once it has been asked for, and the quota field what is stored for
\* the selected user, or what was typed: also after a save, which cuts the
\* unit off a quota that was shown with one.
ShowsStored ==
  Idle /\ sent > 0 =>
    /\ users = Listed(table)
    /\ selected # Nobody /\ ~edited =>
         selected.id \in DOMAIN table /\ form.quota = table[selected.id].quota
=============================================================================
