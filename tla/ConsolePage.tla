----------------------------- MODULE ConsolePage -----------------------------
(***************************************************************************)
(* The pages of the console that edit rows: user.js, role.js, menu.js and  *)
(* scheduler.js, each with its list.html.  A page is one state of the DOM  *)
(* that every dialog shares: one form, one checkbox tree, one button per   *)
(* kind of confirmation, with the row it is for kept in the closure last   *)
(* bound to it.  A click changes it and sends a request; answers change it *)
(* again, whenever and in whatever order they arrive, whatever the         *)
(* operator has opened since.                                              *)
(*                                                                         *)
(* What a row says is a text, of what its editor sends (for a role the     *)
(* name: an edited description is never sent), told apart only by where it *)
(* is from: the text a row was installed with, one typed for a row, one    *)
(* typed for a new row, none.  The boxes ticked for a row are told apart   *)
(* by the row whose tree they were read from.  Requests are handled one at *)
(* a time here; RoleMenu, UserRole and ScheduleJob have what they do on    *)
(* the server.                                                             *)
(* While a dialog is shown its backdrop covers the page.                   *)
(*                                                                         *)
(* A definition commented "Mistake" is no part of the model: see           *)
(* DisruptorEvent.                                                         *)
(***************************************************************************)
EXTENDS Naturals, Sequences, SequencesExt

CONSTANTS
  Pages,     \* the pages: among "user", "role", "menu", "scheduler"
  Rows,      \* ids of rows
  SeedRows,  \* those there when the page is loaded
  Owns,      \* the sets of those an operator may have, where rows are roles
  NoRow,     \* an empty id field, a closure not bound yet
  MaxNet,    \* bound: requests and answers on their way at a time
  MaxClicks  \* bound: clicks that open a dialog

ASSUME PageAssumption ==
  Pages \subseteq {"user", "role", "menu", "scheduler"}
ASSUME RowAssumption ==
  /\ SeedRows \subseteq Rows /\ NoRow \notin Rows
  /\ Owns \subseteq SUBSET SeedRows
  /\ MaxNet \in Nat /\ MaxClicks \in Nat

VARIABLES
  page,     \* the page that is loaded
  text,     \* server: the text of a row
  used,     \* server: the rows ever inserted
  deleted,  \* server: rows deleted, or marked deleted
  granted,  \* server: the row whose boxes a row was last saved with
  own,      \* server: the operator's roles in his session, if rows are roles
  listed,   \* the rows the page lists, with the text it lists
  form,     \* the fields of #editorDialog, or of the form in #myModal
  tree,     \* the row whose boxes #roleTree or #privilegeTree shows
  shown,    \* the dialogs shown
  buttons,  \* the confirmations whose button is not of class none
  bound,    \* the row in the closure bound to a button
  opened,   \* history: the click that opened a dialog last, and its row
  crossed,  \* history: a dialog was opened before an earlier one was filled
  calm,     \* history: every click waited for the answers to those before,
            \* and no answer was lost
  stale,    \* history: since a list was last asked for with no other on its
            \* way, another was too, or one was lost or refused, or the answer
            \* to a write, which asks for one
  clicks,   \* how many dialogs were opened, for the bound
  net       \* requests and answers on their way

dom     == <<listed, form, tree, shown, buttons, bound>>
server  == <<text, used, deleted, granted, own>>
history == <<opened, crossed, calm, clicks>>
vars    == <<page, server, dom, history, stale, net>>

Of(i)    == [what |-> "of", row |-> i]
Typed(i) == [what |-> "typed", row |-> i]
New      == [what |-> "new", row |-> NoRow]
Blank    == [what |-> "blank", row |-> NoRow]
Unlisted == [what |-> "unlisted", row |-> NoRow]
Texts    == {Of(i) : i \in Rows} \cup {Typed(i) : i \in Rows} \cup {New, Blank}

Fills    == {"detail", "tree"}
Writes   == {"update", "add", "delete"}
Confirms == {"edit", "add", "delete", "grant"}
Dialogs  == {"editorDialog", "myModal", "grantDialog"}

\* No list is read.
NoRows == <<>>

\* A request, and later its answer.
Message ==
  [op : Fills \cup Writes \cup {"grant", "run", "list"},
   stage : {"sent", "done", "refused"},
   row : Rows \cup {NoRow},    \* the row it names; for "add" the parent
   text : Texts,               \* the fields sent, or read for "detail"
   live : BOOLEAN,             \* the state field, sent by the user page alone
   tree : Rows \cup {NoRow},   \* "grant": the row whose boxes were ticked
   rows : [Rows -> Texts \cup {Unlisted}] \cup {NoRows},  \* read for "list"
   asked : Rows \cup {NoRow}]  \* history: the row of the click opened last

Send(op, i) == [op |-> op, stage |-> "sent", row |-> i, text |-> Blank,
                live |-> TRUE, tree |-> NoRow, rows |-> NoRows, asked |-> NoRow]

TypeOK ==
  /\ page \in Pages
  /\ text \in [Rows -> Texts]
  /\ used \subseteq Rows /\ deleted \subseteq Rows
  /\ granted \in [Rows -> Rows] /\ own \subseteq SeedRows
  /\ listed \in [Rows -> Texts \cup {Unlisted}]
  /\ form \in [id : Rows \cup {NoRow}, text : Texts, live : BOOLEAN]
  /\ tree \in Rows \cup {NoRow}
  /\ shown \subseteq Dialogs /\ ~({"editorDialog", "myModal"} \subseteq shown)
  /\ buttons \subseteq Confirms
  /\ bound \in [Confirms -> Rows \cup {NoRow}]
  /\ opened \in [op : Confirms \cup {"run", "none"}, row : Rows \cup {NoRow}]
  /\ crossed \in BOOLEAN /\ calm \in BOOLEAN /\ stale \in BOOLEAN
  /\ clicks \in 0..MaxClicks
  /\ net \in Seq(Message) /\ Len(net) <= MaxNet

Init ==
  /\ page \in Pages
  /\ text = [i \in Rows |-> IF i \in SeedRows THEN Of(i) ELSE Blank]
  /\ used = SeedRows /\ deleted = {}
  /\ granted = [i \in Rows |-> i]
  /\ own \in IF page = "role" THEN Owns ELSE {{}}
  /\ listed = [i \in Rows |-> IF i \in SeedRows THEN Of(i) ELSE Unlisted]
  /\ form = [id |-> NoRow, text |-> Blank, live |-> TRUE]
  /\ tree = NoRow
  /\ shown = {}
  /\ buttons = CASE page = "user"      -> {"edit", "grant"}
                 [] page = "scheduler" -> {"edit"}
                 [] OTHER              -> {"edit", "delete"}
  /\ bound = [c \in Confirms |-> NoRow]
  /\ opened = [op |-> "none", row |-> NoRow]
  /\ crossed = FALSE /\ calm = TRUE /\ stale = FALSE /\ clicks = 0
  /\ net = <<>>

-----------------------------------------------------------------------------
(* Clicks on the page, which open a dialog.                                *)

\* The dialog that takes clicks: the grant dialog, last in the document,
\* covers the others.
Top == IF "grantDialog" \in shown THEN {"grantDialog"} ELSE shown

\* The dialog of an operation: the scheduler's page has one for all.
Dialog(op) == IF page = "scheduler" THEN "myModal"
              ELSE CASE op = "grant"           -> "grantDialog"
                     [] op = "delete"          -> "myModal"
                     [] op \in {"edit", "add"} -> "editorDialog"

Listed == {i \in Rows : listed[i] # Unlisted}

Pending == \E k \in DOMAIN net : net[k].op \in Fills

\* A click on operation op of row i: the requests it sends are msgs.
Click(op, i, msgs) ==
  /\ shown = {}
  /\ clicks < MaxClicks /\ clicks' = clicks + 1
  /\ Len(net) + Len(msgs) <= MaxNet
  /\ opened' = [op |-> op, row |-> i]
  /\ crossed' = (crossed \/ (op \in {"edit", "add", "grant"} /\ Pending))
  /\ calm' = (calm /\ net = <<>>)
  /\ net' = net \o msgs
  /\ UNCHANGED <<page, server, stale, listed>>

\* Mistake: no button is hidden.
ShowToo(op) == buttons' = buttons \cup {op}

\* The button of op is shown and every other of class btn-primary hidden.
ShowOnly(op) == buttons' = {op}

\* Mistake: a handler that is there already is kept.
BindOnce(op, i) == bound' = [bound EXCEPT ![op] = IF @ = NoRow THEN i ELSE @]

\* unbind, then click: the closure of the button of op is for row i.
Bind(op, i) == bound' = [bound EXCEPT ![op] = i]

\* Mistake: the id is left on every page.
ClearDataText == [form EXCEPT !.text = Blank]

\* Mistake: nothing is cleared.
ClearDataNot == form

\* clearData of the page: users.clearData leaves the id and the state.  The
\* scheduler's page has a fresh form, and no id in it.
ClearData ==
  IF page \in {"role", "menu"} THEN [form EXCEPT !.id = NoRow, !.text = Blank]
                               ELSE [form EXCEPT !.text = Blank]

\* The editor opens at once and is filled when the detail arrives.
Edit(i) ==
  /\ page # "scheduler" /\ i \in Listed
  /\ Click("edit", i, <<Send("detail", i)>>)
  /\ form' = ClearData
  /\ ShowOnly("edit")
  /\ shown' = shown \cup {"editorDialog"}
  /\ UNCHANGED <<tree, bound>>

\* modify and update CRON on the scheduler's page: the row's own cells fill
\* the form.
EditInRow(i) ==
  /\ page = "scheduler" /\ i \in Listed
  /\ Click("edit", i, <<>>)
  /\ form' = [form EXCEPT !.text = listed[i]]
  /\ Bind("edit", i)
  /\ ShowOnly("edit")
  /\ shown' = shown \cup {"myModal"}
  /\ UNCHANGED tree

\* A role or menu is added below a row, a user or job below none.
Add(i) ==
  /\ IF page \in {"role", "menu"} THEN i \in Listed ELSE i = NoRow
  /\ Click("add", i, <<>>)
  /\ form' = ClearData
  /\ Bind("add", i)
  /\ ShowOnly("add")
  /\ shown' = shown \cup {Dialog("add")}
  /\ UNCHANGED tree

\* beforeRemove of roles and menus leaves the buttons as they are.
Delete(i) ==
  /\ i \in Listed
  /\ Click("delete", i, <<>>)
  /\ Bind("delete", i)
  /\ IF page \in {"role", "menu"} THEN UNCHANGED buttons ELSE ShowOnly("delete")
  /\ shown' = shown \cup {"myModal"}
  /\ UNCHANGED <<form, tree>>

\* The role page shows the dialog when the tree arrives; the user page at
\* once, with the tree of the user before in it.
Grant(i) ==
  /\ page \in {"user", "role"} /\ i \in Listed
  /\ Click("grant", i, <<Send("tree", i)>>)
  /\ Bind("grant", i)
  /\ IF page = "role" THEN ShowOnly("grant") /\ UNCHANGED shown
                      ELSE /\ buttons' = buttons \cup {"grant"}
                           /\ shown' = shown \cup {"grantDialog"}
  /\ UNCHANGED <<form, tree>>

\* "Run now" opens the dialog of the scheduler's page as it was left.
RunNow(i) ==
  /\ page = "scheduler" /\ i \in Listed
  /\ Click("run", i, <<Send("run", i)>>)
  /\ shown' = shown \cup {"myModal"}
  /\ UNCHANGED <<form, tree, bound, buttons>>

-----------------------------------------------------------------------------
(* Inside a dialog.                                                        *)

CanConfirm(op) == Top = {Dialog(op)} /\ op \in buttons

\* A confirmation sends its request, and leaves the dialog to the answer.
Confirm(op, msg) ==
  /\ CanConfirm(op)
  /\ Len(net) < MaxNet
  /\ calm' = (calm /\ net = <<>>)
  /\ net' = Append(net, msg)
  /\ UNCHANGED <<page, server, dom, opened, crossed, clicks, stale>>

ConfirmEdit ==
  /\ page = "scheduler" => bound["edit"] # NoRow
  /\ Confirm("edit", [Send("update", IF page = "scheduler" THEN bound["edit"]
                                                           ELSE form.id)
                      EXCEPT !.text = form.text, !.live = form.live,
                             !.asked = opened.row])

ConfirmAdd ==
  Confirm("add", [Send("add", bound["add"])
                  EXCEPT !.text = form.text, !.asked = opened.row])

ConfirmDelete ==
  /\ bound["delete"] # NoRow
  /\ Confirm("delete", [Send("delete", bound["delete"])
                        EXCEPT !.asked = opened.row])

\* Mistake: a dialog without a tree saves no boxes.
ConfirmGrantAnyway ==
  Confirm("grant", [Send("grant", bound["grant"]) EXCEPT !.tree = tree])

\* Without a tree the handler throws.
ConfirmGrant ==
  /\ tree # NoRow
  /\ Confirm("grant", [Send("grant", bound["grant"]) EXCEPT !.tree = tree])

\* The operator types into the form, for the row that was clicked.
Type ==
  /\ CanConfirm("edit") \/ CanConfirm("add")
  /\ page = "scheduler" /\ "edit" \in buttons => bound["edit"] # NoRow
  /\ form' = [form EXCEPT !.text =
                IF "add" \in buttons THEN New ELSE Typed(opened.row)]
  /\ UNCHANGED <<page, server, listed, tree, shown, buttons, bound, history,
                 stale, net>>

Close ==
  /\ shown # {}
  /\ shown' = shown \ Top
  /\ UNCHANGED <<page, server, listed, form, tree, buttons, bound, history,
                 stale, net>>

-----------------------------------------------------------------------------
(* The server.                                                             *)

\* Users and roles are marked deleted, and still read and listed.
Exists == IF page \in {"user", "role"} THEN used ELSE used \ deleted

\* What the table says of a row.
Current(i) == IF i \in Exists THEN text[i] ELSE Unlisted

\* The operator's own roles are listed from the session, with the text they had
\* when he logged in, here that of the page's loading.  None of them is taken to
\* be below another, and every other role to be below one of them.
Listing == [i \in Rows |-> IF i \in own THEN Of(i) ELSE Current(i)]

Answered(k, m) == net' = [net EXCEPT ![k] = [m EXCEPT !.stage = "done"]]

\* The answer to a write says no more than that it is done.
Written(k, m)  == Answered(k, Send(m.op, NoRow))

\* Mistake: the state is left at its default.
HandleDetailLive(k, m) ==
  /\ m.op = "detail" /\ m.row \in Exists
  /\ Answered(k, [m EXCEPT !.text = text[m.row]])
  /\ UNCHANGED server

HandleDetail(k, m) ==
  /\ m.op = "detail" /\ m.row \in Exists
  /\ Answered(k, [m EXCEPT !.text = text[m.row], !.live = m.row \notin deleted])
  /\ UNCHANGED server

HandleTree(k, m) ==
  /\ m.op = "tree" /\ Answered(k, m) /\ UNCHANGED server

\* An update without an id changes no user and no role.  The user page alone
\* sends the state; that of a role which is not sent is the one of a new role,
\* and written, so that to edit a deleted role is to restore it.
HandleUpdate(k, m) ==
  /\ m.op = "update"
  /\ m.row \in Exists \cup (IF page \in {"user", "role"} THEN {NoRow} ELSE {})
  /\ text' = [i \in Rows |-> IF i = m.row THEN m.text ELSE text[i]]
  /\ deleted' = CASE page = "user" /\ ~m.live ->
                       deleted \cup ({m.row} \cap Rows)
                  [] page \in {"menu", "scheduler"} -> deleted
                  [] OTHER -> deleted \ {m.row}
  /\ Written(k, m) /\ UNCHANGED <<used, granted, own>>

HandleAdd(k, m) ==
  /\ m.op = "add"
  /\ \E i \in Rows \ used :
       used' = used \cup {i} /\ text' = [text EXCEPT ![i] = m.text]
  /\ Written(k, m) /\ UNCHANGED <<deleted, granted, own>>

\* The scheduler's page sends no name of a job: to make a key of none fails,
\* and the request is refused.
HandleDelete(k, m) ==
  /\ m.op = "delete" /\ page # "scheduler"
  /\ deleted' = deleted \cup {m.row}
  /\ Written(k, m) /\ UNCHANGED <<text, used, granted, own>>

HandleGrant(k, m) ==
  /\ m.op = "grant"
  /\ granted' = [granted EXCEPT ![m.row] = m.tree]
  /\ Written(k, m) /\ UNCHANGED <<text, used, deleted, own>>

HandleOther(k, m) ==
  /\ \/ m.op = "run" /\ Written(k, m)
     \/ m.op = "list" /\ Answered(k, [m EXCEPT !.rows = Listing])
  /\ UNCHANGED server

\* Any request may be refused, with a code other than 200.
Refuse(k, m) ==
  /\ net' = [net EXCEPT ![k] = [Send(m.op, NoRow) EXCEPT !.stage = "refused"]]
  /\ UNCHANGED server

Serve ==
  /\ \E k \in DOMAIN net :
       /\ net[k].stage = "sent"
       /\ \/ HandleDetail(k, net[k]) \/ HandleTree(k, net[k])
          \/ HandleUpdate(k, net[k]) \/ HandleAdd(k, net[k])
          \/ HandleDelete(k, net[k]) \/ HandleGrant(k, net[k])
          \/ HandleOther(k, net[k]) \/ Refuse(k, net[k])
  /\ UNCHANGED <<page, dom, history, stale>>

-----------------------------------------------------------------------------
(* Callbacks.                                                              *)

\* Message m is a list on its way, or will ask for one once it is taken.
Due(m) == m.op = "list" \/ (m.op \in Writes /\ m.stage = "done")

Dropped(k) == net' = RemoveAt(net, k)
Taken(k)   == Dropped(k) /\ UNCHANGED stale

Reload(k) ==
  /\ net' = Append(RemoveAt(net, k), Send("list", NoRow))
  /\ stale' = (\E j \in DOMAIN net : net[j].op = "list")

Hide(d) == shown' = shown \ {d}

\* Mistake: the id stays that of the row clicked last.
TakeDetailText(k, m) ==
  /\ m.op = "detail" /\ Taken(k)
  /\ form' = [id |-> opened.row, text |-> m.text,
              live |-> IF page = "user" THEN m.live ELSE form.live]
  /\ UNCHANGED <<listed, tree, shown>>

\* The answer to a detail fills whatever form is there.
TakeDetail(k, m) ==
  /\ m.op = "detail" /\ Taken(k)
  /\ form' = [id |-> m.row, text |-> m.text,
              live |-> IF page = "user" THEN m.live ELSE form.live]
  /\ UNCHANGED <<listed, tree, shown>>

TakeTree(k, m) ==
  /\ m.op = "tree" /\ Taken(k)
  /\ tree' = m.row
  /\ shown' = shown \cup {"grantDialog"}
  /\ UNCHANGED <<listed, form>>

\* The user page looks for result.ret, which no answer has: it alerts, and
\* neither lists again nor closes the dialog.  The role and menu pages close
\* whatever dialog is shown.
TakeSaved(k, m) ==
  /\ m.op \in {"update", "add"}
  /\ CASE page = "user"      -> Taken(k) /\ UNCHANGED shown
       [] page = "scheduler" -> Reload(k) /\ Hide("myModal")
       [] OTHER              -> Reload(k) /\ shown' = {}
  /\ UNCHANGED <<listed, form, tree>>

\* Mistake: the page does not list again.
TakeDeletedOrRunOnly(k, m) ==
  /\ m.op \in {"delete", "run"} /\ Taken(k) /\ Hide("myModal")
  /\ UNCHANGED <<listed, form, tree>>

TakeDeletedOrRun(k, m) ==
  /\ m.op \in {"delete", "run"} /\ Reload(k) /\ Hide("myModal")
  /\ UNCHANGED <<listed, form, tree>>

TakeGranted(k, m) ==
  /\ m.op = "grant" /\ Taken(k) /\ Hide("grantDialog")
  /\ UNCHANGED <<listed, form, tree>>

TakeList(k, m) ==
  /\ m.op = "list" /\ Taken(k)
  /\ listed' = m.rows
  /\ UNCHANGED <<form, tree, shown>>

TakeDone ==
  /\ \E k \in DOMAIN net :
       /\ net[k].stage = "done"
       /\ \/ TakeDetail(k, net[k]) \/ TakeTree(k, net[k])
          \/ TakeSaved(k, net[k]) \/ TakeDeletedOrRun(k, net[k])
          \/ TakeGranted(k, net[k]) \/ TakeList(k, net[k])
  /\ UNCHANGED <<page, server, buttons, bound, history>>

\* A refusal is alerted; it closes the dialog of a deletion, a run or a grant,
\* and leaves the others.
TakeRefused ==
  \E k \in DOMAIN net :
    /\ net[k].stage = "refused" /\ Dropped(k)
    /\ stale' = (stale \/ Due(net[k]))
    /\ shown' = CASE net[k].op \in {"delete", "run"} -> shown \ {"myModal"}
                  [] net[k].op = "grant" -> shown \ {"grantDialog"}
                  [] OTHER -> shown
    /\ calm' = (calm /\ net[k].op \notin Fills \cup {"list"})
    /\ UNCHANGED <<page, server, listed, form, tree, buttons, bound,
                   opened, crossed, clicks>>

\* A request or its answer is lost: no callback runs.
Lose ==
  /\ \E k \in DOMAIN net :
       /\ Dropped(k)
       /\ stale' = (stale \/ Due(net[k]))
  /\ calm' = FALSE
  /\ UNCHANGED <<page, server, dom, opened, crossed, clicks>>

Next ==
  \/ \E i \in Rows \cup {NoRow} :
       Edit(i) \/ EditInRow(i) \/ Add(i) \/ Delete(i) \/ Grant(i) \/ RunNow(i)
  \/ ConfirmEdit \/ ConfirmAdd \/ ConfirmDelete \/ ConfirmGrant
  \/ Type \/ Close
  \/ Serve \/ TakeDone \/ TakeRefused \/ Lose

Spec == Init /\ [][Next]_vars

-----------------------------------------------------------------------------
(* Properties.                                                             *)

\* Whatever is late, lost or clicked in between, the text a row had at first
\* is never written to another row, and only the user page, whose editor keeps
\* the id of the row before, can leave a row blank.
TextStaysHome ==
  \A i \in SeedRows :
    /\ text[i].what = "of" => text[i].row = i
    /\ text[i] = Blank => page = "user"

\* On the role and menu pages no dialog was opened before an earlier one was
\* filled; on the user and scheduler pages the operator waited for every answer.
Orderly == IF page \in {"role", "menu"} THEN ~crossed ELSE calm

\* What is typed for a row is written to it and to no other: on the role and
\* menu pages unless a dialog was opened before an earlier one was filled; on
\* the user and scheduler pages, whose dialogs open with what the last one
\* left, only for an operator who waits for every answer.
EditsLandHome ==
  Orderly => \A i \in SeedRows : text[i] \in {Of(i), Typed(i)}

\* Likewise, a row is saved with boxes of its own tree: the role page shows
\* its dialog only with a tree, the user page with the one before.
GrantsLandHome == Orderly => \A i \in Rows : granted[i] = i

\* The request m is for the row the operator clicked last: an update may name
\* none, and may be for another where edits do not land home; a deletion or an
\* addition may on the scheduler's page, where "run now" shows the last dialog
\* again, with its button for the row it was for, until the run is answered.
IsAsked(m) ==
  /\ m.op = "update" /\ m.stage = "sent" /\ Orderly =>
       m.row \in {NoRow, m.asked}
  /\ m.op \in {"add", "delete"} /\ m.row # m.asked =>
       page = "scheduler" /\ ~calm

\* A row is changed, deleted or added below that the operator clicked last.
WritesAreAsked == \A k \in DOMAIN net : IsAsked(net[k])

\* A new row has no text of another row, unless its form was opened while an
\* editor was still to be filled.
AddIsClean ==
  ~crossed => \A i \in used \ SeedRows : text[i].what # "of"

\* The dialog on top has the button of the operation it was opened for, and of
\* no other, whatever answers came late; but for the deletion dialog of the
\* role and menu pages, and "run now".
ConfirmVisible ==
  \A d \in Top :
    d = Dialog(opened.op) /\ opened.op # "run"
    /\ ~(page \in {"role", "menu"} /\ opened.op = "delete") =>
      {b \in buttons : Dialog(b) = d} = {opened.op}

\* The update of row i that a step serves was confirmed in a dialog opened for
\* that row.
EditServed(i) ==
  \E k \in DOMAIN net : /\ net[k].op = "update" /\ net[k].stage = "sent"
                        /\ net[k].row = i /\ net[k].asked = i

\* What was deleted comes back: a user, whose editor sends the state it was last
\* filled with, only to an operator who did not wait; a role only by an edit
\* that was meant for it, unless a dialog was opened before an earlier one was
\* filled; a menu or a job never.
DeletedStays ==
  [][\A i \in deleted \ deleted' :
       \/ page = "user" /\ ~calm
       \/ page = "role" /\ (crossed \/ EditServed(i))]_vars

\* Whatever the operator did not wait for, the page lists what the table says
\* once no list is on its way and every write is answered, unless two lists
\* overtook each other or one was lost since one was asked for alone; but for
\* the user page, which takes every saved row for a failure, and the roles
\* listed from the session.
ListInSync ==
  ~stale /\ page # "user" /\ (\A k \in DOMAIN net : ~Due(net[k])) =>
    \A i \in Rows \ own : listed[i] = Current(i)

-----------------------------------------------------------------------------
(* The inductive invariant behind TextStaysHome.                           *)

\* Text t may be in row i, or be written there.
Home(i, t) ==
  i \in SeedRows => /\ t.what = "of" => t.row = i
                    /\ t = Blank => page = "user"

\* What requests and answers carry.
HomeMessages ==
  {m \in Message :
     /\ m.stage = "sent" =>
          /\ m.op = "update" => Home(m.row, m.text)
          /\ m.op = "delete" => m.row \in Rows
          /\ m.op = "grant"  => m.tree \in Rows
     /\ m.op = "detail" =>
          /\ page # "scheduler"
          /\ m.stage = "done" => Home(m.row, m.text)
     /\ m.op = "list" /\ m.stage = "done" =>
          /\ m.rows \in [Rows -> Texts \cup {Unlisted}]
          /\ \A i \in Rows : m.rows[i] # Unlisted => Home(i, m.rows[i])}

HomeInv ==
  /\ TypeOK
  /\ SeedRows \subseteq used
  /\ \A i \in Rows : Home(i, text[i])
  /\ IF page = "scheduler"
     THEN /\ \A i \in Listed : Home(i, listed[i])
          /\ "edit" \in buttons => Home(bound["edit"], form.text)
     ELSE Home(form.id, form.text)
  /\ shown \subseteq {"grantDialog"} \/ opened.row \in Rows \/ buttons = {"add"}
  /\ net \in Seq(HomeMessages)
=============================================================================
