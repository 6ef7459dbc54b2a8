-------------------------- MODULE ConsolePageProofs --------------------------
(***************************************************************************)
(* Proofs about ConsolePage, for any pages, rows and bounds: HomeInv is    *)
(* inductive, so no row gets the text another row had at first.            *)
(***************************************************************************)
EXTENDS ConsolePage, SequenceTheorems, TLAPS

-----------------------------------------------------------------------------
(* Sequences and values.                                                   *)

\* A sequence without one of its elements.
LEMMA RemoveAtSeq ==
  ASSUME NEW S, NEW s \in Seq(S), NEW k \in DOMAIN s
  PROVE  RemoveAt(s, k) \in Seq(S) /\ Len(RemoveAt(s, k)) = Len(s) - 1
<1>1. Len(s) \in Nat /\ k \in 1..Len(s) /\ \A i \in 1..Len(s) : s[i] \in S
  BY LenProperties, ElementOfSeq
<1>2. /\ SubSeq(s, 1, k - 1) \in Seq(S)
      /\ Len(SubSeq(s, 1, k - 1)) = k - 1
  <2>1. \A i \in 1..(k - 1) : s[i] \in S
    BY <1>1
  <2> QED BY <1>1, <2>1, SubSeqProperties
<1>3. /\ SubSeq(s, k + 1, Len(s)) \in Seq(S)
      /\ Len(SubSeq(s, k + 1, Len(s))) = Len(s) - k
  <2>1. \A i \in (k + 1)..Len(s) : s[i] \in S
    BY <1>1
  <2> QED BY <1>1, <2>1, SubSeqProperties
<1>4. RemoveAt(s, k) = SubSeq(s, 1, k - 1) \o SubSeq(s, k + 1, Len(s))
  BY DEF RemoveAt
<1>5. /\ RemoveAt(s, k) \in Seq(S)
      /\ Len(RemoveAt(s, k)) = (k - 1) + (Len(s) - k)
  BY <1>2, <1>3, <1>4, ConcatProperties
<1> QED BY <1>1, <1>5

\* The texts there are.
LEMMA TextFacts ==
  /\ New \in Texts /\ New.what # "of" /\ New # Blank
  /\ Blank \in Texts /\ Blank.what # "of"
  /\ \A i \in Rows : /\ Of(i) \in Texts /\ Of(i).row = i /\ Of(i) # Blank
                     /\ Typed(i) \in Texts /\ Typed(i).what # "of"
                     /\ Typed(i) # Blank
BY DEF Texts, New, Blank, Of, Typed

\* What a request that was just sent, or an answer that says nothing, has.
LEMMA SendFacts ==
  ASSUME NEW op \in Fills \cup Writes \cup {"grant", "run", "list"},
         NEW i \in Rows \cup {NoRow}
  PROVE  Send(op, i) \in Message
BY TextFacts DEF Send, Message

\* Every page stays the page it is.
LEMMA SamePage ==
  ASSUME page' = page
  PROVE  HomeMessages' = HomeMessages
BY DEF HomeMessages, Home

\* Everything on its way is a message.
LEMMA NetTypes ==
  ASSUME NEW s \in Seq(HomeMessages)
  PROVE  s \in Seq(Message)
BY SeqMonotonic DEF HomeMessages

-----------------------------------------------------------------------------
(* Before the first click.                                                 *)

LEMMA InitHome == Init => HomeInv
<1> SUFFICES ASSUME Init PROVE HomeInv
  OBVIOUS
<1> USE DEF Init
<1>1. TypeOK
  <2>1. /\ text \in [Rows -> Texts]
        /\ listed \in [Rows -> Texts \cup {Unlisted}]
        /\ form \in [id : Rows \cup {NoRow}, text : Texts, live : BOOLEAN]
    BY TextFacts
  <2>2. buttons \subseteq Confirms
    BY DEF Confirms
  <2>3. net \in Seq(Message) /\ Len(net) <= MaxNet
    BY RowAssumption
  <2>4. /\ used \subseteq Rows /\ granted \in [Rows -> Rows]
        /\ bound \in [Confirms -> Rows \cup {NoRow}]
        /\ opened \in [op : Confirms \cup {"run", "none"}, row : Rows \cup {NoRow}]
        /\ clicks \in 0..MaxClicks
    BY RowAssumption
  <2>5. own \subseteq SeedRows
    BY RowAssumption
  <2> QED BY <2>1, <2>2, <2>3, <2>4, <2>5 DEF TypeOK
<1>2. \A i \in Rows : Home(i, text[i])
  BY RowAssumption, TextFacts DEF Home
<1>3. \A i \in Listed : Home(i, listed[i])
  BY RowAssumption, TextFacts DEF Home, Listed
<1>4. \A t : Home(NoRow, t)
  BY RowAssumption DEF Home
<1>5. bound["edit"] = NoRow /\ form.id = NoRow
  BY DEF Confirms
<1>6. shown \subseteq {"grantDialog"} /\ net \in Seq(HomeMessages)
  OBVIOUS
<1> QED BY <1>1, <1>2, <1>3, <1>4, <1>5, <1>6 DEF HomeInv

-----------------------------------------------------------------------------
(* Clicks on the page.                                                     *)

\* What every click does.
LEMMA ClickFacts ==
  ASSUME HomeInv, NEW op \in Confirms \cup {"run"}, NEW i \in Rows \cup {NoRow},
         NEW msgs \in Seq(HomeMessages), Click(op, i, msgs)
  PROVE  /\ net' \in Seq(HomeMessages') /\ net' \in Seq(Message)
         /\ Len(net') <= MaxNet /\ clicks' \in 0..MaxClicks
         /\ opened' = [op |-> op, row |-> i]
         /\ opened' \in [op : Confirms \cup {"run", "none"}, row : Rows \cup {NoRow}]
         /\ crossed' \in BOOLEAN /\ calm' \in BOOLEAN
         /\ shown = {}
         /\ UNCHANGED <<page, text, used, deleted, granted, own, stale, listed>>
<1>1. /\ net' = net \o msgs /\ page' = page
      /\ Len(net) + Len(msgs) <= MaxNet
      /\ opened' = [op |-> op, row |-> i]
      /\ shown = {} /\ UNCHANGED <<page, text, used, deleted, granted, own, stale, listed>>
  BY DEF Click, server
<1>2. net \in Seq(HomeMessages) /\ TypeOK
  BY DEF HomeInv
<1>3. net' \in Seq(HomeMessages) /\ Len(net') = Len(net) + Len(msgs)
  BY <1>1, <1>2, ConcatProperties
<1>4. net' \in Seq(HomeMessages') /\ net' \in Seq(Message)
  BY <1>1, <1>3, SamePage, NetTypes
<1>5. clicks' \in 0..MaxClicks
  BY <1>2, RowAssumption DEF Click, TypeOK
<1>6. crossed' \in BOOLEAN /\ calm' \in BOOLEAN
  BY <1>2, ZenonT(30) DEF Click, TypeOK
<1> QED BY <1>1, <1>3, <1>4, <1>5, <1>6

\* The texts of the fields once they are cleared.
LEMMA ClearFacts ==
  ASSUME TypeOK
  PROVE  /\ ClearData \in [id : Rows \cup {NoRow}, text : Texts, live : BOOLEAN]
         /\ ClearData.text = Blank
         /\ ClearData.id = IF page \in {"role", "menu"} THEN NoRow ELSE form.id
BY TextFacts DEF ClearData, TypeOK

\* The requests a click sends are harmless.
LEMMA SentFacts ==
  ASSUME NEW op \in {"detail", "tree", "run"}, NEW i \in Rows \cup {NoRow},
         op = "detail" => page # "scheduler"
  PROVE  <<Send(op, i)>> \in Seq(HomeMessages)
<1>1. Send(op, i) \in Message
  BY SendFacts DEF Fills
<1>2. Send(op, i) \in HomeMessages
  BY <1>1 DEF HomeMessages, Send
<1> QED BY <1>2

\* A click keeps the invariant if it keeps the types of what it changes and
\* the fields stay harmless.
LEMMA ClickKeeps ==
  ASSUME HomeInv, NEW op \in Confirms \cup {"run"}, NEW i \in Rows \cup {NoRow},
         NEW msgs \in Seq(HomeMessages), Click(op, i, msgs),
         i \in Rows \/ buttons' = {"add"},
         form' \in [id : Rows \cup {NoRow}, text : Texts, live : BOOLEAN],
         tree' = tree, buttons' \subseteq Confirms,
         bound' = bound \/ bound' = [bound EXCEPT ![op] = i],
         \E d \in Dialogs : shown' \subseteq {d},
         IF page = "scheduler"
         THEN "edit" \in buttons' => Home(bound'["edit"], form'.text)
         ELSE Home(form'.id, form'.text)
  PROVE  HomeInv'
<1>1. /\ net' \in Seq(HomeMessages') /\ net' \in Seq(Message)
      /\ Len(net') <= MaxNet /\ clicks' \in 0..MaxClicks
      /\ opened' = [op |-> op, row |-> i]
      /\ opened' \in [op : Confirms \cup {"run", "none"}, row : Rows \cup {NoRow}]
      /\ crossed' \in BOOLEAN /\ calm' \in BOOLEAN
      /\ shown = {}
      /\ UNCHANGED <<page, text, used, deleted, granted, own, stale, listed>>
  BY ClickFacts
<1>2. TypeOK
  BY DEF HomeInv
<1>3. bound' \in [Confirms -> Rows \cup {NoRow}]
  BY <1>2 DEF TypeOK, Confirms
<1>4. shown' \subseteq Dialogs /\ ~({"editorDialog", "myModal"} \subseteq shown')
  BY DEF Dialogs
<1>5. TypeOK'
  BY <1>1, <1>2, <1>3, <1>4 DEF TypeOK
<1>6. \A j \in Rows : Home(j, text[j])'
  BY <1>1 DEF HomeInv, Home
<1>7. IF page' = "scheduler"
      THEN /\ \A j \in Listed' : Home(j, listed[j])'
           /\ "edit" \in buttons' => Home(bound["edit"], form.text)'
      ELSE Home(form.id, form.text)'
  BY <1>1 DEF HomeInv, Home, Listed
<1>8. SeedRows \subseteq used' /\ (i \in Rows => opened'.row \in Rows)
  BY <1>1 DEF HomeInv
<1> QED BY <1>1, <1>5, <1>6, <1>7, <1>8 DEF HomeInv

LEMMA ClicksHome ==
  ASSUME HomeInv, NEW i \in Rows \cup {NoRow},
         Edit(i) \/ EditInRow(i) \/ Add(i) \/ Delete(i) \/ Grant(i) \/ RunNow(i)
  PROVE  HomeInv'
<1> USE DEF Confirms, Dialogs
<1>0. /\ TypeOK /\ <<>> \in Seq(HomeMessages)
      /\ form \in [id : Rows \cup {NoRow}, text : Texts, live : BOOLEAN]
      /\ bound \in [Confirms -> Rows \cup {NoRow}]
      /\ shown \subseteq Dialogs /\ buttons \subseteq Confirms
      /\ listed \in [Rows -> Texts \cup {Unlisted}]
  BY DEF HomeInv, TypeOK
<1>1. \A t : Home(NoRow, t)
  BY RowAssumption DEF Home
<1>2. ASSUME NEW op, NEW msgs, Click(op, i, msgs) PROVE shown = {}
  BY <1>2 DEF Click
<1>3. CASE Edit(i)
  <2>1. /\ page # "scheduler" /\ i \in Rows
        /\ Click("edit", i, <<Send("detail", i)>>)
        /\ form' = ClearData /\ buttons' = {"edit"}
        /\ shown' = shown \cup {"editorDialog"} /\ tree' = tree /\ bound' = bound
    BY <1>3 DEF Edit, ShowOnly, Listed
  <2>2. Home(form'.id, form'.text)
    <3>1. page \in {"user", "role", "menu", "scheduler"}
      BY <1>0, PageAssumption DEF TypeOK
    <3> QED BY <2>1, <3>1, <1>0, <1>1, ClearFacts, TextFacts DEF Home
  <2> QED BY <2>1, <2>2, <1>0, <1>2, ClickKeeps, SentFacts, ClearFacts
<1>4. CASE EditInRow(i)
  <2>1. /\ page = "scheduler" /\ i \in Rows /\ i \in Listed
        /\ Click("edit", i, <<>>)
        /\ form' = [form EXCEPT !.text = listed[i]]
        /\ bound' = [bound EXCEPT !["edit"] = i] /\ buttons' = {"edit"}
        /\ shown' = shown \cup {"myModal"} /\ tree' = tree
    BY <1>4 DEF EditInRow, ShowOnly, Bind, Listed
  <2>2. listed[i] \in Texts /\ Home(i, listed[i])
    BY <2>1, <1>0 DEF Listed, HomeInv
  <2>3. /\ form' \in [id : Rows \cup {NoRow}, text : Texts, live : BOOLEAN]
        /\ form'.text = listed[i] /\ bound'["edit"] = i
    BY <2>1, <2>2, <1>0
  <2> QED BY <2>1, <2>2, <2>3, <1>0, <1>2, ClickKeeps
<1>5. CASE Add(i)
  <2>1. /\ i \in Rows \/ i = NoRow
        /\ Click("add", i, <<>>)
        /\ form' = ClearData
        /\ bound' = [bound EXCEPT !["add"] = i] /\ buttons' = {"add"}
        /\ shown' = shown \cup {Dialog("add")} /\ tree' = tree
    BY <1>5 DEF Add, ShowOnly, Bind, Listed
  <2>2. page # "scheduler" => Home(form'.id, form'.text)
    <3>1. page \in {"user", "role", "menu", "scheduler"}
      BY <1>0, PageAssumption DEF TypeOK
    <3> QED BY <2>1, <3>1, <1>0, <1>1, ClearFacts, TextFacts DEF Home
  <2>3. Dialog("add") \in Dialogs
    BY DEF Dialog
  <2> QED BY <2>1, <2>2, <2>3, <1>0, <1>2, ClickKeeps, ClearFacts
<1>6. CASE Delete(i)
  <2>1. /\ i \in Rows
        /\ Click("delete", i, <<>>)
        /\ bound' = [bound EXCEPT !["delete"] = i]
        /\ IF page \in {"role", "menu"} THEN buttons' = buttons
                                       ELSE buttons' = {"delete"}
        /\ shown' = shown \cup {"myModal"} /\ tree' = tree /\ form' = form
    BY <1>6 DEF Delete, ShowOnly, Bind, Listed
  <2>2. page # "scheduler" => Home(form'.id, form'.text)
    BY <2>1 DEF HomeInv
  <2> QED BY <2>1, <2>2, <1>0, <1>2, ClickKeeps
<1>7. CASE Grant(i)
  <2>1. /\ i \in Rows /\ page \in {"user", "role"}
        /\ Click("grant", i, <<Send("tree", i)>>)
        /\ bound' = [bound EXCEPT !["grant"] = i]
        /\ buttons' = {"grant"} \/ buttons' = buttons \cup {"grant"}
        /\ shown' = shown \/ shown' = shown \cup {"grantDialog"}
        /\ tree' = tree /\ form' = form
    BY <1>7 DEF Grant, ShowOnly, Bind, Listed
  <2>2. Home(form'.id, form'.text)
    BY <2>1 DEF HomeInv
  <2>3. \E d \in Dialogs : shown' \subseteq {d}
    BY <2>1, <1>2
  <2> QED BY <2>1, <2>2, <2>3, <1>0, <1>2, ClickKeeps, SentFacts
<1>8. CASE RunNow(i)
  <2>1. /\ i \in Rows /\ page = "scheduler"
        /\ Click("run", i, <<Send("run", i)>>)
        /\ shown' = shown \cup {"myModal"}
        /\ UNCHANGED <<form, tree, bound, buttons>>
    BY <1>8 DEF RunNow, Listed
  <2>2. "edit" \in buttons' => Home(bound'["edit"], form'.text)
    BY <2>1 DEF HomeInv
  <2> QED BY <2>1, <2>2, <1>0, <1>2, ClickKeeps, SentFacts
<1> QED BY <1>3, <1>4, <1>5, <1>6, <1>7, <1>8

-----------------------------------------------------------------------------
(* Inside a dialog.                                                        *)

\* What every confirmation does.
LEMMA ConfirmKeeps ==
  ASSUME HomeInv, NEW op \in Confirms, NEW msg \in HomeMessages, Confirm(op, msg)
  PROVE  HomeInv'
<1>1. /\ net' = Append(net, msg) /\ Len(net) < MaxNet
      /\ UNCHANGED <<page, server, dom, opened, crossed, clicks, stale>>
      /\ calm' = (calm /\ net = <<>>)
  BY DEF Confirm
<1>2. net \in Seq(HomeMessages) /\ TypeOK
  BY DEF HomeInv
<1>3. net' \in Seq(HomeMessages) /\ Len(net') = Len(net) + 1 /\ Len(net) \in Nat
  BY <1>1, <1>2, AppendProperties, LenProperties
<1>4. net' \in Seq(HomeMessages') /\ net' \in Seq(Message) /\ Len(net') <= MaxNet
  <2>1. HomeMessages' = HomeMessages
    BY <1>1, SamePage
  <2>2. Len(net') <= MaxNet
    BY <1>1, <1>3, RowAssumption
  <2> QED BY <1>3, <2>1, <2>2, NetTypes
<1>5. calm' \in BOOLEAN
  BY <1>1, <1>2, ZenonT(30) DEF TypeOK
<1>6. TypeOK'
  BY <1>1, <1>2, <1>4, <1>5 DEF TypeOK, server, dom
<1> QED BY <1>1, <1>4, <1>6 DEF HomeInv, Home, Listed, server, dom

\* The dialog a confirmation is in was opened by a click on a row, or to add.
LEMMA DialogFacts ==
  ASSUME HomeInv, CanConfirm("edit") \/ CanConfirm("add")
  PROVE  opened.row \in Rows \/ buttons = {"add"}
<1>1. /\ page \in {"user", "role", "menu", "scheduler"}
      /\ shown \subseteq {"grantDialog"} \/ opened.row \in Rows \/ buttons = {"add"}
  BY PageAssumption DEF HomeInv, TypeOK
<1>2. Dialog("edit") # "grantDialog" /\ Dialog("add") # "grantDialog"
  BY <1>1 DEF Dialog
<1>3. ~(shown \subseteq {"grantDialog"})
  BY <1>2 DEF CanConfirm, Top
<1> QED BY <1>1, <1>3

LEMMA DialogHome ==
  ASSUME HomeInv,
         ConfirmEdit \/ ConfirmAdd \/ ConfirmDelete \/ ConfirmGrant \/ Type \/ Close
  PROVE  HomeInv'
<1>0. /\ TypeOK
      /\ form \in [id : Rows \cup {NoRow}, text : Texts, live : BOOLEAN]
      /\ bound \in [Confirms -> Rows \cup {NoRow}]
      /\ {"edit", "add", "delete", "grant"} = Confirms
      /\ tree \in Rows \cup {NoRow} /\ opened.row \in Rows \cup {NoRow}
  BY DEF HomeInv, TypeOK, Confirms
<1>1. CASE ConfirmEdit
  <2> DEFINE i == IF page = "scheduler" THEN bound["edit"] ELSE form.id
             msg == [Send("update", i) EXCEPT !.text = form.text, !.live = form.live,
                                              !.asked = opened.row]
  <2>1. Confirm("edit", msg)
    BY <1>1 DEF ConfirmEdit
  <2>2. "edit" \in buttons
    BY <2>1 DEF Confirm, CanConfirm
  <2>3. Home(i, form.text) /\ i \in Rows \cup {NoRow}
    BY <2>2, <1>0 DEF HomeInv
  <2>4. /\ msg \in Message /\ msg.op = "update" /\ msg.row = i /\ msg.text = form.text
    <3>1. Send("update", i) \in Message
      BY <2>3, SendFacts DEF Writes
    <3> QED BY <3>1, <1>0 DEF Send, Message
  <2>5. msg \in HomeMessages
    BY <2>3, <2>4 DEF HomeMessages
  <2> QED BY <2>1, <2>5, <1>0, ConfirmKeeps
<1>2. CASE ConfirmAdd
  <2> DEFINE msg == [Send("add", bound["add"])
                     EXCEPT !.text = form.text, !.asked = opened.row]
  <2>1. Confirm("add", msg)
    BY <1>2 DEF ConfirmAdd
  <2>2. msg \in Message /\ msg.op = "add"
    <3>1. Send("add", bound["add"]) \in Message
      BY <1>0, SendFacts DEF Writes
    <3> QED BY <3>1, <1>0 DEF Send, Message
  <2>3. msg \in HomeMessages
    BY <2>2 DEF HomeMessages
  <2> QED BY <2>1, <2>3, <1>0, ConfirmKeeps
<1>3. CASE ConfirmDelete
  <2> DEFINE msg == [Send("delete", bound["delete"]) EXCEPT !.asked = opened.row]
  <2>1. Confirm("delete", msg) /\ bound["delete"] \in Rows
    BY <1>3, <1>0 DEF ConfirmDelete
  <2>2. msg \in Message /\ msg.op = "delete" /\ msg.row = bound["delete"]
    <3>1. Send("delete", bound["delete"]) \in Message
      BY <1>0, SendFacts DEF Writes
    <3> QED BY <3>1, <1>0 DEF Send, Message
  <2>3. msg \in HomeMessages
    BY <2>1, <2>2 DEF HomeMessages
  <2> QED BY <2>1, <2>3, <1>0, ConfirmKeeps
<1>4. CASE ConfirmGrant
  <2> DEFINE msg == [Send("grant", bound["grant"]) EXCEPT !.tree = tree]
  <2>1. Confirm("grant", msg) /\ tree \in Rows
    BY <1>4, <1>0 DEF ConfirmGrant
  <2>2. msg \in Message /\ msg.op = "grant" /\ msg.tree = tree
    <3>1. Send("grant", bound["grant"]) \in Message
      BY <1>0, SendFacts DEF Writes
    <3> QED BY <3>1, <1>0 DEF Send, Message
  <2>3. msg \in HomeMessages
    BY <2>1, <2>2 DEF HomeMessages
  <2> QED BY <2>1, <2>3, <1>0, ConfirmKeeps
<1>5. CASE Type
  <2> DEFINE t == IF "add" \in buttons THEN New ELSE Typed(opened.row)
  <2>1. /\ form' = [form EXCEPT !.text = t]
        /\ UNCHANGED <<page, server, listed, tree, shown, buttons, bound, history,
                       stale, net>>
        /\ CanConfirm("edit") \/ CanConfirm("add")
    BY <1>5 DEF Type
  <2>2. t \in Texts /\ t.what # "of" /\ t # Blank
    <3>1. "add" \in buttons \/ opened.row \in Rows
      BY <2>1, DialogFacts
    <3> QED BY <3>1, TextFacts
  <2>4. form' \in [id : Rows \cup {NoRow}, text : Texts, live : BOOLEAN] /\ form'.text = t
    BY <2>1, <2>2, <1>0
  <2>5. TypeOK'
    BY <2>1, <2>4, <1>0 DEF TypeOK, server, history
  <2>6. HomeMessages' = HomeMessages
    BY <2>1, SamePage
  <2> HIDE DEF t
  <2>7. form'.text.what # "of" /\ form'.text # Blank
    BY <2>2, <2>4
  <2>8. "edit" \in buttons' => Home(bound["edit"], form.text)'
    BY <2>7 DEF Home
  <2>9. Home(form.id, form.text)'
    BY <2>7 DEF Home
  <2>10. /\ SeedRows \subseteq used' /\ net' \in Seq(HomeMessages')
         /\ shown' \subseteq {"grantDialog"} \/ opened'.row \in Rows \/ buttons' = {"add"}
    BY <2>1, <2>6 DEF HomeInv, server, history
  <2>11. \A i \in Rows : Home(i, text[i])'
    BY <2>1 DEF HomeInv, Home, server
  <2>12. page' = "scheduler" => \A i \in Listed' : Home(i, listed[i])'
    BY <2>1 DEF HomeInv, Home, Listed
  <2> QED BY <2>5, <2>8, <2>9, <2>10, <2>11, <2>12 DEF HomeInv
<1>6. CASE Close
  <2>1. /\ shown' \subseteq shown
        /\ UNCHANGED <<page, server, listed, form, tree, buttons, bound, history,
                       stale, net>>
    BY <1>6 DEF Close
  <2>2. TypeOK'
    BY <2>1, <1>0 DEF TypeOK, server, history
  <2>3. HomeMessages' = HomeMessages
    BY <2>1, SamePage
  <2> QED BY <2>1, <2>2, <2>3 DEF HomeInv, Home, Listed, server, history
<1> QED BY <1>1, <1>2, <1>3, <1>4, <1>5, <1>6

-----------------------------------------------------------------------------
(* The server.                                                             *)

\* A handler keeps the invariant if its answer is harmless and no row gets
\* a text of another.
LEMMA ServeKeeps ==
  ASSUME HomeInv, NEW k \in DOMAIN net, NEW m \in HomeMessages,
         net' = [net EXCEPT ![k] = m],
         UNCHANGED <<page, dom, history, stale, own>>,
         text' \in [Rows -> Texts], \A i \in Rows : Home(i, text'[i]),
         used \subseteq used', used' \subseteq Rows, deleted' \subseteq Rows,
         granted' \in [Rows -> Rows]
  PROVE  HomeInv'
<1>1. net \in Seq(HomeMessages) /\ TypeOK /\ HomeMessages' = HomeMessages
  BY SamePage DEF HomeInv
<1>2. k \in 1..Len(net)
  BY <1>1, LenProperties
<1>3. net' \in Seq(HomeMessages) /\ Len(net') = Len(net)
  BY <1>1, <1>2, ExceptSeq
<1>4. net' \in Seq(Message) /\ net' \in Seq(HomeMessages')
  BY <1>1, <1>3, NetTypes
<1>5. TypeOK'
  BY <1>1, <1>3, <1>4 DEF TypeOK, dom, history
<1>6. \A i \in Rows : Home(i, text[i])'
  BY DEF Home
<1> QED BY <1>4, <1>5, <1>6 DEF HomeInv, Home, Listed, dom, history

\* An answer that says no more than that a request was done, or refused.
LEMMA PlainAnswer ==
  ASSUME NEW m \in Message, NEW stage \in {"done", "refused"}
  PROVE  /\ m.op \notin {"detail", "list"} =>
              [Send(m.op, NoRow) EXCEPT !.stage = stage] \in HomeMessages
         /\ stage = "refused" /\ (m.op = "detail" => page # "scheduler") =>
              [Send(m.op, NoRow) EXCEPT !.stage = stage] \in HomeMessages
<1> DEFINE e == [Send(m.op, NoRow) EXCEPT !.stage = stage]
<1>1. Send(m.op, NoRow) \in Message
  BY SendFacts DEF Message
<1>2. /\ e \in Message /\ e.stage = stage /\ e.op = m.op
  BY <1>1 DEF Message, Send
<1> QED BY <1>2 DEF HomeMessages

LEMMA ServeHome == HomeInv /\ Serve => HomeInv'
<1> SUFFICES ASSUME HomeInv, Serve PROVE HomeInv'
  OBVIOUS
<1>1. PICK k \in DOMAIN net :
        /\ net[k].stage = "sent"
        /\ \/ HandleDetail(k, net[k]) \/ HandleTree(k, net[k])
           \/ HandleUpdate(k, net[k]) \/ HandleAdd(k, net[k])
           \/ HandleDelete(k, net[k]) \/ HandleGrant(k, net[k])
           \/ HandleOther(k, net[k]) \/ Refuse(k, net[k])
  BY DEF Serve
<1> DEFINE m == net[k]
<1>2. UNCHANGED <<page, dom, history, stale>>
  BY DEF Serve
<1>3. /\ TypeOK /\ SeedRows \subseteq used /\ \A i \in Rows : Home(i, text[i])
      /\ text \in [Rows -> Texts] /\ used \subseteq Rows /\ deleted \subseteq Rows
      /\ granted \in [Rows -> Rows] /\ own \subseteq SeedRows
  BY DEF HomeInv, TypeOK
<1>4. m \in HomeMessages /\ m \in Message /\ m.stage = "sent"
  <2>1. net \in Seq(HomeMessages)
    BY DEF HomeInv
  <2> QED BY <2>1, <1>1, ElementOfSeq, LenProperties DEF HomeMessages
<1>5. Exists \subseteq Rows
  BY <1>3 DEF Exists
<1> HIDE DEF m
<1> USE DEF server
<1>6. CASE HandleDetail(k, m)
  <2> DEFINE e == [[m EXCEPT !.text = text[m.row], !.live = m.row \notin deleted]
                    EXCEPT !.stage = "done"]
  <2>1. /\ m.op = "detail" /\ m.row \in Rows /\ UNCHANGED server
        /\ net' = [net EXCEPT ![k] = e]
    BY <1>6, <1>5 DEF HandleDetail, Answered
  <2>2. (m.row \notin deleted) \in BOOLEAN /\ text[m.row] \in Texts
    BY <2>1, <1>3
  <2>3. e \in Message /\ e.op = "detail" /\ e.row = m.row /\ e.text = text[m.row]
        /\ e.stage = "done"
    BY <2>1, <2>2, <1>4 DEF Message
  <2>4. e \in HomeMessages
    BY <2>1, <2>3, <1>3, <1>4 DEF HomeMessages
  <2> QED BY <2>1, <2>4, <1>2, <1>3, ServeKeeps
<1>7. CASE HandleTree(k, m)
  <2> DEFINE e == [m EXCEPT !.stage = "done"]
  <2>1. m.op = "tree" /\ UNCHANGED server /\ net' = [net EXCEPT ![k] = e]
    BY <1>7 DEF HandleTree, Answered
  <2>2. e \in Message /\ e.op = "tree" /\ e.stage = "done"
    BY <2>1, <1>4 DEF Message
  <2>3. e \in HomeMessages
    BY <2>2 DEF HomeMessages
  <2> QED BY <2>1, <2>3, <1>2, <1>3, ServeKeeps
<1> DEFINE done == [Send(m.op, NoRow) EXCEPT !.stage = "done"]
<1>8. m.op \notin {"detail", "list"} => done \in HomeMessages
  BY <1>4, PlainAnswer
<1>9. CASE HandleUpdate(k, m)
  <2>1. /\ m.op = "update" /\ net' = [net EXCEPT ![k] = done]
        /\ text' = [i \in Rows |-> IF i = m.row THEN m.text ELSE text[i]]
        /\ UNCHANGED <<used, granted, own>>
        /\ \/ deleted' = deleted \/ deleted' = deleted \ {m.row}
           \/ deleted' = deleted \cup ({m.row} \cap Rows)
    BY <1>9 DEF HandleUpdate, Written, Answered
  <2>2. m.text \in Texts /\ Home(m.row, m.text)
    BY <2>1, <1>4 DEF Message, HomeMessages
  <2>3. text' \in [Rows -> Texts] /\ \A i \in Rows : Home(i, text'[i])
    BY <2>1, <2>2, <1>3
  <2>4. deleted' \subseteq Rows
    BY <2>1, <1>3
  <2> HIDE DEF done
  <2> QED BY <2>1, <2>3, <2>4, <1>2, <1>3, <1>8, ServeKeeps
<1>10. CASE HandleAdd(k, m)
  <2>1. PICK i \in Rows \ used :
          used' = used \cup {i} /\ text' = [text EXCEPT ![i] = m.text]
    BY <1>10 DEF HandleAdd
  <2>2. /\ m.op = "add" /\ net' = [net EXCEPT ![k] = done]
        /\ UNCHANGED <<deleted, granted, own>>
    BY <1>10 DEF HandleAdd, Written, Answered
  <2>3. m.text \in Texts
    BY <1>4 DEF Message
  <2>4. text' \in [Rows -> Texts] /\ \A j \in Rows : Home(j, text'[j])
    BY <2>1, <2>3, <1>3 DEF Home
  <2> HIDE DEF done
  <2> QED BY <2>1, <2>2, <2>4, <1>2, <1>3, <1>8, ServeKeeps
<1>11. CASE HandleDelete(k, m)
  <2>1. /\ m.op = "delete" /\ net' = [net EXCEPT ![k] = done]
        /\ deleted' = deleted \cup {m.row}
        /\ UNCHANGED <<text, used, granted, own>>
    BY <1>11 DEF HandleDelete, Written, Answered
  <2>2. m.row \in Rows
    BY <2>1, <1>4 DEF HomeMessages
  <2> HIDE DEF done
  <2> QED BY <2>1, <2>2, <1>2, <1>3, <1>8, ServeKeeps
<1>12. CASE HandleGrant(k, m)
  <2>1. /\ m.op = "grant" /\ net' = [net EXCEPT ![k] = done]
        /\ granted' = [granted EXCEPT ![m.row] = m.tree]
        /\ UNCHANGED <<text, used, deleted, own>>
    BY <1>12 DEF HandleGrant, Written, Answered
  <2>2. m.tree \in Rows
    BY <2>1, <1>4 DEF HomeMessages
  <2>3. granted' \in [Rows -> Rows]
    BY <2>1, <2>2, <1>3
  <2> HIDE DEF done
  <2> QED BY <2>1, <2>3, <1>2, <1>3, <1>8, ServeKeeps
<1>13. CASE HandleOther(k, m)
  <2> DEFINE e == [[m EXCEPT !.rows = Listing] EXCEPT !.stage = "done"]
  <2>1. /\ UNCHANGED server
        /\ \/ m.op = "run" /\ net' = [net EXCEPT ![k] = done]
           \/ m.op = "list" /\ net' = [net EXCEPT ![k] = e]
    BY <1>13 DEF HandleOther, Written, Answered
  <2>2. ASSUME m.op = "list" PROVE e \in HomeMessages
    <3>1. Listing \in [Rows -> Texts \cup {Unlisted}]
      BY <1>3, TextFacts DEF Listing, Current
    <3>2. e \in Message /\ e.op = "list" /\ e.stage = "done" /\ e.rows = Listing
      BY <2>2, <3>1, <1>4 DEF Message
    <3>3. \A i \in Rows : Listing[i] # Unlisted => Home(i, Listing[i])
      <4>1. \A i \in Rows : Home(i, Of(i))
        BY TextFacts DEF Home
      <4> QED BY <4>1, <1>3 DEF Listing, Current
    <3> QED BY <3>1, <3>2, <3>3 DEF HomeMessages
  <2> HIDE DEF done, e
  <2> QED BY <2>1, <2>2, <1>2, <1>3, <1>8, ServeKeeps
<1>14. CASE Refuse(k, m)
  <2> DEFINE e == [Send(m.op, NoRow) EXCEPT !.stage = "refused"]
  <2>1. UNCHANGED server /\ net' = [net EXCEPT ![k] = e]
    BY <1>14 DEF Refuse
  <2>2. e \in HomeMessages
    BY <1>4, PlainAnswer DEF HomeMessages
  <2> HIDE DEF e
  <2> QED BY <2>1, <2>2, <1>2, <1>3, ServeKeeps
<1> QED BY <1>1, <1>6, <1>7, <1>9, <1>10, <1>11, <1>12, <1>13, <1>14 DEF m

-----------------------------------------------------------------------------
(* Callbacks.                                                              *)

\* A callback keeps the invariant if what it puts into the page is harmless.
LEMMA TakeKeeps ==
  ASSUME HomeInv, NEW k \in DOMAIN net, Dropped(k) \/ Reload(k),
         UNCHANGED <<page, server, buttons, bound, opened, crossed, clicks>>,
         calm' \in BOOLEAN, stale' \in BOOLEAN,
         listed' \in [Rows -> Texts \cup {Unlisted}],
         listed' = listed \/ \A i \in Rows : listed'[i] # Unlisted => Home(i, listed'[i]),
         form' \in [id : Rows \cup {NoRow}, text : Texts, live : BOOLEAN],
         form' = form \/ (page # "scheduler" /\ Home(form'.id, form'.text)),
         tree' \in Rows \cup {NoRow},
         shown' \subseteq shown \cup {"grantDialog"}
  PROVE  HomeInv'
<1>1. net \in Seq(HomeMessages) /\ TypeOK /\ HomeMessages' = HomeMessages
  BY SamePage DEF HomeInv
<1>2. /\ RemoveAt(net, k) \in Seq(HomeMessages)
      /\ Len(RemoveAt(net, k)) = Len(net) - 1 /\ Len(net) \in Nat
  BY <1>1, RemoveAtSeq, LenProperties
<1>3. net' \in Seq(HomeMessages) /\ (Len(net') = Len(net) - 1 \/ Len(net') = Len(net))
  <2>1. CASE Dropped(k)
    BY <2>1, <1>2 DEF Dropped
  <2>2. CASE Reload(k)
    <3>1. Send("list", NoRow) \in Message
      BY SendFacts
    <3>2. Send("list", NoRow) \in HomeMessages
      BY <3>1 DEF HomeMessages, Send
    <3>3. net' = Append(RemoveAt(net, k), Send("list", NoRow))
      BY <2>2 DEF Reload
    <3> QED BY <3>2, <3>3, <1>2, AppendProperties
  <2> QED BY <2>1, <2>2
<1>4. net' \in Seq(Message) /\ net' \in Seq(HomeMessages')
  BY <1>1, <1>3, NetTypes
<1>5. Len(net') <= MaxNet
  <2>1. Len(net) <= MaxNet
    BY <1>1 DEF TypeOK
  <2> QED BY <2>1, <1>2, <1>3, RowAssumption
<1>6. shown' \subseteq Dialogs /\ ~({"editorDialog", "myModal"} \subseteq shown')
  BY <1>1 DEF TypeOK, Dialogs
<1>7. TypeOK'
  BY <1>1, <1>4, <1>5, <1>6 DEF TypeOK, server
<1>8. \A i \in Rows : Home(i, text[i])'
  BY DEF HomeInv, Home, server
<1>9. IF page' = "scheduler"
      THEN /\ \A i \in Listed' : Home(i, listed[i])'
           /\ "edit" \in buttons' => Home(bound["edit"], form.text)'
      ELSE Home(form.id, form.text)'
  BY DEF HomeInv, Home, Listed
<1> QED BY <1>4, <1>7, <1>8, <1>9 DEF HomeInv, server

LEMMA StaleFacts ==
  ASSUME TypeOK, NEW k, Taken(k) \/ Reload(k)
  PROVE  (Dropped(k) \/ Reload(k)) /\ stale' \in BOOLEAN
<1>1. CASE Taken(k)
  BY <1>1 DEF Taken, TypeOK
<1>2. CASE Reload(k)
  <2>1. stale' = (\E j \in DOMAIN net : net[j].op = "list")
    BY <1>2 DEF Reload
  <2>2. stale' \in BOOLEAN
    BY <2>1, ZenonT(30)
  <2> QED BY <1>2, <2>2
<1> QED BY <1>1, <1>2

LEMMA TakeHome == HomeInv /\ (TakeDone \/ TakeRefused \/ Lose) => HomeInv'
<1> SUFFICES ASSUME HomeInv, TakeDone \/ TakeRefused \/ Lose PROVE HomeInv'
  OBVIOUS
<1>1. /\ TypeOK /\ tree \in Rows \cup {NoRow} /\ calm \in BOOLEAN
      /\ form \in [id : Rows \cup {NoRow}, text : Texts, live : BOOLEAN]
      /\ listed \in [Rows -> Texts \cup {Unlisted}]
      /\ \A k \in DOMAIN net : net[k] \in HomeMessages /\ net[k] \in Message
  BY ElementOfSeq, LenProperties DEF HomeInv, TypeOK, HomeMessages
<1>2. CASE TakeDone
  <2>1. PICK k \in DOMAIN net :
          /\ net[k].stage = "done"
          /\ \/ TakeDetail(k, net[k]) \/ TakeTree(k, net[k])
             \/ TakeSaved(k, net[k]) \/ TakeDeletedOrRun(k, net[k])
             \/ TakeGranted(k, net[k]) \/ TakeList(k, net[k])
    BY <1>2 DEF TakeDone
  <2>2. UNCHANGED <<page, server, buttons, bound, opened, crossed, clicks>> /\ calm' = calm
    BY <1>2 DEF TakeDone, history
  <2> DEFINE m == net[k]
  <2>3. m \in HomeMessages /\ m \in Message /\ m.stage = "done"
    BY <2>1, <1>1
  <2> HIDE DEF m
  <2>4. CASE TakeDetail(k, m)
    <3>1. /\ m.op = "detail" /\ Taken(k) /\ UNCHANGED <<listed, tree, shown>>
          /\ form' = [id |-> m.row, text |-> m.text,
                      live |-> IF page = "user" THEN m.live ELSE form.live]
      BY <2>4 DEF TakeDetail
    <3>2. page # "scheduler" /\ Home(m.row, m.text)
      BY <2>3, <3>1 DEF HomeMessages
    <3>3. form' \in [id : Rows \cup {NoRow}, text : Texts, live : BOOLEAN]
      BY <2>3, <3>1, <1>1 DEF Message
    <3>4. Home(form'.id, form'.text)
      BY <3>1, <3>2
    <3> QED BY <3>1, <3>2, <3>3, <3>4, <2>2, <1>1, StaleFacts, TakeKeeps
  <2>5. CASE TakeTree(k, m)
    <3>1. /\ Taken(k) /\ tree' = m.row /\ shown' = shown \cup {"grantDialog"}
          /\ UNCHANGED <<listed, form>>
      BY <2>5 DEF TakeTree
    <3>2. m.row \in Rows \cup {NoRow}
      BY <2>3 DEF Message
    <3> QED BY <3>1, <3>2, <2>2, <1>1, StaleFacts, TakeKeeps
  <2>6. CASE TakeSaved(k, m) \/ TakeDeletedOrRun(k, m) \/ TakeGranted(k, m)
    <3>1. /\ Taken(k) \/ Reload(k)
          /\ shown' \subseteq shown
          /\ UNCHANGED <<listed, form, tree>>
      BY <2>6 DEF TakeSaved, TakeDeletedOrRun, TakeGranted, Hide
    <3> QED BY <3>1, <2>2, <1>1, StaleFacts, TakeKeeps
  <2>7. CASE TakeList(k, m)
    <3>1. /\ m.op = "list" /\ Taken(k) /\ listed' = m.rows
          /\ UNCHANGED <<form, tree, shown>>
      BY <2>7 DEF TakeList
    <3>2. /\ m.rows \in [Rows -> Texts \cup {Unlisted}]
          /\ \A i \in Rows : m.rows[i] # Unlisted => Home(i, m.rows[i])
      BY <2>3, <3>1 DEF Message, HomeMessages
    <3> QED BY <3>1, <3>2, <2>2, <1>1, StaleFacts, TakeKeeps
  <2> QED BY <2>1, <2>4, <2>5, <2>6, <2>7 DEF m
<1>3. CASE TakeRefused
  <2>1. PICK k \in DOMAIN net :
          /\ Dropped(k) /\ shown' \subseteq shown
          /\ stale' = (stale \/ Due(net[k]))
          /\ calm' = (calm /\ net[k].op \notin Fills \cup {"list"})
          /\ UNCHANGED <<page, server, listed, form, tree, buttons, bound,
                         opened, crossed, clicks>>
    BY <1>3 DEF TakeRefused
  <2>2. calm' \in BOOLEAN /\ stale' \in BOOLEAN
    BY <2>1, <1>1, ZenonT(30)
  <2> QED BY <2>1, <2>2, <1>1, TakeKeeps
<1>4. CASE Lose
  <2>1. PICK k \in DOMAIN net : Dropped(k) /\ stale' = (stale \/ Due(net[k]))
    BY <1>4 DEF Lose
  <2>2. /\ calm' = FALSE /\ shown' = shown
        /\ UNCHANGED <<page, server, listed, form, tree, buttons, bound,
                       opened, crossed, clicks>>
    BY <1>4 DEF Lose, dom
  <2>3. stale' \in BOOLEAN
    BY <2>1, ZenonT(30)
  <2> QED BY <2>1, <2>2, <2>3, <1>1, TakeKeeps
<1> QED BY <1>2, <1>3, <1>4

-----------------------------------------------------------------------------
(* Theorems.                                                               *)

LEMMA StutterHome == HomeInv /\ UNCHANGED vars => HomeInv'
<1> SUFFICES ASSUME HomeInv, UNCHANGED vars PROVE HomeInv'
  OBVIOUS
<1>1. TypeOK'
  BY DEF HomeInv, TypeOK, vars, server, dom, history
<1>2. HomeMessages' = HomeMessages
  BY SamePage DEF vars
<1> QED BY <1>1, <1>2 DEF HomeInv, Home, Listed, vars, server, dom, history

LEMMA NextHome == HomeInv /\ [Next]_vars => HomeInv'
<1> SUFFICES ASSUME HomeInv, [Next]_vars PROVE HomeInv'
  OBVIOUS
<1>1. CASE UNCHANGED vars
  BY <1>1, StutterHome
<1>2. ASSUME NEW i \in Rows \cup {NoRow},
             Edit(i) \/ EditInRow(i) \/ Add(i) \/ Delete(i) \/ Grant(i) \/ RunNow(i)
      PROVE  HomeInv'
  BY <1>2, ClicksHome
<1>3. CASE ConfirmEdit \/ ConfirmAdd \/ ConfirmDelete \/ ConfirmGrant \/ Type \/ Close
  BY <1>3, DialogHome
<1>4. CASE Serve
  BY <1>4, ServeHome
<1>5. CASE TakeDone \/ TakeRefused \/ Lose
  BY <1>5, TakeHome
<1> QED BY <1>1, <1>2, <1>3, <1>4, <1>5 DEF Next

\* On every page, whatever the operator clicks and however late, lost, refused
\* or out of order the answers are, the fields that hold a text of a row hold
\* it together with that row's id.
THEOREM HomeInvariant == Spec => []HomeInv
BY InitHome, NextHome, PTL DEF Spec

\* Every variable of the page keeps its type: no closure, field or request names
\* what is no row, and no dialog covers the editor but that of a tree.
THEOREM TypeCorrect == Spec => []TypeOK
<1>1. HomeInv => TypeOK
  BY DEF HomeInv
<1> QED BY <1>1, HomeInvariant, PTL

\* The text a row had at first is never written to another row.
THEOREM TextsStayHome == Spec => []TextStaysHome
<1>1. HomeInv => TextStaysHome
  BY RowAssumption DEF HomeInv, Home, TextStaysHome
<1> QED BY <1>1, HomeInvariant, PTL
=============================================================================
