-------------------------- MODULE ConsoleOrderProofs --------------------------
(***************************************************************************)
(* Proofs about ConsolePage, continued: for any pages, rows and bounds,    *)
(* what an operator types, ticks, adds or deletes reaches the row it was   *)
(* meant for, and the page lists what there is, under the conditions that  *)
(* the properties of ConsolePage name.  OrderInv is inductive.             *)
(***************************************************************************)
EXTENDS ConsolePageProofs

-----------------------------------------------------------------------------
(* The inductive invariant, a part for each property.                      *)

OnNet(op) == \E m \in Range(net) : m.op = op

\* An update, or an answer to a detail: it has the fields of its row.
HasFields(m) ==
  (m.op = "update" /\ m.stage = "sent") \/ (m.op = "detail" /\ m.stage = "done")

\* Who waits for answers waits for one at a time.
CalmInv == calm => Len(net) <= 1 /\ ~crossed

\* What the click that opened a dialog last did to buttons and closures.
OpenInv ==
  /\ opened.op \in {"edit", "add"} => buttons = {opened.op}
  /\ opened.op = "delete" /\ page \in {"user", "scheduler"} =>
       buttons = {"delete"}
  /\ opened.op = "grant" => "grant" \in buttons
  /\ "grant" \in buttons => page \in {"user", "role"}
  /\ opened.op \in {"add", "delete", "grant"}
     \/ (opened.op = "edit" /\ page = "scheduler") =>
       bound[opened.op] = opened.row
  /\ opened.op = "run" => page = "scheduler"
  /\ opened.op = "none" => shown = {} /\ net = <<>>

\* The dialogs that are not a tree's belong to that click.
ShownInv ==
  /\ "editorDialog" \in shown =>
       page # "scheduler" /\ opened.op \in {"edit", "add"}
  /\ "myModal" \in shown => page = "scheduler" \/ opened.op = "delete"
  /\ "myModal" \in shown /\ calm /\ opened.op = "run" => OnNet("run")

\* Text t was typed for row i, or is the one it had at first.
Keeps(i, t) == i \in SeedRows => t \in {Of(i), Typed(i)}

KeepsInv ==
  /\ \A i \in Rows : Keeps(i, text[i])
  /\ \A i \in Listed : Keeps(i, listed[i])
  /\ \A m \in Range(net) :
       /\ HasFields(m) => Keeps(m.row, m.text)
       /\ m.op = "list" /\ m.stage = "done" =>
            \A i \in Rows : m.rows[i] # Unlisted => Keeps(i, m.rows[i])

\* The editor is for the row clicked, once it is filled.
EditorInv ==
  /\ opened.op = "edit" =>
       \A m \in Range(net) :
         m.op = "detail" /\ m.stage # "refused" => m.row = opened.row
  /\ CASE page = "scheduler" ->
            opened.op = "edit" => Keeps(opened.row, form.text)
       [] page = "user" ->
            opened.op = "edit" =>
              OnNet("detail") \/ (form.id = opened.row /\ Keeps(form.id, form.text))
       [] OTHER ->
            /\ Keeps(form.id, form.text)
            /\ opened.op = "edit" => form.id \in {NoRow, opened.row}
            /\ opened.op = "add"  => form.id = NoRow /\ ~OnNet("detail")

EditInv == Orderly => KeepsInv /\ EditorInv

\* So is the tree, which only the user page shows before it has come.
GrantInv ==
  Orderly =>
    /\ \A i \in Rows : granted[i] = i
    /\ \A m \in Range(net) :
         /\ m.op = "tree" /\ m.stage # "refused" => m.row = bound["grant"]
         /\ m.op = "grant" /\ m.stage = "sent" => m.row = m.tree
    /\ "grantDialog" \in shown =>
         tree = bound["grant"] \/ (page = "user" /\ OnNet("tree"))

\* Text t is not that of a row other than i.
Clean(i, t) == t.what = "of" => t.row = i /\ i \in SeedRows

CleanInv ==
  ~crossed =>
    /\ \A i \in Rows : Clean(i, text[i])
    /\ \A i \in Listed : Clean(i, listed[i])
    /\ \A m \in Range(net) :
         /\ HasFields(m) => Clean(m.row, m.text)
         /\ m.op = "add" /\ m.stage = "sent" => m.text.what # "of"
         /\ m.op = "list" /\ m.stage = "done" =>
              \A i \in Rows : m.rows[i] # Unlisted => Clean(i, m.rows[i])
    /\ "add" \in buttons => form.text.what # "of" /\ ~OnNet("detail")
    /\ IF page = "scheduler" THEN "edit" \in buttons => Clean(bound["edit"], form.text)
                             ELSE Clean(form.id, form.text)

\* The answer to a write, which asks for a list when it is taken.
IsWritten(m) == m.op \in Writes /\ m.stage = "done"

\* With no such answer on its way, the lists that are have what there is, and
\* without a list the page has.
ListInv ==
  ~stale /\ page # "user" /\ (\A m \in Range(net) : ~IsWritten(m)) =>
    /\ \A m \in Range(net) :
         m.op = "list" /\ m.stage = "done" => m.rows = Listing
    /\ ~OnNet("list") => listed = Listing

\* The state in the user's editor is the one the user has.
StateInv ==
  calm /\ page = "user" =>
    /\ \A m \in Range(net) :
         /\ HasFields(m) => (m.live <=> m.row \notin deleted)
         /\ m.op = "delete" => opened.op = "delete"
    /\ opened.op = "edit" =>
         OnNet("detail") \/ (form.live <=> form.id \notin deleted)

OrderInv ==
  /\ HomeInv
  /\ CalmInv /\ OpenInv /\ ShownInv /\ WritesAreAsked
  /\ EditInv /\ GrantInv /\ CleanInv /\ ListInv /\ StateInv

-----------------------------------------------------------------------------
(* What is on its way, as a set.                                           *)

LEMMA RangeSmall ==
  ASSUME NEW e
  PROVE  Range(<<>>) = {} /\ Range(<<e>>) = {e}
BY DEF Range

LEMMA RangeIn ==
  ASSUME NEW S, NEW s \in Seq(S)
  PROVE  /\ Range(s) \subseteq S
         /\ \A m : m \in Range(s) <=> \E j \in 1..Len(s) : m = s[j]
         /\ \A k \in DOMAIN s : s[k] \in Range(s)
         /\ s = <<>> <=> Range(s) = {}
<1>1. DOMAIN s = 1..Len(s) /\ Len(s) \in Nat
  BY LenProperties
<1>2. \A k \in DOMAIN s : s[k] \in S
  BY <1>1, ElementOfSeq
<1>3. \A m : m \in Range(s) <=> \E j \in 1..Len(s) : m = s[j]
  BY <1>1 DEF Range
<1>4. \A k \in DOMAIN s : s[k] \in Range(s)
  BY <1>1, <1>3
<1>5. s = <<>> <=> Range(s) = {}
  <2>1. s = <<>> => Range(s) = {}
    BY RangeSmall
  <2>2. s # <<>> => 1 \in DOMAIN s
    BY <1>1, EmptySeq
  <2> QED BY <2>1, <2>2, <1>4
<1>6. Range(s) \subseteq S
  BY <1>1, <1>2, <1>3
<1> QED BY <1>3, <1>4, <1>5, <1>6

LEMMA RangeAppend ==
  ASSUME NEW S, NEW s \in Seq(S), NEW e \in S
  PROVE  /\ Range(Append(s, e)) = Range(s) \cup {e}
         /\ Len(Append(s, e)) = Len(s) + 1
<1>1. /\ Append(s, e) \in Seq(S) /\ Len(Append(s, e)) = Len(s) + 1
      /\ \A j \in 1..Len(s) : Append(s, e)[j] = s[j]
      /\ Append(s, e)[Len(s) + 1] = e /\ Len(s) \in Nat
  BY AppendProperties, LenProperties
<1>2. /\ \A m : m \in Range(s) <=> \E j \in 1..Len(s) : m = s[j]
      /\ \A m : m \in Range(Append(s, e)) <=>
                  \E j \in 1..(Len(s) + 1) : m = Append(s, e)[j]
  BY <1>1, RangeIn
<1>3. 1..(Len(s) + 1) = (1..Len(s)) \cup {Len(s) + 1}
  BY <1>1
<1>4. \A m : m \in Range(Append(s, e)) <=> m \in Range(s) \cup {e}
  BY <1>1, <1>2, <1>3
<1> QED BY <1>1, <1>4

\* A message gives way to another one.
LEMMA RangeExcept ==
  ASSUME NEW S, NEW s \in Seq(S), NEW k \in DOMAIN s, NEW e \in S,
         NEW t \in Seq(S), Len(t) = Len(s),
         \A j \in 1..Len(s) : t[j] = IF j = k THEN e ELSE s[j]
  PROVE  /\ e \in Range(t) /\ Range(t) \subseteq Range(s) \cup {e}
         /\ \A m \in Range(s) : m # s[k] => m \in Range(t)
         /\ Len(s) <= 1 => Range(s) = {s[k]} /\ Range(t) = {e}
<1>1. /\ k \in 1..Len(s) /\ Len(s) \in Nat /\ DOMAIN s = 1..Len(s)
      /\ t \in Seq(S) /\ Len(t) = Len(s)
  BY LenProperties
<1>2. \A j \in 1..Len(s) : t[j] = IF j = k THEN e ELSE s[j]
  OBVIOUS
<1>3. /\ \A m : m \in Range(s) <=> \E j \in 1..Len(s) : m = s[j]
      /\ \A m : m \in Range(t) <=> \E j \in 1..Len(s) : m = t[j]
  BY <1>1, RangeIn
<1>4. Len(s) <= 1 => \A j \in 1..Len(s) : j = k
  BY <1>1
<1>5. Len(s) <= 1 => /\ \A m : m \in Range(s) <=> m = s[k]
                     /\ \A m : m \in Range(t) <=> m = e
  BY <1>1, <1>2, <1>3, <1>4
<1>6. e \in Range(t) /\ Range(t) \subseteq Range(s) \cup {e}
  BY <1>1, <1>2, <1>3
<1>7. ASSUME NEW m \in Range(s), m # s[k] PROVE m \in Range(t)
  <2>1. PICK j \in 1..Len(s) : m = s[j]
    BY <1>3
  <2>2. m = t[j]
    BY <2>1, <1>7, <1>2
  <2> QED BY <2>2, <1>3
<1> QED BY <1>1, <1>5, <1>6, <1>7

\* A message is taken.
LEMMA RangeRemove ==
  ASSUME NEW S, NEW s \in Seq(S), NEW k \in DOMAIN s
  PROVE  /\ Range(RemoveAt(s, k)) \subseteq Range(s)
         /\ \A m \in Range(s) : m # s[k] => m \in Range(RemoveAt(s, k))
         /\ Len(s) <= 1 => Range(s) = {s[k]} /\ Range(RemoveAt(s, k)) = {}
<1> DEFINE a == SubSeq(s, 1, k - 1)
           b == SubSeq(s, k + 1, Len(s))
<1>1. k \in 1..Len(s) /\ Len(s) \in Nat /\ \A j \in 1..Len(s) : s[j] \in S
  BY LenProperties, ElementOfSeq
<1>2. a \in Seq(S) /\ Len(a) = k - 1 /\ \A j \in 1..(k - 1) : a[j] = s[j]
  <2>1. \A j \in 1..(k - 1) : s[j] \in S
    BY <1>1
  <2>2. a \in Seq(S) /\ Len(a) = k - 1
    BY <1>1, <2>1, SubSeqProperties
  <2>3. \A j \in 1..(k - 1) : a[j] = s[1 + j - 1]
    BY <1>1, <2>1, <2>2, SubSeqProperties
  <2> QED BY <1>1, <2>2, <2>3
<1>3. /\ b \in Seq(S) /\ Len(b) = Len(s) - k
      /\ \A j \in 1..(Len(s) - k) : b[j] = s[k + j]
  <2>1. \A j \in (k + 1)..Len(s) : s[j] \in S
    BY <1>1
  <2>2. b \in Seq(S) /\ Len(b) = Len(s) - k
    BY <1>1, <2>1, SubSeqProperties
  <2>3. \A j \in 1..(Len(s) - k) : b[j] = s[(k + 1) + j - 1]
    BY <1>1, <2>1, <2>2, SubSeqProperties
  <2>4. \A j \in 1..(Len(s) - k) : (k + 1) + j - 1 = k + j
    BY <1>1
  <2> QED BY <2>2, <2>3, <2>4
<1> HIDE DEF a, b
<1>4. Range(RemoveAt(s, k)) = Range(a) \cup Range(b)
  BY <1>2, <1>3, RangeConcatenation DEF RemoveAt, a, b
<1>5. /\ \A m : m \in Range(s) <=> \E j \in 1..Len(s) : m = s[j]
      /\ \A m : m \in Range(a) <=> \E j \in 1..(k - 1) : m = a[j]
      /\ \A m : m \in Range(b) <=> \E j \in 1..(Len(s) - k) : m = b[j]
  BY <1>1, <1>2, <1>3, RangeIn
<1>6. ASSUME NEW m \in Range(a) \cup Range(b) PROVE m \in Range(s)
  <2>1. CASE m \in Range(a)
    <3>1. PICK j \in 1..(k - 1) : m = a[j]
      BY <2>1, <1>5
    <3>2. j \in 1..Len(s) /\ m = s[j]
      BY <3>1, <1>1, <1>2
    <3> QED BY <3>2, <1>5
  <2>2. CASE m \in Range(b)
    <3>1. PICK j \in 1..(Len(s) - k) : m = b[j]
      BY <2>2, <1>5
    <3>2. k + j \in 1..Len(s) /\ m = s[k + j]
      BY <3>1, <1>1, <1>3
    <3> QED BY <3>2, <1>5
  <2> QED BY <1>6, <2>1, <2>2
<1>7. ASSUME NEW m \in Range(s), m # s[k] PROVE m \in Range(a) \cup Range(b)
  <2>1. PICK j \in 1..Len(s) : m = s[j]
    BY <1>5
  <2>2. j # k
    BY <2>1, <1>7
  <2>3. CASE j < k
    <3>1. j \in 1..(k - 1) /\ m = a[j]
      BY <2>1, <2>3, <1>1, <1>2
    <3> QED BY <3>1, <1>5
  <2>4. CASE j > k
    <3>1. j - k \in 1..(Len(s) - k) /\ k + (j - k) = j
      BY <2>1, <2>4, <1>1
    <3>2. m = b[j - k]
      BY <3>1, <2>1, <1>3
    <3> QED BY <3>1, <3>2, <1>5
  <2> QED BY <2>1, <2>2, <2>3, <2>4, <1>1
<1>8. Len(s) <= 1 => Range(s) = {s[k]} /\ Range(a) = {} /\ Range(b) = {}
  <2> SUFFICES ASSUME Len(s) <= 1 PROVE Range(s) = {s[k]} /\ Range(a) = {} /\ Range(b) = {}
    OBVIOUS
  <2>1. 1..Len(s) = {k} /\ 1..(k - 1) = {} /\ 1..(Len(s) - k) = {}
    BY <1>1
  <2>2. \A m : m \in Range(s) <=> m = s[k]
    BY <2>1, <1>5
  <2> QED BY <2>1, <2>2, <1>5
<1> QED BY <1>4, <1>6, <1>7, <1>8

LEMMA SendFields ==
  ASSUME NEW op, NEW i
  PROVE  /\ Send(op, i).op = op /\ Send(op, i).stage = "sent"
         /\ Send(op, i).row = i /\ Send(op, i).asked = NoRow
BY DEF Send

LEMMA PageFacts ==
  ASSUME HomeInv
  PROVE  /\ page \in {"user", "role", "menu", "scheduler"}
         /\ net \in Seq(Message) /\ Len(net) \in Nat /\ Len(net) <= MaxNet
         /\ Range(net) \subseteq Message
         /\ net = <<>> <=> Range(net) = {}
         /\ net = <<>> <=> Len(net) = 0
<1>1. /\ page \in {"user", "role", "menu", "scheduler"}
      /\ net \in Seq(Message) /\ Len(net) <= MaxNet
  BY PageAssumption DEF HomeInv, TypeOK
<1>2. Range(net) \subseteq Message /\ (net = <<>> <=> Range(net) = {})
  BY <1>1, RangeIn
<1>3. Len(net) \in Nat /\ (net = <<>> <=> Len(net) = 0)
  BY <1>1, LenProperties, EmptySeq
<1> QED BY <1>1, <1>2, <1>3

-----------------------------------------------------------------------------
(* What a click does.                                                      *)

LEMMA ClickMoves ==
  ASSUME HomeInv, CalmInv, NEW op, NEW i, NEW msgs, Click(op, i, msgs),
         NEW e \in Message, msgs = <<>> \/ msgs = <<e>>
  PROVE  /\ shown = {} /\ opened'.op = op /\ opened'.row = i
         /\ UNCHANGED <<page, text, used, deleted, granted, own, stale, listed>>
         /\ Range(net') = Range(net) \cup Range(msgs)
         /\ calm' => calm /\ Range(net) = {}
         /\ crossed => crossed'
         /\ ~crossed' /\ op \in {"edit", "add", "grant"} =>
              ~OnNet("detail") /\ ~OnNet("tree")
         /\ CalmInv'
<1>1. /\ shown = {} /\ opened' = [op |-> op, row |-> i]
      /\ crossed' = (crossed \/ (op \in {"edit", "add", "grant"} /\ Pending))
      /\ calm' = (calm /\ net = <<>>)
      /\ net' = net \o msgs
      /\ UNCHANGED <<page, text, used, deleted, granted, own, stale, listed>>
  BY DEF Click, server
<1>2. /\ net \in Seq(Message) /\ Len(net) \in Nat
      /\ net = <<>> <=> Range(net) = {}
      /\ net = <<>> <=> Len(net) = 0
  BY PageFacts
<1>3. msgs \in Seq(Message) /\ Len(msgs) \in {0, 1}
  <2>1. CASE msgs = <<>>
    BY <2>1
  <2>2. CASE msgs = <<e>>
    BY <2>2
  <2> QED BY <2>1, <2>2
<1>4. Range(net') = Range(net) \cup Range(msgs) /\ Len(net') = Len(net) + Len(msgs)
  BY <1>1, <1>2, <1>3, RangeConcatenation, ConcatProperties
<1>5. ASSUME ~Pending PROVE ~OnNet("detail") /\ ~OnNet("tree")
  <2>1. \A m : m \in Range(net) => \E k \in DOMAIN net : m = net[k]
    BY DEF Range
  <2> QED BY <1>5, <2>1 DEF Pending, OnNet, Fills
<1>6. Range(net) = {} => ~Pending
  <2>1. \A k \in DOMAIN net : net[k] \in Range(net)
    BY DEF Range
  <2> QED BY <2>1 DEF Pending
<1>7. CalmInv'
  <2> SUFFICES ASSUME calm' PROVE Len(net') <= 1 /\ ~crossed'
    BY DEF CalmInv
  <2>1. calm /\ net = <<>>
    BY <1>1
  <2>2. Len(net) = 0
    BY <2>1, <1>2
  <2>3. Len(net') <= 1
    BY <2>2, <1>3, <1>4
  <2>4. ~crossed'
    BY <2>1, <1>1, <1>2, <1>6 DEF CalmInv
  <2> QED BY <2>3, <2>4
<1>8. calm' => calm /\ Range(net) = {}
  BY <1>1, <1>2
<1>9. (crossed => crossed') /\ (~crossed' /\ op \in {"edit", "add", "grant"} => ~Pending)
  BY <1>1
<1>10. opened'.op = op /\ opened'.row = i
  BY <1>1
<1> QED BY <1>1, <1>4, <1>5, <1>7, <1>8, <1>9, <1>10

\* What each click does to the page.
Clicked(i) ==
  /\ shown = {} /\ opened'.row = i
  /\ UNCHANGED <<page, text, used, deleted, granted, own, stale, listed, tree>>
  /\ calm' => calm /\ Range(net) = {}
  /\ crossed => crossed'
  /\ ~crossed' /\ opened'.op \in {"edit", "add", "grant"} =>
       ~OnNet("detail") /\ ~OnNet("tree")
  /\ CalmInv'
  /\ \/ /\ opened'.op = "edit" /\ page # "scheduler" /\ i \in Rows
        /\ buttons' = {"edit"} /\ bound' = bound /\ shown' = {"editorDialog"}
        /\ form' = ClearData
        /\ Range(net') = Range(net) \cup {Send("detail", i)}
     \/ /\ opened'.op = "edit" /\ page = "scheduler" /\ i \in Listed
        /\ buttons' = {"edit"} /\ bound' = [bound EXCEPT !["edit"] = i]
        /\ shown' = {"myModal"} /\ form'.text = listed[i] /\ form'.id = form.id
        /\ Range(net') = Range(net)
     \/ /\ opened'.op = "add"
        /\ buttons' = {"add"} /\ bound' = [bound EXCEPT !["add"] = i]
        /\ shown' = {Dialog("add")} /\ form' = ClearData
        /\ Range(net') = Range(net)
     \/ /\ opened'.op = "delete"
        /\ IF page \in {"role", "menu"} THEN buttons' = buttons
                                        ELSE buttons' = {"delete"}
        /\ bound' = [bound EXCEPT !["delete"] = i]
        /\ shown' = {"myModal"} /\ form' = form
        /\ Range(net') = Range(net)
     \/ /\ opened'.op = "grant" /\ page \in {"user", "role"} /\ i \in Rows
        /\ bound' = [bound EXCEPT !["grant"] = i] /\ form' = form
        /\ IF page = "role" THEN buttons' = {"grant"} /\ shown' = {}
                            ELSE /\ buttons' = buttons \cup {"grant"}
                                 /\ shown' = {"grantDialog"}
        /\ Range(net') = Range(net) \cup {Send("tree", i)}
     \/ /\ opened'.op = "run" /\ page = "scheduler"
        /\ UNCHANGED <<bound, buttons, form>> /\ shown' = {"myModal"}
        /\ Range(net') = Range(net) \cup {Send("run", i)}

LEMMA Clicks ==
  ASSUME HomeInv, CalmInv, NEW i \in Rows \cup {NoRow},
         Edit(i) \/ EditInRow(i) \/ Add(i) \/ Delete(i) \/ Grant(i) \/ RunNow(i)
  PROVE  Clicked(i)
<1>0. /\ Range(<<>>) = {} /\ \A e : Range(<<e>>) = {e}
      /\ \A op \in {"detail", "tree", "run"} : Send(op, i) \in Message
      /\ Listed \subseteq Rows
      /\ form \in [id : Rows \cup {NoRow}, text : Texts, live : BOOLEAN]
      /\ page \in {"user", "role", "menu", "scheduler"}
  BY RangeSmall, SendFacts, PageFacts DEF Fills, Listed, HomeInv, TypeOK
<1>1. CASE Edit(i)
  <2>1. /\ page # "scheduler" /\ i \in Rows
        /\ Click("edit", i, <<Send("detail", i)>>)
        /\ form' = ClearData /\ buttons' = {"edit"}
        /\ shown' = shown \cup {"editorDialog"} /\ tree' = tree /\ bound' = bound
    BY <1>1 DEF Edit, ShowOnly, Listed
  <2> QED BY <2>1, <1>0, ClickMoves DEF Clicked
<1>2. CASE EditInRow(i)
  <2>1. /\ page = "scheduler" /\ i \in Listed
        /\ Click("edit", i, <<>>)
        /\ form' = [form EXCEPT !.text = listed[i]]
        /\ bound' = [bound EXCEPT !["edit"] = i] /\ buttons' = {"edit"}
        /\ shown' = shown \cup {"myModal"} /\ tree' = tree
    BY <1>2 DEF EditInRow, ShowOnly, Bind
  <2>2. form'.text = listed[i] /\ form'.id = form.id
    BY <2>1, <1>0
  <2> QED BY <2>1, <2>2, <1>0, ClickMoves DEF Clicked
<1>3. CASE Add(i)
  <2>1. /\ Click("add", i, <<>>)
        /\ form' = ClearData
        /\ bound' = [bound EXCEPT !["add"] = i] /\ buttons' = {"add"}
        /\ shown' = shown \cup {Dialog("add")} /\ tree' = tree
    BY <1>3 DEF Add, ShowOnly, Bind
  <2> QED BY <2>1, <1>0, ClickMoves DEF Clicked
<1>4. CASE Delete(i)
  <2>1. /\ Click("delete", i, <<>>)
        /\ bound' = [bound EXCEPT !["delete"] = i]
        /\ IF page \in {"role", "menu"} THEN buttons' = buttons
                                        ELSE buttons' = {"delete"}
        /\ shown' = shown \cup {"myModal"} /\ tree' = tree /\ form' = form
    BY <1>4 DEF Delete, ShowOnly, Bind
  <2> QED BY <2>1, <1>0, ClickMoves DEF Clicked
<1>5. CASE Grant(i)
  <2>1. /\ i \in Rows /\ page \in {"user", "role"}
        /\ Click("grant", i, <<Send("tree", i)>>)
        /\ bound' = [bound EXCEPT !["grant"] = i]
        /\ IF page = "role" THEN buttons' = {"grant"} /\ shown' = shown
                            ELSE /\ buttons' = buttons \cup {"grant"}
                                 /\ shown' = shown \cup {"grantDialog"}
        /\ tree' = tree /\ form' = form
    BY <1>5 DEF Grant, ShowOnly, Bind, Listed
  <2> QED BY <2>1, <1>0, ClickMoves DEF Clicked
<1>6. CASE RunNow(i)
  <2>1. /\ page = "scheduler"
        /\ Click("run", i, <<Send("run", i)>>)
        /\ shown' = shown \cup {"myModal"}
        /\ UNCHANGED <<form, tree, bound, buttons>>
    BY <1>6 DEF RunNow
  <2> QED BY <2>1, <1>0, ClickMoves DEF Clicked
<1> QED BY <1>1, <1>2, <1>3, <1>4, <1>5, <1>6

-----------------------------------------------------------------------------
(* What a confirmation does.                                               *)

Confirmed(m) ==
  /\ UNCHANGED <<page, text, used, deleted, granted, own, stale, listed, form,
                 tree, shown, buttons, bound, opened, crossed>>
  /\ calm' => calm /\ Range(net) = {}
  /\ CalmInv'
  /\ Range(net') = Range(net) \cup {m} /\ m.stage = "sent"
  /\ \/ /\ m.op = "update" /\ CanConfirm("edit")
        /\ m.row = (IF page = "scheduler" THEN bound["edit"] ELSE form.id)
        /\ m.text = form.text /\ m.live = form.live /\ m.asked = opened.row
     \/ /\ m.op = "add" /\ CanConfirm("add")
        /\ m.row = bound["add"] /\ m.text = form.text /\ m.asked = opened.row
     \/ /\ m.op = "delete" /\ CanConfirm("delete")
        /\ m.row = bound["delete"] /\ m.asked = opened.row
     \/ /\ m.op = "grant" /\ CanConfirm("grant")
        /\ m.row = bound["grant"] /\ m.tree = tree

LEMMA ConfirmMoves ==
  ASSUME HomeInv, CalmInv, NEW op, NEW m \in Message, Confirm(op, m)
  PROVE  /\ UNCHANGED <<page, text, used, deleted, granted, own, stale, listed,
                        form, tree, shown, buttons, bound, opened, crossed>>
         /\ calm' => calm /\ Range(net) = {}
         /\ CalmInv'
         /\ Range(net') = Range(net) \cup {m}
         /\ CanConfirm(op)
<1>1. /\ CanConfirm(op) /\ calm' = (calm /\ net = <<>>) /\ net' = Append(net, m)
      /\ UNCHANGED <<page, text, used, deleted, granted, own, stale, listed,
                     form, tree, shown, buttons, bound, opened, crossed>>
  BY DEF Confirm, server, dom
<1>2. /\ net \in Seq(Message) /\ Len(net) \in Nat
      /\ net = <<>> <=> Range(net) = {}
      /\ net = <<>> <=> Len(net) = 0
  BY PageFacts
<1>3. Range(net') = Range(net) \cup {m} /\ Len(net') = Len(net) + 1
  BY <1>1, <1>2, RangeAppend
<1>4. calm' => Len(net) = 0 /\ calm
  BY <1>1, <1>2
<1>5. CalmInv'
  BY <1>1, <1>2, <1>3, <1>4 DEF CalmInv
<1> QED BY <1>1, <1>2, <1>3, <1>5

LEMMA Confirmations ==
  ASSUME HomeInv, CalmInv, ConfirmEdit \/ ConfirmAdd \/ ConfirmDelete \/ ConfirmGrant
  PROVE  \E m \in Message : Confirmed(m)
<1>0. /\ form \in [id : Rows \cup {NoRow}, text : Texts, live : BOOLEAN]
      /\ bound \in [Confirms -> Rows \cup {NoRow}]
      /\ {"edit", "add", "delete", "grant"} = Confirms
      /\ tree \in Rows \cup {NoRow} /\ opened.row \in Rows \cup {NoRow}
  BY DEF HomeInv, TypeOK, Confirms
<1>1. CASE ConfirmEdit
  <2> DEFINE i == IF page = "scheduler" THEN bound["edit"] ELSE form.id
             m == [Send("update", i) EXCEPT !.text = form.text, !.live = form.live,
                                            !.asked = opened.row]
  <2>1. Confirm("edit", m)
    BY <1>1 DEF ConfirmEdit
  <2>2. Send("update", i) \in Message
    BY <1>0, SendFacts DEF Writes
  <2>3. /\ m \in Message /\ m.op = "update" /\ m.stage = "sent" /\ m.row = i
        /\ m.text = form.text /\ m.live = form.live /\ m.asked = opened.row
    BY <2>2, <1>0 DEF Send, Message
  <2> HIDE DEF m
  <2> QED BY <2>1, <2>3, ConfirmMoves DEF Confirmed
<1>2. CASE ConfirmAdd
  <2> DEFINE m == [Send("add", bound["add"])
                   EXCEPT !.text = form.text, !.asked = opened.row]
  <2>1. Confirm("add", m)
    BY <1>2 DEF ConfirmAdd
  <2>2. Send("add", bound["add"]) \in Message
    BY <1>0, SendFacts DEF Writes
  <2>3. /\ m \in Message /\ m.op = "add" /\ m.stage = "sent"
        /\ m.row = bound["add"] /\ m.text = form.text /\ m.asked = opened.row
    BY <2>2, <1>0 DEF Send, Message
  <2> HIDE DEF m
  <2> QED BY <2>1, <2>3, ConfirmMoves DEF Confirmed
<1>3. CASE ConfirmDelete
  <2> DEFINE m == [Send("delete", bound["delete"]) EXCEPT !.asked = opened.row]
  <2>1. Confirm("delete", m)
    BY <1>3 DEF ConfirmDelete
  <2>2. Send("delete", bound["delete"]) \in Message
    BY <1>0, SendFacts DEF Writes
  <2>3. /\ m \in Message /\ m.op = "delete" /\ m.stage = "sent"
        /\ m.row = bound["delete"] /\ m.asked = opened.row
    BY <2>2, <1>0 DEF Send, Message
  <2> HIDE DEF m
  <2> QED BY <2>1, <2>3, ConfirmMoves DEF Confirmed
<1>4. CASE ConfirmGrant
  <2> DEFINE m == [Send("grant", bound["grant"]) EXCEPT !.tree = tree]
  <2>1. Confirm("grant", m)
    BY <1>4 DEF ConfirmGrant
  <2>2. Send("grant", bound["grant"]) \in Message
    BY <1>0, SendFacts DEF Writes
  <2>3. /\ m \in Message /\ m.op = "grant" /\ m.stage = "sent"
        /\ m.row = bound["grant"] /\ m.tree = tree
    BY <2>2, <1>0 DEF Send, Message
  <2> HIDE DEF m
  <2> QED BY <2>1, <2>3, ConfirmMoves DEF Confirmed
<1> QED BY <1>1, <1>2, <1>3, <1>4

-----------------------------------------------------------------------------
(* What the server does.                                                   *)

\* Message m goes, and M comes.
Swap(m, M) ==
  /\ m \in Range(net) /\ M \subseteq Range(net')
  /\ Range(net') \subseteq Range(net) \cup M
  /\ \A x \in Range(net) : x # m => x \in Range(net')
  /\ calm => Range(net) = {m} /\ Range(net') = M

LEMMA SwapOne ==
  ASSUME HomeInv, CalmInv, NEW k \in DOMAIN net, NEW e \in Message,
         net' \in Seq(Message), Len(net') = Len(net),
         \A j \in 1..Len(net) : net'[j] = IF j = k THEN e ELSE net[j],
         calm' = calm, crossed' = crossed
  PROVE  Swap(net[k], {e}) /\ CalmInv'
<1>1. net \in Seq(Message) /\ Len(net) \in Nat
  BY PageFacts
<1>2. /\ e \in Range(net') /\ Range(net') \subseteq Range(net) \cup {e}
      /\ \A m \in Range(net) : m # net[k] => m \in Range(net')
      /\ Len(net) <= 1 => Range(net) = {net[k]} /\ Range(net') = {e}
  BY <1>1, RangeExcept, ZenonT(30)
<1>3. net[k] \in Range(net)
  BY <1>1, RangeIn
<1> QED BY <1>2, <1>3 DEF Swap, CalmInv

Served(m, e) ==
  /\ UNCHANGED <<page, own, stale, listed, form, tree, shown, buttons, bound,
                 opened, crossed, calm>>
  /\ m.stage = "sent" /\ e.op = m.op
  /\ Swap(m, {e}) /\ CalmInv'
  /\ \/ e.stage = "refused" /\ UNCHANGED server
     \/ e.stage = "done" /\
        \/ /\ m.op = "detail" /\ m.row \in Rows /\ UNCHANGED server
           /\ e.row = m.row /\ e.text = text[m.row]
           /\ e.live <=> m.row \notin deleted
        \/ m.op = "tree" /\ e.row = m.row /\ UNCHANGED server
        \/ /\ m.op = "update"
           /\ text' = [i \in Rows |-> IF i = m.row THEN m.text ELSE text[i]]
           /\ page \in {"menu", "scheduler"} => deleted' = deleted
           /\ page = "role" \/ (page = "user" /\ m.live) =>
                deleted' = deleted \ {m.row}
           /\ page = "user" /\ ~m.live =>
                deleted' = deleted \cup ({m.row} \cap Rows)
           /\ UNCHANGED <<used, granted>>
        \/ /\ m.op = "add"
           /\ \E i \in Rows \ used :
                used' = used \cup {i} /\ text' = [text EXCEPT ![i] = m.text]
           /\ UNCHANGED <<deleted, granted>>
        \/ /\ m.op = "delete" /\ deleted' = deleted \cup {m.row}
           /\ UNCHANGED <<text, used, granted>>
        \/ /\ m.op = "grant" /\ granted' = [granted EXCEPT ![m.row] = m.tree]
           /\ UNCHANGED <<text, used, deleted>>
        \/ m.op = "run" /\ UNCHANGED server
        \/ m.op = "list" /\ e.rows = Listing /\ UNCHANGED server
  /\ m.op \in {"add", "delete"} => e.row = e.asked

LEMMA Serves ==
  ASSUME HomeInv, CalmInv, Serve
  PROVE  \E m, e \in Message : Served(m, e)
<1>1. PICK k \in DOMAIN net :
        /\ net[k].stage = "sent"
        /\ \/ HandleDetail(k, net[k]) \/ HandleTree(k, net[k])
           \/ HandleUpdate(k, net[k]) \/ HandleAdd(k, net[k])
           \/ HandleDelete(k, net[k]) \/ HandleGrant(k, net[k])
           \/ HandleOther(k, net[k]) \/ Refuse(k, net[k])
  BY DEF Serve
<1> DEFINE m == net[k]
<1>2. UNCHANGED <<page, stale, listed, form, tree, shown, buttons, bound, opened,
                  crossed, calm>>
  BY DEF Serve, dom, history
<1>3. /\ text \in [Rows -> Texts] /\ Exists \subseteq Rows
      /\ Listing \in [Rows -> Texts \cup {Unlisted}]
  BY RowAssumption, TextFacts DEF HomeInv, TypeOK, Exists, Listing, Current
<1>4. m \in Message /\ m.stage = "sent"
  BY <1>1, PageFacts, ElementOfSeq, LenProperties
<1>5. ASSUME NEW e \in Message, net' = [net EXCEPT ![k] = e]
      PROVE  Swap(m, {e}) /\ CalmInv'
  <2>1. net \in Seq(Message) /\ Len(net) \in Nat
    BY PageFacts
  <2>2. /\ net' \in Seq(Message) /\ Len(net') = Len(net)
        /\ \A j \in 1..Len(net) : net'[j] = IF j = k THEN e ELSE net[j]
    BY <2>1, <1>5, ExceptSeq, LenProperties
  <2> QED BY <2>2, <1>2, SwapOne
<1> DEFINE plain(st) == [Send(m.op, NoRow) EXCEPT !.stage = st]
<1>6. ASSUME NEW st \in {"done", "refused"}
      PROVE  /\ plain(st) \in Message /\ plain(st).op = m.op
             /\ plain(st).stage = st /\ plain(st).row = plain(st).asked
  <2>1. Send(m.op, NoRow) \in Message
    BY <1>4, SendFacts DEF Message
  <2> QED BY <2>1 DEF Send, Message
<1> HIDE DEF m
<1>7. CASE HandleDetail(k, m)
  <2> DEFINE e == [[m EXCEPT !.text = text[m.row], !.live = m.row \notin deleted]
                    EXCEPT !.stage = "done"]
  <2>1. /\ m.op = "detail" /\ m.row \in Rows /\ UNCHANGED server
        /\ net' = [net EXCEPT ![k] = e]
    BY <1>7, <1>3 DEF HandleDetail, Answered
  <2>2. (m.row \notin deleted) \in BOOLEAN /\ text[m.row] \in Texts
    BY <2>1, <1>3
  <2>3. /\ e \in Message /\ e.op = "detail" /\ e.row = m.row
        /\ e.text = text[m.row] /\ e.stage = "done"
        /\ e.live <=> m.row \notin deleted
    BY <2>1, <2>2, <1>4 DEF Message
  <2> HIDE DEF e
  <2> QED BY <2>1, <2>3, <1>2, <1>4, <1>5 DEF Served, server
<1>8. CASE HandleTree(k, m)
  <2> DEFINE e == [m EXCEPT !.stage = "done"]
  <2>1. m.op = "tree" /\ UNCHANGED server /\ net' = [net EXCEPT ![k] = e]
    BY <1>8 DEF HandleTree, Answered
  <2>2. e \in Message /\ e.op = "tree" /\ e.stage = "done" /\ e.row = m.row
    BY <2>1, <1>4 DEF Message
  <2> HIDE DEF e
  <2> QED BY <2>1, <2>2, <1>2, <1>4, <1>5 DEF Served, server
<1>9. CASE HandleUpdate(k, m)
  <2>1. /\ m.op = "update" /\ net' = [net EXCEPT ![k] = plain("done")]
        /\ text' = [i \in Rows |-> IF i = m.row THEN m.text ELSE text[i]]
        /\ page \in {"menu", "scheduler"} => deleted' = deleted
        /\ page = "role" \/ (page = "user" /\ m.live) =>
             deleted' = deleted \ {m.row}
        /\ page = "user" /\ ~m.live =>
             deleted' = deleted \cup ({m.row} \cap Rows)
        /\ UNCHANGED <<used, granted, own>>
    BY <1>9 DEF HandleUpdate, Written, Answered
  <2> HIDE DEF plain
  <2> QED BY <2>1, <1>2, <1>4, <1>5, <1>6 DEF Served, server
<1>10. CASE HandleAdd(k, m)
  <2>1. /\ m.op = "add" /\ net' = [net EXCEPT ![k] = plain("done")]
        /\ \E i \in Rows \ used :
             used' = used \cup {i} /\ text' = [text EXCEPT ![i] = m.text]
        /\ UNCHANGED <<deleted, granted, own>>
    BY <1>10 DEF HandleAdd, Written, Answered
  <2> HIDE DEF plain
  <2> QED BY <2>1, <1>2, <1>4, <1>5, <1>6 DEF Served, server
<1>11. CASE HandleDelete(k, m)
  <2>1. /\ m.op = "delete" /\ net' = [net EXCEPT ![k] = plain("done")]
        /\ deleted' = deleted \cup {m.row} /\ UNCHANGED <<text, used, granted, own>>
    BY <1>11 DEF HandleDelete, Written, Answered
  <2> HIDE DEF plain
  <2> QED BY <2>1, <1>2, <1>4, <1>5, <1>6 DEF Served, server
<1>12. CASE HandleGrant(k, m)
  <2>1. /\ m.op = "grant" /\ net' = [net EXCEPT ![k] = plain("done")]
        /\ granted' = [granted EXCEPT ![m.row] = m.tree]
        /\ UNCHANGED <<text, used, deleted, own>>
    BY <1>12 DEF HandleGrant, Written, Answered
  <2> HIDE DEF plain
  <2> QED BY <2>1, <1>2, <1>4, <1>5, <1>6 DEF Served, server
<1>13. CASE HandleOther(k, m)
  <2> DEFINE e == [[m EXCEPT !.rows = Listing] EXCEPT !.stage = "done"]
  <2>1. /\ UNCHANGED server
        /\ \/ m.op = "run" /\ net' = [net EXCEPT ![k] = plain("done")]
           \/ m.op = "list" /\ net' = [net EXCEPT ![k] = e]
    BY <1>13 DEF HandleOther, Written, Answered
  <2>2. /\ e \in Message /\ e.op = m.op /\ e.stage = "done" /\ e.rows = Listing
    BY <1>3, <1>4 DEF Message
  <2> HIDE DEF e, plain
  <2> QED BY <2>1, <2>2, <1>2, <1>4, <1>5, <1>6 DEF Served, server
<1>14. CASE Refuse(k, m)
  <2>1. UNCHANGED server /\ net' = [net EXCEPT ![k] = plain("refused")]
    BY <1>14 DEF Refuse
  <2> HIDE DEF plain
  <2> QED BY <2>1, <1>2, <1>4, <1>5, <1>6 DEF Served, server
<1> QED BY <1>1, <1>7, <1>8, <1>9, <1>10, <1>11, <1>12, <1>13, <1>14 DEF m

-----------------------------------------------------------------------------
(* What a callback does.                                                   *)

LEMMA SwapNone ==
  ASSUME HomeInv, CalmInv, NEW k \in DOMAIN net, Dropped(k) \/ Reload(k),
         calm' => calm, crossed' = crossed
  PROVE  /\ CalmInv'
         /\ Dropped(k) => Swap(net[k], {})
         /\ Reload(k)  => Swap(net[k], {Send("list", NoRow)})
<1> DEFINE r == RemoveAt(net, k)
<1>1. net \in Seq(Message) /\ Len(net) \in Nat /\ Send("list", NoRow) \in Message
  BY PageFacts, SendFacts
<1>2. /\ Range(r) \subseteq Range(net)
      /\ \A m \in Range(net) : m # net[k] => m \in Range(r)
      /\ Len(net) <= 1 => Range(net) = {net[k]} /\ Range(r) = {}
      /\ r \in Seq(Message) /\ Len(r) = Len(net) - 1
  BY <1>1, RangeRemove, RemoveAtSeq
<1>3. net[k] \in Range(net)
  BY <1>1, RangeIn
<1> HIDE DEF r
<1>4. CASE Dropped(k)
  <2>1. net' = r
    BY <1>4 DEF Dropped, r
  <2>2. Swap(net[k], {})
    BY <2>1, <1>2, <1>3 DEF Swap, CalmInv
  <2>3. CalmInv'
    BY <2>1, <1>1, <1>2 DEF CalmInv
  <2>4. ~Reload(k)
    <3>1. Reload(k) => Len(net') = Len(r) + 1
      BY <1>1, <1>2, RangeAppend DEF Reload, r
    <3> QED BY <3>1, <2>1, <1>1, <1>2
  <2> QED BY <2>2, <2>3, <2>4
<1>5. CASE ~Dropped(k)
  <2>1. Reload(k) /\ net' = Append(r, Send("list", NoRow))
    BY <1>5 DEF Reload, r
  <2>2. /\ Range(net') = Range(r) \cup {Send("list", NoRow)}
        /\ Len(net') = Len(net)
    BY <2>1, <1>1, <1>2, RangeAppend
  <2>3. Swap(net[k], {Send("list", NoRow)})
    BY <2>2, <1>2, <1>3 DEF Swap, CalmInv
  <2>4. CalmInv'
    BY <2>2, <1>1 DEF CalmInv
  <2> QED BY <1>5, <2>3, <2>4
<1> QED BY <1>4, <1>5

\* The callback of message m, which asks for the list again if list is TRUE.
Called(m, list) ==
  /\ UNCHANGED <<page, text, used, deleted, granted, own, buttons, bound, opened,
                 crossed>>
  /\ calm' => calm
  /\ CalmInv'
  /\ ~stale' => /\ IF list THEN ~OnNet("list") ELSE ~stale
                /\ IsWritten(m) => list \/ page = "user"
                /\ m.op = "list" => m.stage = "done" /\ listed' = m.rows
                /\ m.op # "list" => listed' = listed
  /\ Swap(m, IF list THEN {Send("list", NoRow)} ELSE {})
  /\ \/ /\ m.op = "detail" /\ m.stage = "done" /\ ~list
        /\ form'.id = m.row /\ form'.text = m.text
        /\ page = "user" => form'.live = m.live
        /\ UNCHANGED <<listed, tree, shown>>
     \/ /\ m.op = "tree" /\ m.stage = "done" /\ ~list
        /\ tree' = m.row /\ shown' = shown \cup {"grantDialog"}
        /\ UNCHANGED <<listed, form>>
     \/ /\ m.op \in {"update", "add", "delete", "run", "grant"}
        /\ m.stage = "done"
        /\ page # "user" /\ m.op # "grant" => list
        /\ shown' \subseteq shown
        /\ m.op = "run" => "myModal" \notin shown'
        /\ UNCHANGED <<listed, form, tree>>
     \/ /\ m.op = "list" /\ m.stage = "done" /\ ~list /\ listed' = m.rows
        /\ UNCHANGED <<form, tree, shown>>
     \/ /\ m.stage = "refused" /\ ~list
        /\ calm' => m.op \notin {"detail", "tree", "list"}
        /\ shown' \subseteq shown
        /\ m.op = "run" => "myModal" \notin shown'
        /\ UNCHANGED <<listed, form, tree>>
     \/ ~calm' /\ ~list /\ UNCHANGED <<listed, form, tree, shown>>

LEMMA Callbacks ==
  ASSUME HomeInv, CalmInv, TakeDone \/ TakeRefused \/ Lose
  PROVE  \E m \in Message, list \in BOOLEAN : Called(m, list)
<1>1. \A k \in DOMAIN net : net[k] \in Message
  BY PageFacts, ElementOfSeq, LenProperties
<1>2. CASE TakeDone
  <2>1. PICK k \in DOMAIN net :
          /\ net[k].stage = "done"
          /\ \/ TakeDetail(k, net[k]) \/ TakeTree(k, net[k])
             \/ TakeSaved(k, net[k]) \/ TakeDeletedOrRun(k, net[k])
             \/ TakeGranted(k, net[k]) \/ TakeList(k, net[k])
    BY <1>2 DEF TakeDone
  <2> DEFINE m == net[k]
  <2>2. /\ UNCHANGED <<page, text, used, deleted, granted, own, buttons, bound,
                       opened, crossed>>
        /\ calm' = calm
    BY <1>2 DEF TakeDone, server, history
  <2>3. /\ Taken(k) => /\ CalmInv' /\ Swap(m, {}) /\ stale' = stale
        /\ Reload(k) => /\ CalmInv' /\ Swap(m, {Send("list", NoRow)})
                        /\ ~stale' => ~OnNet("list")
    <3>1. \A x \in Range(net) : \E j \in DOMAIN net : x = net[j]
      BY DEF Range
    <3>2. Reload(k) => (~stale' => ~OnNet("list"))
      BY <3>1 DEF Reload, OnNet
    <3> QED BY <2>2, <3>2, SwapNone DEF Taken
  <2>4. m \in Message /\ m.stage = "done"
    BY <2>1, <1>1
  <2> HIDE DEF m
  <2>5. CASE TakeDetail(k, m)
    <3>1. Called(m, FALSE)
      BY <2>2, <2>3, <2>4, <2>5 DEF TakeDetail, Called, IsWritten, Writes
    <3> QED BY <3>1, <2>4
  <2>6. CASE TakeTree(k, m)
    <3>1. Called(m, FALSE)
      BY <2>2, <2>3, <2>4, <2>6 DEF TakeTree, Called, IsWritten, Writes
    <3> QED BY <3>1, <2>4
  <2>7. CASE TakeSaved(k, m)
    <3>1. /\ m.op \in {"update", "add"} /\ UNCHANGED <<listed, form, tree>>
          /\ shown' \subseteq shown
          /\ Reload(k) \/ (page = "user" /\ Taken(k))
      BY <2>7 DEF TakeSaved, Hide
    <3>2. CASE Reload(k)
      <4>1. Called(m, TRUE)
        BY <3>1, <3>2, <2>2, <2>3, <2>4 DEF Called
      <4> QED BY <4>1, <2>4
    <3>3. CASE page = "user" /\ Taken(k)
      <4>1. Called(m, FALSE)
        BY <3>1, <3>3, <2>2, <2>3, <2>4 DEF Called
      <4> QED BY <4>1, <2>4
    <3> QED BY <3>1, <3>2, <3>3
  <2>8. CASE TakeDeletedOrRun(k, m)
    <3>1. Called(m, TRUE)
      BY <2>2, <2>3, <2>4, <2>8 DEF TakeDeletedOrRun, Called, Hide
    <3> QED BY <3>1, <2>4
  <2>9. CASE TakeGranted(k, m)
    <3>1. Called(m, FALSE)
      BY <2>2, <2>3, <2>4, <2>9 DEF TakeGranted, Called, Hide, IsWritten, Writes
    <3> QED BY <3>1, <2>4
  <2>10. CASE TakeList(k, m)
    <3>1. Called(m, FALSE)
      BY <2>2, <2>3, <2>4, <2>10 DEF TakeList, Called, IsWritten, Writes
    <3> QED BY <3>1, <2>4
  <2> QED BY <2>1, <2>5, <2>6, <2>7, <2>8, <2>9, <2>10 DEF m
<1>3. CASE TakeRefused
  <2>1. PICK k \in DOMAIN net :
          /\ net[k].stage = "refused" /\ Dropped(k)
          /\ stale' = (stale \/ Due(net[k]))
          /\ shown' = CASE net[k].op \in {"delete", "run"} -> shown \ {"myModal"}
                        [] net[k].op = "grant" -> shown \ {"grantDialog"}
                        [] OTHER -> shown
          /\ calm' = (calm /\ net[k].op \notin Fills \cup {"list"})
          /\ UNCHANGED <<page, server, listed, form, tree, buttons, bound,
                         opened, crossed, clicks>>
    BY <1>3 DEF TakeRefused
  <2> DEFINE m == net[k]
  <2>2. /\ calm' => calm /\ m.op \notin {"detail", "tree", "list"}
        /\ shown' \subseteq shown /\ (m.op = "run" => "myModal" \notin shown')
        /\ ~stale' => ~stale /\ m.op # "list" /\ ~IsWritten(m)
    BY <2>1 DEF Fills, Due, IsWritten
  <2>3. CalmInv' /\ Swap(m, {})
    BY <2>1, <2>2, SwapNone
  <2>4. m \in Message /\ m.stage = "refused"
    BY <2>1, <1>1
  <2> HIDE DEF m
  <2>5. Called(m, FALSE)
    BY <2>1, <2>2, <2>3, <2>4 DEF Called, server
  <2> QED BY <2>4, <2>5
<1>4. CASE Lose
  <2>1. PICK k \in DOMAIN net : Dropped(k) /\ stale' = (stale \/ Due(net[k]))
    BY <1>4 DEF Lose
  <2>2. /\ ~calm'
        /\ UNCHANGED <<page, text, used, deleted, granted, own, listed, form, tree,
                       shown, buttons, bound, opened, crossed>>
    BY <1>4 DEF Lose, server, dom
  <2>3. CalmInv' /\ Swap(net[k], {})
    BY <2>1, <2>2, SwapNone
  <2>4. net[k] \in Message
    BY <1>1
  <2>5. Called(net[k], FALSE)
    BY <2>1, <2>2, <2>3 DEF Called, Due, IsWritten
  <2> QED BY <2>4, <2>5
<1> QED BY <1>2, <1>3, <1>4

-----------------------------------------------------------------------------
(* What else the operator does.                                            *)

\* Typing, or closing a dialog.
Touched ==
  /\ UNCHANGED <<page, text, used, deleted, granted, own, stale, listed, tree,
                 buttons, bound, opened, crossed, calm, net>>
  /\ shown' \subseteq shown
  /\ form'.id = form.id /\ form'.live = form.live
  /\ \/ form' = form
     \/ /\ shown' = shown
        /\ CanConfirm("edit") \/ CanConfirm("add")
        /\ form'.text = IF "add" \in buttons THEN New ELSE Typed(opened.row)

LEMMA Touches ==
  ASSUME HomeInv, Type \/ Close
  PROVE  Touched
<1>1. form \in [id : Rows \cup {NoRow}, text : Texts, live : BOOLEAN]
  BY DEF HomeInv, TypeOK
<1>2. CASE Type
  BY <1>1, <1>2 DEF Type, Touched, server, history
<1>3. CASE Close
  BY <1>3 DEF Close, Touched, server, history
<1> QED BY <1>2, <1>3

-----------------------------------------------------------------------------
(* What a step does, whatever it is.                                       *)

Same == UNCHANGED <<page, text, used, deleted, granted, own, stale, listed, form,
                    tree, shown, buttons, bound, opened, crossed, calm, net>>

Stepped ==
  \/ \E i \in Rows \cup {NoRow} : Clicked(i)
  \/ \E m \in Message : Confirmed(m)
  \/ \E m, e \in Message : Served(m, e)
  \/ \E m \in Message, list \in BOOLEAN : Called(m, list)
  \/ Touched
  \/ Same

LEMMA Steps ==
  ASSUME HomeInv, CalmInv, [Next]_vars
  PROVE  Stepped
<1>1. CASE UNCHANGED vars
  BY <1>1 DEF Stepped, Same, vars, server, dom, history
<1>2. ASSUME NEW i \in Rows \cup {NoRow},
             Edit(i) \/ EditInRow(i) \/ Add(i) \/ Delete(i) \/ Grant(i) \/ RunNow(i)
      PROVE  Stepped
  BY <1>2, Clicks DEF Stepped
<1>3. CASE ConfirmEdit \/ ConfirmAdd \/ ConfirmDelete \/ ConfirmGrant
  BY <1>3, Confirmations DEF Stepped
<1>4. CASE Type \/ Close
  BY <1>4, Touches DEF Stepped
<1>5. CASE Serve
  BY <1>5, Serves DEF Stepped
<1>6. CASE TakeDone \/ TakeRefused \/ Lose
  BY <1>6, Callbacks DEF Stepped
<1> QED BY <1>1, <1>2, <1>3, <1>4, <1>5, <1>6 DEF Next

\* The page stays the page it is, and whoever did not wait, or opened a dialog
\* too early, has done so.
LEMMA StepKeeps ==
  ASSUME HomeInv, CalmInv, Stepped
  PROVE  /\ page' = page /\ (calm' => calm) /\ (crossed => crossed')
         /\ Orderly' => Orderly
         /\ CalmInv'
<1> DEFINE goal == page' = page /\ (calm' => calm) /\ (crossed => crossed') /\ CalmInv'
<1>2. ASSUME NEW i, Clicked(i) PROVE goal
  BY <1>2 DEF Clicked
<1>3. ASSUME NEW m, Confirmed(m) PROVE goal
  BY <1>3 DEF Confirmed
<1>4. ASSUME NEW m, NEW e, Served(m, e) PROVE goal
  BY <1>4 DEF Served
<1>5. ASSUME NEW m, NEW list, Called(m, list) PROVE goal
  BY <1>5 DEF Called
<1>6. ASSUME Touched \/ Same PROVE goal
  BY <1>6 DEF Touched, Same, CalmInv
<1>1. goal
  BY <1>2, <1>3, <1>4, <1>5, <1>6 DEF Stepped
<1> QED BY <1>1 DEF Orderly

\* Each page has its types.
LEMMA Types ==
  ASSUME HomeInv
  PROVE  /\ page \in {"user", "role", "menu", "scheduler"}
         /\ text \in [Rows -> Texts] /\ used \subseteq Rows /\ SeedRows \subseteq used
         /\ listed \in [Rows -> Texts \cup {Unlisted}]
         /\ granted \in [Rows -> Rows]
         /\ form \in [id : Rows \cup {NoRow}, text : Texts, live : BOOLEAN]
         /\ buttons \subseteq {"edit", "add", "delete", "grant"}
         /\ bound \in [{"edit", "add", "delete", "grant"} -> Rows \cup {NoRow}]
         /\ opened.op \in {"edit", "add", "delete", "grant", "run", "none"}
         /\ NoRow \notin Rows /\ NoRow \notin SeedRows
         /\ \A m \in Range(net) : m \in Message /\ (m.op = "detail" => page # "scheduler")
<1>1. \A m \in Range(net) : m \in Message /\ (m.op = "detail" => page # "scheduler")
  <2>1. net \in Seq(HomeMessages)
    BY DEF HomeInv
  <2>2. Range(net) \subseteq HomeMessages
    BY <2>1, RangeIn
  <2> QED BY <2>2 DEF HomeMessages
<1>2. NoRow \notin Rows /\ NoRow \notin SeedRows
  BY RowAssumption
<1> QED BY <1>1, <1>2, PageFacts DEF HomeInv, TypeOK, Confirms

-----------------------------------------------------------------------------
(* Buttons, closures and dialogs.                                          *)

LEMMA OpenKeeps ==
  ASSUME HomeInv, CalmInv, OpenInv, Stepped
  PROVE  OpenInv'
<1>1. ASSUME NEW i \in Rows \cup {NoRow}, Clicked(i) PROVE OpenInv'
  BY <1>1, Types DEF Clicked, OpenInv
<1>2. ASSUME UNCHANGED <<page, opened, buttons, bound>>,
             opened.op = "none" => shown' = {} /\ net' = <<>>
      PROVE  OpenInv'
  BY <1>2 DEF OpenInv
<1>3. /\ net = <<>> => Range(net) = {}
      /\ opened.op = "none" => shown = {} /\ net = <<>>
  BY PageFacts DEF OpenInv
<1>4. ASSUME NEW m \in Message, Confirmed(m) PROVE OpenInv'
  <2>1. shown # {}
    BY <1>4 DEF Confirmed, CanConfirm, Top
  <2> QED BY <2>1, <1>2, <1>3, <1>4 DEF Confirmed
<1>5. ASSUME NEW m, NEW e, Served(m, e) PROVE OpenInv'
  BY <1>2, <1>3, <1>5 DEF Served, Swap
<1>6. ASSUME NEW m, NEW list, Called(m, list) PROVE OpenInv'
  BY <1>2, <1>3, <1>6 DEF Called, Swap
<1>7. CASE Touched \/ Same
  BY <1>2, <1>3, <1>7 DEF Touched, Same
<1> QED BY <1>1, <1>4, <1>5, <1>6, <1>7 DEF Stepped

LEMMA ShownKeeps ==
  ASSUME HomeInv, CalmInv, OpenInv, ShownInv, Stepped
  PROVE  ShownInv'
<1>1. ASSUME NEW i \in Rows \cup {NoRow}, Clicked(i) PROVE ShownInv'
  <2>1. Send("run", i).op = "run"
    BY SendFields
  <2>2. Dialog("add") = IF page = "scheduler" THEN "myModal" ELSE "editorDialog"
    BY DEF Dialog
  <2> QED BY <1>1, <2>1, <2>2, Types DEF Clicked, ShownInv, OnNet
<1>2. ASSUME UNCHANGED <<page, opened>>, shown' \subseteq shown \cup {"grantDialog"},
             "myModal" \in shown' /\ calm' /\ OnNet("run") => calm /\ OnNet("run")',
             calm' => calm
      PROVE  ShownInv'
  BY <1>2 DEF ShownInv
<1>3. ASSUME NEW m \in Message, Confirmed(m) PROVE ShownInv'
  <2>1. OnNet("run") => ~calm'
    BY <1>3 DEF Confirmed, OnNet
  <2> QED BY <2>1, <1>2, <1>3 DEF Confirmed
<1>4. ASSUME NEW m, NEW e, Served(m, e) PROVE ShownInv'
  <2>1. OnNet("run") => OnNet("run")'
    BY <1>4 DEF Served, Swap, OnNet
  <2> QED BY <2>1, <1>2, <1>4 DEF Served
<1>5. ASSUME NEW m \in Message, NEW list, Called(m, list) PROVE ShownInv'
  <2>1. m.op # "run" /\ OnNet("run") => OnNet("run")'
    BY <1>5 DEF Called, Swap, OnNet
  <2>2. shown' \subseteq shown \cup {"grantDialog"}
    BY <1>5 DEF Called
  <2>3. m.op = "run" => "myModal" \notin shown' \/ ~calm'
    BY <1>5 DEF Called
  <2> QED BY <2>1, <2>2, <2>3, <1>2, <1>5 DEF Called
<1>6. CASE Touched \/ Same
  BY <1>2, <1>6 DEF Touched, Same, OnNet
<1> QED BY <1>1, <1>3, <1>4, <1>5, <1>6 DEF Stepped

\* A confirmation is for the click that opened a dialog last, but for what "run
\* now" shows again; and no tree is confirmed but in its dialog.
LEMMA Confirmable ==
  ASSUME HomeInv, OpenInv, ShownInv, NEW op, CanConfirm(op)
  PROVE  /\ op \in {"edit", "add", "delete"} =>
              opened.op = op \/ /\ page = "scheduler" /\ opened.op = "run"
                                /\ calm => Range(net) # {}
         /\ op = "grant" => "grantDialog" \in shown
         /\ page # "scheduler" /\ op \in {"edit", "add"} =>
              "editorDialog" \in shown /\ buttons = {op}
         /\ op \in buttons
<1>1. Dialog(op) \in shown /\ op \in buttons
  <2>1. Top = {Dialog(op)} /\ op \in buttons
    BY DEF CanConfirm
  <2>2. Top \subseteq shown
    BY DEF Top
  <2> QED BY <2>1, <2>2
<1>2. CASE page = "scheduler"
  <2>1. Dialog(op) = "myModal"
    BY <1>2 DEF Dialog
  <2>2. calm /\ opened.op = "run" => Range(net) # {}
    BY <2>1, <1>1 DEF ShownInv, OnNet
  <2>3. opened.op # "none"
    BY <1>1 DEF OpenInv
  <2> QED BY <2>1, <2>2, <2>3, <1>1, <1>2, Types DEF OpenInv
<1>3. CASE page # "scheduler"
  <2>1. /\ op = "grant" => Dialog(op) = "grantDialog"
        /\ op = "delete" => Dialog(op) = "myModal"
        /\ op \in {"edit", "add"} => Dialog(op) = "editorDialog"
    BY <1>3 DEF Dialog
  <2> QED BY <2>1, <1>1, <1>3 DEF OpenInv, ShownInv
<1> QED BY <1>2, <1>3

-----------------------------------------------------------------------------
(* Each other invariant.                                                   *)

\* What an update confirmed now would write.
LEMMA EditorKeeps ==
  ASSUME HomeInv, OpenInv, ShownInv, EditInv, Orderly, CanConfirm("edit"),
         page \in {"role", "menu"} \/ Range(net) = {}
  PROVE  IF page = "scheduler" THEN Keeps(bound["edit"], form.text)
                               ELSE Keeps(form.id, form.text)
<1>1. \/ opened.op = "edit"
      \/ page = "scheduler" /\ opened.op = "run" /\ (calm => Range(net) # {})
  BY Confirmable
<1>2. EditorInv
  BY DEF EditInv
<1>3. page \in {"user", "role", "menu", "scheduler"}
  BY Types
<1>4. CASE page = "scheduler"
  <2>1. calm /\ Range(net) = {}
    BY <1>4 DEF Orderly
  <2>2. opened.op = "edit"
    BY <2>1, <1>1
  <2> QED BY <2>2, <1>2, <1>4 DEF EditorInv, OpenInv
<1>5. CASE page = "user"
  <2>1. opened.op = "edit" /\ ~OnNet("detail")
    BY <1>1, <1>5 DEF OnNet
  <2> QED BY <2>1, <1>2, <1>5 DEF EditorInv
<1>6. CASE page \in {"role", "menu"}
  BY <1>2, <1>6 DEF EditorInv
<1> QED BY <1>3, <1>4, <1>5, <1>6

\* An update confirmed now would be for the row clicked last, or for none.
LEMMA EditorAsks ==
  ASSUME HomeInv, OpenInv, ShownInv, EditInv, Orderly, CanConfirm("edit"),
         page \in {"role", "menu"} \/ Range(net) = {}
  PROVE  (IF page = "scheduler" THEN bound["edit"] ELSE form.id)
           \in {NoRow, opened.row}
<1>1. \/ opened.op = "edit"
      \/ page = "scheduler" /\ opened.op = "run" /\ (calm => Range(net) # {})
  BY Confirmable
<1>2. EditorInv
  BY DEF EditInv
<1>3. page \in {"user", "role", "menu", "scheduler"}
  BY Types
<1>4. CASE page = "scheduler"
  <2>1. calm /\ Range(net) = {}
    BY <1>4 DEF Orderly
  <2>2. opened.op = "edit"
    BY <2>1, <1>1
  <2> QED BY <2>2, <1>4 DEF OpenInv
<1>5. CASE page = "user"
  <2>1. opened.op = "edit" /\ ~OnNet("detail")
    BY <1>1, <1>5 DEF OnNet
  <2> QED BY <2>1, <1>2, <1>5 DEF EditorInv
<1>6. CASE page \in {"role", "menu"}
  BY <1>1, <1>2, <1>6 DEF EditorInv
<1> QED BY <1>3, <1>4, <1>5, <1>6

LEMMA AskedKeeps ==
  ASSUME HomeInv, CalmInv, OpenInv, ShownInv, EditInv, WritesAreAsked, Stepped
  PROVE  WritesAreAsked'
<1> DEFINE ok(m, c, o) ==
             /\ m.op = "update" /\ m.stage = "sent" /\ o =>
                  m.row \in {NoRow, m.asked}
             /\ m.op \in {"add", "delete"} /\ m.row # m.asked =>
                  page = "scheduler" /\ ~c
<1>1. \A m \in Range(net) : ok(m, calm, Orderly)
  BY DEF Range, WritesAreAsked, IsAsked
<1>2. page' = page /\ (calm' => calm) /\ (Orderly' => Orderly)
  BY StepKeeps
<1>3. SUFFICES \A m \in Range(net') : ok(m, calm', Orderly')
  <2>1. \A k \in DOMAIN net' : net'[k] \in Range(net')
    BY DEF Range
  <2> QED BY <2>1, <1>2, <1>3 DEF WritesAreAsked, IsAsked
<1>4. \A m \in Range(net) : ok(m, calm', Orderly')
  BY <1>1, <1>2
<1>5. ASSUME NEW i, Clicked(i)
      PROVE  \A m \in Range(net') : ok(m, calm', Orderly')
  BY <1>4, <1>5, SendFields DEF Clicked
<1>6. ASSUME NEW m \in Message, Confirmed(m) PROVE ok(m, calm', Orderly')
  <2>1. CASE m.op = "add"
    <3>1. CanConfirm("add") /\ m.row = bound["add"] /\ m.asked = opened.row
      BY <2>1, <1>6 DEF Confirmed
    <3>2. opened.op = "add" \/ (page = "scheduler" /\ (calm => Range(net) # {}))
      BY <3>1, Confirmable
    <3>3. opened.op = "add" => bound["add"] = opened.row
      BY DEF OpenInv
    <3> QED BY <2>1, <3>1, <3>2, <3>3, <1>6 DEF Confirmed
  <2>2. CASE m.op = "delete"
    <3>1. CanConfirm("delete") /\ m.row = bound["delete"] /\ m.asked = opened.row
      BY <2>2, <1>6 DEF Confirmed
    <3>2. opened.op = "delete" \/ (page = "scheduler" /\ (calm => Range(net) # {}))
      BY <3>1, Confirmable
    <3>3. opened.op = "delete" => bound["delete"] = opened.row
      BY DEF OpenInv
    <3> QED BY <2>2, <3>1, <3>2, <3>3, <1>6 DEF Confirmed
  <2>3. CASE m.op = "update" /\ Orderly'
    <3>1. /\ CanConfirm("edit") /\ m.asked = opened.row
          /\ m.row = IF page = "scheduler" THEN bound["edit"] ELSE form.id
      BY <2>3, <1>6 DEF Confirmed
    <3>2. page \in {"role", "menu"} \/ Range(net) = {}
      BY <2>3, <1>2, <1>6, Types DEF Orderly, Confirmed
    <3>3. m.row \in {NoRow, m.asked}
      BY <3>1, <3>2, <2>3, <1>2, EditorAsks
    <3> QED BY <2>3, <3>3
  <2>4. CASE m.op = "update" /\ ~Orderly'
    BY <2>4
  <2> QED BY <2>1, <2>2, <2>3, <2>4
<1>7. ASSUME NEW m \in Message, Confirmed(m)
      PROVE  \A x \in Range(net') : ok(x, calm', Orderly')
  <2>1. Range(net') = Range(net) \cup {m}
    BY <1>7 DEF Confirmed
  <2> QED BY <2>1, <1>4, <1>6, <1>7
<1>8. ASSUME NEW m, NEW e, Served(m, e)
      PROVE  \A x \in Range(net') : ok(x, calm', Orderly')
  <2>1. Range(net') \subseteq Range(net) \cup {e} /\ ok(e, calm', Orderly')
    BY <1>8 DEF Served, Swap
  <2> QED BY <2>1, <1>4
<1>9. ASSUME NEW m, NEW list, Called(m, list)
      PROVE  \A x \in Range(net') : ok(x, calm', Orderly')
  <2>1. Range(net') \subseteq Range(net) \cup {Send("list", NoRow)}
    BY <1>9 DEF Called, Swap
  <2>2. ok(Send("list", NoRow), calm', Orderly')
    BY SendFields
  <2> QED BY <2>1, <2>2, <1>4
<1>10. CASE Touched \/ Same
  <2>1. net' = net
    BY <1>10 DEF Touched, Same
  <2> QED BY <2>1, <1>4
<1> HIDE DEF ok
<1> QED BY <1>5, <1>7, <1>8, <1>9, <1>10 DEF Stepped

LEMMA KeepsNet ==
  ASSUME HomeInv, KeepsInv, UNCHANGED <<text, listed>>,
         \A m \in Range(net') :
           \/ m \in Range(net)
           \/ /\ HasFields(m) => Keeps(m.row, m.text)
              /\ m.op = "list" => m.stage # "done"
  PROVE  KeepsInv'
<1>1. (\A i \in Rows : Keeps(i, text[i]))' /\ (\A i \in Listed : Keeps(i, listed[i]))'
  BY DEF KeepsInv, Keeps, Listed
<1>2. \A m \in Range(net') :
        /\ HasFields(m) => Keeps(m.row, m.text)
        /\ m.op = "list" /\ m.stage = "done" =>
             \A i \in Rows : m.rows[i] # Unlisted => Keeps(i, m.rows[i])
  BY DEF KeepsInv
<1> QED BY <1>1, <1>2 DEF KeepsInv, Keeps, HasFields

LEMMA ClickKeepsEdit ==
  ASSUME HomeInv, CalmInv, OpenInv, EditInv, NEW i \in Rows \cup {NoRow},
         Clicked(i), Orderly, Orderly'
  PROVE  KeepsInv' /\ EditorInv'
<1>1. KeepsInv /\ EditorInv /\ page' = page
  BY DEF EditInv, Clicked
<1>2. KeepsInv'
  <2>1. \A m \in Range(net') : m \in Range(net) \/ (m.stage = "sent" /\ m.op \in {"detail", "tree", "run"})
    BY SendFields DEF Clicked
  <2> QED BY <2>1, <1>1, KeepsNet DEF Clicked, HasFields
<1>3. /\ Send("detail", i).row = i /\ Send("detail", i).op = "detail"
      /\ Send("tree", i).op = "tree" /\ Send("run", i).op = "run"
  BY SendFields
<1>4. /\ ClearData.text = Blank
      /\ ClearData.id = IF page \in {"role", "menu"} THEN NoRow ELSE form.id
  BY ClearFacts DEF HomeInv
<1>5. opened'.op \in {"edit", "add"} => ~OnNet("detail")
  <2>1. page \in {"user", "scheduler"} => Range(net) = {}
    BY DEF Orderly, Clicked
  <2>2. page \in {"role", "menu"} => ~crossed'
    BY <1>1 DEF Orderly
  <2> QED BY <2>1, <2>2, Types DEF Clicked, OnNet
<1>6. \A x : Keeps(NoRow, x)
  BY Types DEF Keeps
<1>7. CASE opened'.op = "edit" /\ page # "scheduler"
  <2>1. /\ opened'.row = i /\ form' = ClearData
        /\ Range(net') = Range(net) \cup {Send("detail", i)}
    BY <1>7 DEF Clicked
  <2>2. OnNet("detail")'
    BY <2>1, <1>3 DEF OnNet
  <2>3. \A m \in Range(net') : m.op = "detail" => m.row = i
    BY <2>1, <1>3, <1>5, <1>7 DEF OnNet
  <2>4. page # "user" => form'.id = NoRow /\ Keeps(form'.id, form'.text)
    BY <2>1, <1>4, <1>6, <1>7, Types
  <2> QED BY <2>1, <2>2, <2>3, <2>4, <1>1, <1>2, <1>7 DEF EditorInv, Keeps
<1>8. CASE opened'.op = "edit" /\ page = "scheduler"
  <2>1. /\ opened'.row = i /\ i \in Listed /\ form'.text = listed[i]
        /\ Range(net') = Range(net)
    BY <1>8 DEF Clicked
  <2>2. Keeps(i, listed[i])
    BY <2>1, <1>1 DEF KeepsInv
  <2>3. \A m \in Range(net') : m.op # "detail"
    BY <2>1, <1>8, Types
  <2>4. Keeps(opened'.row, form'.text)
    BY <2>1, <2>2
  <2> QED BY <2>3, <2>4, <1>1, <1>2, <1>8 DEF EditorInv, Keeps
<1>9. CASE opened'.op = "add"
  <2>1. form' = ClearData /\ Range(net') = Range(net)
    BY <1>9 DEF Clicked
  <2>2. ~OnNet("detail")'
    BY <2>1, <1>5, <1>9 DEF OnNet
  <2>3. page \in {"role", "menu"} => form'.id = NoRow /\ Keeps(form'.id, form'.text)
    BY <2>1, <1>4, <1>6
  <2> QED BY <2>2, <2>3, <1>1, <1>2, <1>9, Types DEF EditorInv, Keeps
<1>10. CASE opened'.op \in {"delete", "grant", "run"}
  <2>1. form' = form
    BY <1>10 DEF Clicked
  <2> QED BY <2>1, <1>1, <1>2, <1>10 DEF EditorInv, Keeps
<1> QED BY <1>7, <1>8, <1>9, <1>10 DEF Clicked

\* An editor that is not touched stays as it is.
LEMMA EditorSame ==
  ASSUME EditorInv, UNCHANGED <<page, opened, form>>,
         \A m \in Range(net') :
           m.op = "detail" =>
             \E x \in Range(net) : /\ x.op = "detail"
                                   /\ m.stage # "refused" =>
                                        x.stage # "refused" /\ x.row = m.row,
         page = "user" /\ OnNet("detail") => OnNet("detail")'
  PROVE  EditorInv'
<1>1. OnNet("detail")' => OnNet("detail")
  BY DEF OnNet
<1>2. opened'.op = "edit" =>
        \A m \in Range(net') :
          m.op = "detail" /\ m.stage # "refused" => m.row = opened'.row
  BY DEF EditorInv
<1> QED BY <1>1, <1>2 DEF EditorInv, Keeps

LEMMA EditKeeps ==
  ASSUME HomeInv, CalmInv, OpenInv, ShownInv, EditInv, Stepped
  PROVE  EditInv'
<1>1. SUFFICES ASSUME Orderly' PROVE KeepsInv' /\ EditorInv'
  BY DEF EditInv
<1>2. Orderly /\ page' = page
  BY <1>1, StepKeeps
<1>3. KeepsInv /\ EditorInv
  BY <1>2 DEF EditInv
<1>4. /\ page \in {"user", "scheduler"} => calm /\ calm'
      /\ page \in {"user", "role", "menu", "scheduler"}
  BY <1>1, <1>2, Types DEF Orderly
<1>5. ASSUME NEW i \in Rows \cup {NoRow}, Clicked(i) PROVE KeepsInv' /\ EditorInv'
  BY <1>1, <1>2, <1>5, ClickKeepsEdit
<1>6. ASSUME NEW m \in Message, Confirmed(m) PROVE KeepsInv' /\ EditorInv'
  <2>1. /\ Range(net') = Range(net) \cup {m} /\ m.op # "detail" /\ m.op # "list"
        /\ UNCHANGED <<page, text, listed, form, opened>>
        /\ page \in {"user", "scheduler"} => Range(net) = {}
    BY <1>4, <1>6 DEF Confirmed
  <2>2. HasFields(m) => Keeps(m.row, m.text)
    <3> SUFFICES ASSUME m.op = "update" PROVE Keeps(m.row, m.text)
      BY <2>1 DEF HasFields
    <3>1. /\ CanConfirm("edit") /\ m.text = form.text
          /\ m.row = IF page = "scheduler" THEN bound["edit"] ELSE form.id
      BY <1>6 DEF Confirmed
    <3>2. IF page = "scheduler" THEN Keeps(bound["edit"], form.text)
                                ELSE Keeps(form.id, form.text)
      BY <3>1, <2>1, <1>2, <1>4, EditorKeeps
    <3> QED BY <3>1, <3>2
  <2>3. KeepsInv'
    BY <2>1, <2>2, <1>3, KeepsNet
  <2>4. EditorInv'
    BY <2>1, <1>3, EditorSame DEF OnNet
  <2> QED BY <2>3, <2>4
<1>7. ASSUME NEW m \in Message, NEW e \in Message, Served(m, e)
      PROVE  KeepsInv' /\ EditorInv'
  <2>1. /\ m \in Range(net) /\ Range(net') \subseteq Range(net) \cup {e}
        /\ e \in Range(net') /\ \A x \in Range(net) : x # m => x \in Range(net')
        /\ m.stage = "sent" /\ e.op = m.op /\ UNCHANGED <<page, listed, form, opened>>
        /\ e.stage \in {"done", "refused"}
    BY <1>7 DEF Served, Swap
  <2>2. /\ m.op = "update" => Keeps(m.row, m.text)
        /\ \A i \in Rows : Keeps(i, text[i])
        /\ \A i \in Listed : Keeps(i, listed[i])
    BY <2>1, <1>3 DEF KeepsInv, HasFields
  <2>3. \A i \in Rows : Keeps(i, text'[i])
    <3>1. CASE text' = text
      BY <3>1, <2>2
    <3>2. CASE text' = [i \in Rows |-> IF i = m.row THEN m.text ELSE text[i]]
               /\ m.op = "update"
      BY <3>2, <2>2
    <3>3. CASE \E i \in Rows \ used : text' = [text EXCEPT ![i] = m.text]
      <4>1. PICK i \in Rows \ used : text' = [text EXCEPT ![i] = m.text]
        BY <3>3
      <4>2. i \notin SeedRows /\ \A j \in Rows \ {i} : text'[j] = text[j]
        BY <4>1, Types
      <4> QED BY <4>2, <2>2 DEF Keeps
    <3> QED BY <3>1, <3>2, <3>3, <1>7 DEF Served, server
  <2>4. Listed' = Listed
    BY <2>1 DEF Listed
  <2>5. HasFields(e) => Keeps(e.row, e.text)
    <3> SUFFICES ASSUME HasFields(e) PROVE Keeps(e.row, e.text)
      OBVIOUS
    <3>1. e.op = "detail" /\ e.stage = "done"
      BY <2>1 DEF HasFields
    <3>2. m.row \in Rows /\ e.row = m.row /\ e.text = text[m.row]
      BY <3>1, <2>1, <1>7 DEF Served
    <3> QED BY <3>2, <2>2
  <2>6. e.op = "list" /\ e.stage = "done" =>
          \A i \in Rows : e.rows[i] # Unlisted => Keeps(i, e.rows[i])
    <3> SUFFICES ASSUME e.op = "list", e.stage = "done",
                        NEW i \in Rows, e.rows[i] # Unlisted
                 PROVE  Keeps(i, e.rows[i])
      OBVIOUS
    <3>1. e.rows = Listing
      BY <2>1, <1>7 DEF Served
    <3>2. e.rows[i] = text[i] \/ e.rows[i] = Of(i)
      BY <3>1 DEF Listing, Current
    <3> QED BY <3>2, <2>2 DEF Keeps
  <2>7. \A x \in Range(net') :
          /\ HasFields(x) => Keeps(x.row, x.text)
          /\ x.op = "list" /\ x.stage = "done" =>
               \A i \in Rows : x.rows[i] # Unlisted => Keeps(i, x.rows[i])
    BY <2>1, <2>5, <2>6, <1>3 DEF KeepsInv
  <2>8. KeepsInv'
    BY <2>1, <2>2, <2>3, <2>4, <2>7 DEF KeepsInv, Keeps, HasFields
  <2>9. e.op = "detail" /\ e.stage # "refused" => e.row = m.row
    BY <2>1, <1>7 DEF Served
  <2>10. EditorInv'
    BY <2>1, <2>9, <1>3, EditorSame DEF OnNet
  <2> QED BY <2>8, <2>10
<1>8. ASSUME NEW m \in Message, NEW list \in BOOLEAN, Called(m, list)
      PROVE  KeepsInv' /\ EditorInv'
  <2>1. /\ m \in Range(net)
        /\ Range(net') \subseteq Range(net) \cup {Send("list", NoRow)}
        /\ \A x \in Range(net) : x # m => x \in Range(net')
        /\ UNCHANGED <<page, text, opened>>
    BY <1>8 DEF Called, Swap
  <2>2. Send("list", NoRow).op = "list" /\ Send("list", NoRow).stage = "sent"
    BY SendFields
  <2>3. \A i \in Rows : listed'[i] # Unlisted => Keeps(i, listed'[i])
    <3>1. CASE listed' = listed
      BY <3>1, <1>3 DEF KeepsInv, Listed
    <3>2. CASE m.op = "list" /\ m.stage = "done" /\ listed' = m.rows
      BY <3>2, <2>1, <1>3 DEF KeepsInv
    <3> QED BY <3>1, <3>2, <1>8 DEF Called
  <2>4. \A i \in Listed' : Keeps(i, listed'[i])
    BY <2>3 DEF Listed
  <2>5. \A x \in Range(net') :
          /\ HasFields(x) => Keeps(x.row, x.text)
          /\ x.op = "list" /\ x.stage = "done" =>
               \A i \in Rows : x.rows[i] # Unlisted => Keeps(i, x.rows[i])
    BY <2>1, <2>2, <1>3 DEF KeepsInv, HasFields
  <2>6. KeepsInv'
    BY <2>1, <2>4, <2>5, <1>3 DEF KeepsInv, Keeps, HasFields
  <2>7. CASE form' = form /\ (page = "user" => m.op # "detail")
    <3>1. page = "user" /\ OnNet("detail") => OnNet("detail")'
      BY <2>1, <2>7 DEF OnNet
    <3>2. EditorInv'
      BY <3>1, <2>1, <2>2, <2>7, <1>3, EditorSame
    <3> QED BY <3>2, <2>6
  <2>8. CASE m.op = "detail" /\ m.stage = "done"
             /\ form'.id = m.row /\ form'.text = m.text
    <3>1. Keeps(form'.id, form'.text)
      BY <2>1, <2>8, <1>3 DEF KeepsInv, HasFields
    <3>2. opened.op = "edit" => form'.id = opened.row
      BY <2>1, <2>8, <1>3 DEF EditorInv
    <3>3. page # "scheduler" /\ OnNet("detail")
      BY <2>1, <2>8, Types DEF OnNet
    <3>4. page # "user" => opened.op # "add"
      BY <3>3, <1>3 DEF EditorInv
    <3>5. opened'.op = "edit" =>
            \A x \in Range(net') :
              x.op = "detail" /\ x.stage # "refused" => x.row = opened'.row
      BY <2>1, <2>2, <1>3 DEF EditorInv
    <3>6. EditorInv'
      BY <3>1, <3>2, <3>3, <3>4, <3>5, <2>1 DEF EditorInv, Keeps
    <3> QED BY <3>6, <2>6
  <2>9. page = "user" => calm'
    BY <1>4
  <2> QED BY <2>7, <2>8, <2>9, <1>8 DEF Called
<1>9. CASE Touched \/ Same
  <2>1. /\ UNCHANGED <<page, text, listed, buttons, bound, opened, net>>
        /\ form'.id = form.id
    BY <1>9 DEF Touched, Same
  <2>2. KeepsInv'
    BY <2>1, <1>3, KeepsNet
  <2>3. CASE form' = form
    BY <2>1, <2>2, <2>3, <1>3, EditorSame DEF OnNet
  <2>4. CASE form' # form
    <3>1. /\ CanConfirm("edit") \/ CanConfirm("add")
          /\ form'.text = IF "add" \in buttons THEN New ELSE Typed(opened.row)
      BY <2>4, <1>9 DEF Touched, Same
    <3>2. opened.op = "edit" => Keeps(opened.row, form'.text)
      BY <3>1, <2>1 DEF OpenInv, Keeps
    <3>3. page # "scheduler" => opened.op \in {"edit", "add"}
      BY <3>1, Confirmable
    <3>4. ~OnNet("detail")' <=> ~OnNet("detail")
      BY <2>1 DEF OnNet
    <3>5. page \in {"role", "menu"} => Keeps(form'.id, form'.text)
      BY <3>2, <3>3, <2>1, <1>3, Types DEF EditorInv, Keeps
    <3>6. EditorInv'
      BY <3>2, <3>4, <3>5, <2>1, <1>3, <1>4 DEF EditorInv, Keeps
    <3> QED BY <3>6, <2>2
  <2> QED BY <2>3, <2>4
<1> QED BY <1>5, <1>6, <1>7, <1>8, <1>9 DEF Stepped

LEMMA GrantKeeps ==
  ASSUME HomeInv, CalmInv, OpenInv, ShownInv, GrantInv, Stepped
  PROVE  GrantInv'
<1> DEFINE fitting(m, c) == /\ m.op = "tree" /\ m.stage # "refused" => m.row = c
                            /\ m.op = "grant" /\ m.stage = "sent" => m.row = m.tree
<1>1. SUFFICES ASSUME Orderly'
               PROVE  /\ \A i \in Rows : granted'[i] = i
                      /\ \A m \in Range(net') : fitting(m, bound'["grant"])
                      /\ "grantDialog" \in shown' =>
                           \/ tree' = bound'["grant"]
                           \/ page' = "user" /\ OnNet("tree")'
  BY DEF GrantInv
<1>2. Orderly /\ page' = page
  BY <1>1, StepKeeps
<1>3. /\ \A i \in Rows : granted[i] = i
      /\ \A m \in Range(net) : fitting(m, bound["grant"])
      /\ "grantDialog" \in shown =>
           tree = bound["grant"] \/ (page = "user" /\ OnNet("tree"))
  BY <1>2 DEF GrantInv
<1>4. page \in {"user", "scheduler"} => calm /\ calm'
  BY <1>1, <1>2 DEF Orderly
<1>5. ASSUME NEW i \in Rows \cup {NoRow}, Clicked(i) PROVE GrantInv'
  <2>1. granted' = granted
    BY <1>5 DEF Clicked
  <2>2. /\ Send("detail", i).op = "detail" /\ Send("run", i).op = "run"
        /\ Send("tree", i).op = "tree" /\ Send("tree", i).row = i
    BY SendFields
  <2>3. CASE opened'.op = "grant"
    <3>1. /\ bound'["grant"] = i /\ Range(net') = Range(net) \cup {Send("tree", i)}
          /\ page = "role" => shown' = {}
          /\ page \in {"user", "role"}
      BY <2>3, <1>5, Types DEF Clicked
    <3>2. ~OnNet("tree")
      <4>1. page = "user" => Range(net) = {}
        BY <1>4, <1>5 DEF Clicked
      <4>2. page = "role" => ~crossed'
        BY <1>1, <1>2 DEF Orderly
      <4> QED BY <4>1, <4>2, <3>1, <2>3, <1>5 DEF Clicked, OnNet
    <3>3. \A m \in Range(net') : fitting(m, i)
      BY <3>1, <3>2, <2>2, <1>3 DEF OnNet
    <3>4. OnNet("tree")'
      BY <3>1, <2>2 DEF OnNet
    <3> QED BY <3>1, <3>3, <3>4, <2>1, <1>2, <1>3 DEF GrantInv
  <2>4. CASE opened'.op # "grant"
    <3>1. bound'["grant"] = bound["grant"] /\ "grantDialog" \notin shown'
      <4>1. Dialog("add") # "grantDialog"
        BY DEF Dialog
      <4> QED BY <4>1, <2>4, <1>5, Types DEF Clicked
    <3>2. \A m \in Range(net') : m \in Range(net) \/ m.op \in {"detail", "run"}
      BY <2>2, <2>4, <1>5 DEF Clicked
    <3> QED BY <3>1, <3>2, <2>1, <1>3 DEF GrantInv
  <2> QED BY <2>3, <2>4
<1>6. ASSUME NEW m \in Message, Confirmed(m) PROVE GrantInv'
  <2>1. /\ Range(net') = Range(net) \cup {m} /\ m.op # "tree"
        /\ UNCHANGED <<page, granted, bound, tree, shown>>
    BY <1>6 DEF Confirmed
  <2>2. m.op = "grant" => m.row = m.tree
    <3> SUFFICES ASSUME m.op = "grant" PROVE m.row = m.tree
      OBVIOUS
    <3>1. CanConfirm("grant") /\ m.row = bound["grant"] /\ m.tree = tree
      BY <1>6 DEF Confirmed
    <3>2. "grantDialog" \in shown
      BY <3>1, Confirmable
    <3>3. page = "user" => ~OnNet("tree")
      BY <1>4, <1>6 DEF Confirmed, OnNet
    <3> QED BY <3>1, <3>2, <3>3, <1>3
  <2>3. OnNet("tree") => OnNet("tree")'
    BY <2>1 DEF OnNet
  <2> QED BY <2>1, <2>2, <2>3, <1>3 DEF GrantInv
<1>7. ASSUME NEW m \in Message, NEW e \in Message, Served(m, e) PROVE GrantInv'
  <2>1. /\ m \in Range(net) /\ Range(net') \subseteq Range(net) \cup {e}
        /\ e \in Range(net') /\ \A x \in Range(net) : x # m => x \in Range(net')
        /\ m.stage = "sent" /\ e.op = m.op /\ e.stage \in {"done", "refused"}
        /\ UNCHANGED <<page, bound, tree, shown>>
    BY <1>7 DEF Served, Swap
  <2>2. fitting(m, bound["grant"])
    BY <2>1, <1>3
  <2>3. \A i \in Rows : granted'[i] = i
    <3>1. CASE granted' = granted
      BY <3>1, <1>3
    <3>2. CASE m.op = "grant" /\ granted' = [granted EXCEPT ![m.row] = m.tree]
      BY <3>2, <2>1, <2>2, <1>3, Types
    <3> QED BY <3>1, <3>2, <1>7 DEF Served, server
  <2>4. e.op = "tree" /\ e.stage = "done" => e.row = m.row
    BY <2>1, <1>7 DEF Served
  <2>5. fitting(e, bound["grant"])
    BY <2>1, <2>2, <2>4
  <2>6. OnNet("tree") => OnNet("tree")'
    BY <2>1 DEF OnNet
  <2> QED BY <2>1, <2>3, <2>5, <2>6, <1>3 DEF GrantInv
<1>8. ASSUME NEW m \in Message, NEW list \in BOOLEAN, Called(m, list) PROVE GrantInv'
  <2>1. /\ m \in Range(net)
        /\ Range(net') \subseteq Range(net) \cup {Send("list", NoRow)}
        /\ \A x \in Range(net) : x # m => x \in Range(net')
        /\ UNCHANGED <<page, granted, bound>>
    BY <1>8 DEF Called, Swap
  <2>2. Send("list", NoRow).op = "list"
    BY SendFields
  <2>3. \A x \in Range(net') : fitting(x, bound'["grant"])
    BY <2>1, <2>2, <1>3
  <2>4. CASE m.op = "tree" /\ m.stage = "done" /\ tree' = m.row
    BY <2>1, <2>3, <2>4, <1>3 DEF GrantInv
  <2>5. CASE tree' = tree /\ shown' \subseteq shown /\ (m.op = "tree" => page # "user")
    <3>1. page = "user" /\ OnNet("tree") => OnNet("tree")'
      BY <2>1, <2>5 DEF OnNet
    <3> QED BY <3>1, <2>1, <2>3, <2>5, <1>3 DEF GrantInv
  <2>6. page = "user" => calm'
    BY <1>4
  <2> QED BY <2>4, <2>5, <2>6, <1>8 DEF Called
<1>9. ASSUME Touched \/ Same PROVE GrantInv'
  <2>1. UNCHANGED <<page, granted, bound, tree, net>> /\ shown' \subseteq shown
    BY <1>9 DEF Touched, Same
  <2> QED BY <2>1, <1>3 DEF GrantInv, OnNet
<1>10. GrantInv'
  BY <1>5, <1>6, <1>7, <1>8, <1>9 DEF Stepped
<1> QED BY <1>1, <1>10 DEF GrantInv

LEMMA ListKeeps ==
  ASSUME HomeInv, CalmInv, ListInv, Stepped
  PROVE  ListInv'
<1> DEFINE fresh(m) == m.op = "list" /\ m.stage = "done" => m.rows = Listing
<1>1. SUFFICES ASSUME ~stale', page # "user",
                      \A m \in Range(net') : ~IsWritten(m)
               PROVE  /\ \A m \in Range(net') : fresh(m)'
                      /\ ~OnNet("list")' => listed' = Listing'
  <2>1. page' = page
    BY StepKeeps
  <2> QED BY <2>1, <1>1 DEF ListInv, IsWritten
<1>2. /\ UNCHANGED <<page, text, used, deleted, own>> => Listing' = Listing
      /\ \A m : fresh(m) /\ Listing' = Listing => fresh(m)'
  BY DEF Listing, Current, Exists
\* What a list has, or the page, stays what there is if the net gets no list
\* that has been read, and loses none.
<1>3. ASSUME ~stale, \A m \in Range(net) : ~IsWritten(m), Listing' = Listing,
             \A m \in Range(net') : m \in Range(net) \/ fresh(m),
             ~OnNet("list")' => \/ listed' = listed /\ ~OnNet("list")
                                \/ listed' = Listing
      PROVE  /\ \A m \in Range(net') : fresh(m)'
             /\ ~OnNet("list")' => listed' = Listing'
  <2>1. (\A m \in Range(net) : fresh(m)) /\ (~OnNet("list") => listed = Listing)
    BY <1>1, <1>3 DEF ListInv
  <2> HIDE DEF fresh
  <2> QED BY <2>1, <1>2, <1>3
<1>4. ASSUME NEW i, Clicked(i) PROVE ListInv'
  <2>1. /\ UNCHANGED <<page, text, used, deleted, own, stale, listed>>
        /\ Range(net) \subseteq Range(net')
        /\ \A m \in Range(net') : m \in Range(net) \/ m.stage = "sent"
    BY <1>4, SendFields DEF Clicked
  <2> QED BY <2>1, <1>1, <1>2, <1>3 DEF OnNet, ListInv, IsWritten
<1>5. ASSUME NEW m, Confirmed(m) PROVE ListInv'
  <2>1. /\ UNCHANGED <<page, text, used, deleted, own, stale, listed>>
        /\ Range(net') = Range(net) \cup {m} /\ m.stage = "sent"
    BY <1>5 DEF Confirmed
  <2> QED BY <2>1, <1>1, <1>2, <1>3 DEF OnNet, ListInv, IsWritten
<1>6. ASSUME NEW m, NEW e, Served(m, e) PROVE ListInv'
  <2>1. /\ m \in Range(net) /\ e \in Range(net')
        /\ \A x \in Range(net) : x # m => x \in Range(net')
        /\ \A x \in Range(net') : x \in Range(net) \/ x = e
        /\ m.stage = "sent" /\ e.op = m.op /\ UNCHANGED <<page, stale, listed>>
    BY <1>6 DEF Served, Swap
  <2>2. \A x \in Range(net) : ~IsWritten(x)
    BY <2>1, <1>1 DEF IsWritten
  <2>3. UNCHANGED <<text, used, deleted, own>> /\ fresh(e)
    <3>1. ~IsWritten(e)
      BY <2>1, <1>1
    <3>2. e.stage = "done" => m.op \notin Writes
      BY <3>1, <2>1 DEF IsWritten
    <3> QED BY <3>2, <2>1, <1>6 DEF Served, server, Writes
  <2>4. OnNet("list") => OnNet("list")'
    BY <2>1 DEF OnNet
  <2> QED BY <2>1, <2>2, <2>3, <2>4, <1>1, <1>2, <1>3 DEF ListInv, IsWritten
<1>7. ASSUME NEW m, NEW list \in BOOLEAN, Called(m, list) PROVE ListInv'
  <2>1. /\ m \in Range(net) /\ UNCHANGED <<page, text, used, deleted, own>>
        /\ \A x \in Range(net) : x # m => x \in Range(net')
        /\ \A x \in Range(net') : x \in Range(net) \/ x = Send("list", NoRow)
        /\ list => Send("list", NoRow) \in Range(net')
    BY <1>7 DEF Called, Swap
  <2>2. /\ IF list THEN ~OnNet("list") ELSE ~stale
        /\ IsWritten(m) => list
        /\ m.op = "list" => m.stage = "done" /\ listed' = m.rows
        /\ m.op # "list" => listed' = listed
    BY <1>1, <1>7 DEF Called
  <2>3. Send("list", NoRow).op = "list" /\ Send("list", NoRow).stage = "sent"
    BY SendFields
  <2>4. Listing' = Listing
    BY <2>1, <1>2
  <2>5. CASE list
    <3>1. \A x \in Range(net') : fresh(x)'
      BY <2>1, <2>2, <2>3, <2>5 DEF OnNet
    <3>2. OnNet("list")'
      BY <2>1, <2>3, <2>5 DEF OnNet
    <3> QED BY <3>1, <3>2, <2>1 DEF ListInv, IsWritten
  <2>6. CASE ~list
    <3>1. \A x \in Range(net) : ~IsWritten(x)
      BY <2>1, <2>2, <2>6, <1>1
    <3>2. \A x \in Range(net) : fresh(x)
      BY <3>1, <2>1, <2>2, <2>6, <1>1 DEF ListInv
    <3>3. m.op = "list" => listed' = Listing
      BY <3>2, <2>1, <2>2
    <3>4. m.op # "list" /\ OnNet("list") => OnNet("list")'
      BY <2>1 DEF OnNet
    <3> QED BY <3>1, <3>3, <3>4, <2>1, <2>2, <2>3, <2>4, <2>6, <1>1, <1>3
            DEF ListInv, IsWritten
  <2> QED BY <2>5, <2>6
<1>8. ASSUME Touched \/ Same PROVE ListInv'
  <2>1. UNCHANGED <<page, text, used, deleted, own, stale, listed, net>>
    BY <1>8 DEF Touched, Same
  <2> QED BY <2>1, <1>1, <1>2, <1>3 DEF ListInv, OnNet, IsWritten
<1>9. ListInv' /\ page' = page
  BY <1>4, <1>5, <1>6, <1>7, <1>8, StepKeeps DEF Stepped
<1> QED BY <1>1, <1>9 DEF ListInv, IsWritten

LEMMA StateKeeps ==
  ASSUME HomeInv, CalmInv, OpenInv, ShownInv, StateInv, Stepped
  PROVE  StateInv' /\ (page = "user" /\ calm' => \A i \in deleted : i \in deleted')
<1> DEFINE told(m) == /\ HasFields(m) => (m.live <=> m.row \notin deleted)
                      /\ m.op = "delete" => opened.op = "delete"
           filled == opened.op = "edit" =>
                       OnNet("detail") \/ (form.live <=> form.id \notin deleted)
           goal == /\ \A m \in Range(net') : told(m)'
                   /\ filled'
                   /\ \A i \in deleted : i \in deleted'
<1>1. SUFFICES ASSUME calm', page = "user" PROVE goal
  BY StepKeeps DEF StateInv
<1>2. page' = page /\ calm /\ filled /\ \A m \in Range(net) : told(m)
  BY <1>1, StepKeeps DEF StateInv
<1>3. form \in [id : Rows \cup {NoRow}, text : Texts, live : BOOLEAN]
  BY Types
<1>4. ASSUME NEW i, Clicked(i) PROVE goal
  <2>1. Range(net) = {} /\ deleted' = deleted
    BY <1>1, <1>4 DEF Clicked
  <2>2. /\ Send("detail", i).op = "detail" /\ Send("detail", i).stage = "sent"
        /\ Send("tree", i).op = "tree" /\ Send("run", i).op = "run"
    BY SendFields
  <2>3. \A m \in Range(net') : told(m)'
    BY <2>1, <2>2, <1>4 DEF Clicked, HasFields
  <2>4. opened'.op = "edit" => OnNet("detail")'
    BY <2>2, <1>1, <1>4 DEF Clicked, OnNet
  <2> QED BY <2>1, <2>3, <2>4
<1>5. ASSUME NEW m \in Message, Confirmed(m) PROVE goal
  <2>1. /\ Range(net) = {} /\ Range(net') = {m} /\ UNCHANGED <<deleted, opened, form>>
    BY <1>1, <1>5 DEF Confirmed
  <2>2. ~OnNet("detail")
    BY <2>1 DEF OnNet
  <2>3. HasFields(m) => (m.live <=> m.row \notin deleted)
    <3> SUFFICES ASSUME HasFields(m) PROVE m.live <=> m.row \notin deleted
      OBVIOUS
    <3>1. CanConfirm("edit") /\ m.row = form.id /\ m.live = form.live
      BY <1>1, <1>5 DEF Confirmed, HasFields
    <3>2. opened.op = "edit"
      BY <3>1, <1>1, Confirmable
    <3> QED BY <3>1, <3>2, <2>2, <1>2
  <2>4. m.op = "delete" => opened.op = "delete"
    <3>1. m.op = "delete" => CanConfirm("delete")
      BY <1>5 DEF Confirmed
    <3> QED BY <3>1, <1>1, Confirmable
  <2> QED BY <2>1, <2>2, <2>3, <2>4, <1>2 DEF HasFields
<1>6. ASSUME NEW m \in Message, NEW e \in Message, Served(m, e) PROVE goal
  <2>1. /\ Range(net) = {m} /\ Range(net') = {e} /\ m.stage = "sent" /\ e.op = m.op
        /\ UNCHANGED <<opened, form>> /\ e.stage \in {"done", "refused"}
    BY <1>2, <1>6 DEF Served, Swap
  <2>2. OnNet("detail")' <=> OnNet("detail")
    BY <2>1 DEF OnNet
  <2>3. told(m)
    BY <2>1, <1>2
  <2>4. deleted' = deleted \/ (m.op = "delete" /\ deleted' = deleted \cup {m.row})
    <3>1. CASE m.op = "update"
      <4>1. m.live <=> m.row \notin deleted
        BY <2>1, <2>3, <3>1 DEF HasFields
      <4>2. deleted \subseteq Rows
        BY DEF HomeInv, TypeOK
      <4>3. CASE e.stage = "done" /\ m.live
        <5>1. deleted' = deleted \ {m.row}
          BY <3>1, <4>3, <1>1, <1>6 DEF Served
        <5> QED BY <5>1, <4>1, <4>3
      <4>4. CASE e.stage = "done" /\ ~m.live
        <5>1. deleted' = deleted \cup ({m.row} \cap Rows)
          BY <3>1, <4>4, <1>1, <1>6 DEF Served
        <5> QED BY <5>1, <4>1, <4>4
      <4>5. CASE e.stage = "refused"
        BY <4>5, <1>6 DEF Served, server
      <4> QED BY <4>3, <4>4, <4>5, <2>1
    <3> QED BY <3>1, <1>6 DEF Served, server
  <2>5. \A i \in deleted : i \in deleted'
    BY <2>4
  <2>6. HasFields(e) => e.live <=> e.row \notin deleted
    <3> SUFFICES ASSUME HasFields(e) PROVE e.live <=> e.row \notin deleted
      OBVIOUS
    <3>1. m.op = "detail" /\ e.stage = "done"
      BY <2>1 DEF HasFields
    <3> QED BY <3>1, <2>1, <1>6 DEF Served
  <2>7. HasFields(e) => deleted' = deleted
    BY <2>1, <2>4 DEF HasFields
  <2>8. HasFields(e)' <=> HasFields(e)
    BY DEF HasFields
  <2>9. told(e)'
    BY <2>1, <2>3, <2>6, <2>7, <2>8
  <2>10. filled'
    BY <2>1, <2>2, <2>3, <2>4, <1>2
  <2> QED BY <2>1, <2>5, <2>9, <2>10
<1>7. ASSUME NEW m \in Message, NEW list \in BOOLEAN, Called(m, list) PROVE goal
  <2>1. /\ Range(net) = {m} /\ UNCHANGED <<opened, deleted>>
        /\ Range(net') = IF list THEN {Send("list", NoRow)} ELSE {}
    BY <1>2, <1>7 DEF Called, Swap
  <2>2. Send("list", NoRow).op = "list"
    BY SendFields
  <2>3. \A x \in Range(net') : told(x)'
    BY <2>1, <2>2 DEF HasFields
  <2>4. CASE m.op = "detail"
    <3>1. m.stage = "done" /\ form'.id = m.row /\ form'.live = m.live
      BY <2>4, <1>1, <1>7 DEF Called
    <3>2. m.live <=> m.row \notin deleted
      BY <3>1, <2>1, <2>4, <1>2 DEF HasFields
    <3>3. filled'
      BY <3>1, <3>2, <2>1
    <3> QED BY <3>3, <2>1, <2>3
  <2>5. CASE m.op # "detail"
    <3>1. form' = form
      BY <2>5, <1>7 DEF Called
    <3>2. ~OnNet("detail")
      BY <2>1, <2>5 DEF OnNet
    <3>3. filled'
      BY <3>1, <3>2, <2>1, <1>2
    <3> QED BY <3>3, <2>1, <2>3
  <2> QED BY <2>4, <2>5
<1>8. ASSUME Touched \/ Same PROVE goal
  <2>1. /\ UNCHANGED <<deleted, opened, net>>
        /\ form'.live = form.live /\ form'.id = form.id
    BY <1>8 DEF Touched, Same
  <2>2. (OnNet("detail")' <=> OnNet("detail")) /\ \A m : HasFields(m)' <=> HasFields(m)
    BY <2>1 DEF OnNet, HasFields
  <2> QED BY <2>1, <2>2, <1>2
<1> HIDE DEF goal
<1> QED BY <1>4, <1>5, <1>6, <1>7, <1>8 DEF Stepped

LEMMA CleanKeeps ==
  ASSUME HomeInv, CalmInv, OpenInv, ShownInv, CleanInv, Stepped
  PROVE  CleanInv'
<1> DEFINE pure(m) ==
             /\ HasFields(m) => Clean(m.row, m.text)
             /\ m.op = "add" /\ m.stage = "sent" => m.text.what # "of"
             /\ m.op = "list" /\ m.stage = "done" =>
                  \A i \in Rows : m.rows[i] # Unlisted => Clean(i, m.rows[i])
           rows == /\ \A i \in Rows : Clean(i, text[i])
                   /\ \A i \in Listed : Clean(i, listed[i])
           adding == "add" \in buttons => form.text.what # "of" /\ ~OnNet("detail")
           fields == IF page = "scheduler"
                     THEN "edit" \in buttons => Clean(bound["edit"], form.text)
                     ELSE Clean(form.id, form.text)
           goal == rows' /\ (\A m \in Range(net') : pure(m)) /\ adding' /\ fields'
<1>1. SUFFICES ASSUME ~crossed' PROVE goal
  BY DEF CleanInv, HasFields, Clean
<1>2. page' = page /\ ~crossed /\ rows /\ (\A m \in Range(net) : pure(m)) /\ adding /\ fields
  BY <1>1, StepKeeps DEF CleanInv
<1>3. \A i, t : t.what # "of" => Clean(i, t)
  BY DEF Clean
<1>4. UNCHANGED <<text, listed>> => rows'
  BY <1>2 DEF Listed
<1>5. ASSUME NEW i \in Rows \cup {NoRow}, Clicked(i) PROVE goal
  <2>1. /\ ClearData.text = Blank /\ Blank.what # "of"
        /\ Send("detail", i).op = "detail" /\ Send("detail", i).stage = "sent"
        /\ Send("tree", i).op = "tree" /\ Send("run", i).op = "run"
    BY ClearFacts, TextFacts, SendFields DEF HomeInv
  <2>2. rows'
    BY <1>4, <1>5 DEF Clicked
  <2>3. \A m \in Range(net') : m \in Range(net) \/ (m.op \in {"detail", "tree", "run"} /\ m.stage = "sent")
    BY SendFields, <1>5 DEF Clicked
  <2>4. \A m \in Range(net') : pure(m)
    BY <2>3, <1>2 DEF HasFields
  <2>5. adding'
    <3>1. CASE opened'.op = "edit"
      BY <3>1, <1>5 DEF Clicked
    <3>2. CASE opened'.op = "add"
      <4>1. form' = ClearData /\ ~OnNet("detail") /\ Range(net') = Range(net)
        BY <3>2, <1>1, <1>5 DEF Clicked
      <4> QED BY <4>1, <2>1 DEF OnNet
    <3>3. CASE opened'.op \in {"delete", "grant", "run"}
      <4>1. form' = form /\ ("add" \in buttons' => "add" \in buttons)
        BY <3>3, <1>5 DEF Clicked
      <4>2. OnNet("detail")' => OnNet("detail")
        BY <3>3, <2>1, <1>5 DEF Clicked, OnNet
      <4> QED BY <4>1, <4>2, <1>2
    <3> QED BY <3>1, <3>2, <3>3, <1>5 DEF Clicked
  <2>6. fields'
    <3>1. CASE opened'.op = "edit" /\ page = "scheduler"
      <4>1. bound'["edit"] = i /\ form'.text = listed[i] /\ i \in Listed
        BY <3>1, <1>5, Types DEF Clicked
      <4>2. Clean(i, listed[i])
        BY <4>1, <1>2
      <4>3. Clean(bound'["edit"], form'.text)
        BY <4>1, <4>2
      <4> QED BY <4>3, <3>1, <1>2
    <3>2. CASE opened'.op = "add" \/ (opened'.op = "edit" /\ page # "scheduler")
      <4>1. form'.text.what # "of"
        BY <3>2, <2>1, <1>5 DEF Clicked
      <4> QED BY <4>1, <1>3, <1>2 DEF Clean
    <3>3. CASE opened'.op \in {"delete", "grant", "run"}
      <4>1. /\ form' = form /\ bound'["edit"] = bound["edit"]
            /\ page = "scheduler" /\ "edit" \in buttons' => "edit" \in buttons
        BY <3>3, <1>5, Types DEF Clicked
      <4> QED BY <4>1, <1>2
    <3> QED BY <3>1, <3>2, <3>3, <1>5 DEF Clicked
  <2> QED BY <2>2, <2>4, <2>5, <2>6
<1>6. ASSUME NEW m \in Message, Confirmed(m) PROVE goal
  <2>1. /\ Range(net') = Range(net) \cup {m} /\ m.stage = "sent"
        /\ UNCHANGED <<page, text, listed, form, buttons, bound>>
        /\ m.op # "detail" /\ m.op # "list"
    BY <1>6 DEF Confirmed
  <2>2. HasFields(m) => Clean(m.row, m.text)
    <3> SUFFICES ASSUME m.op = "update" PROVE Clean(m.row, m.text)
      BY <2>1 DEF HasFields
    <3>1. /\ CanConfirm("edit") /\ m.text = form.text
          /\ m.row = IF page = "scheduler" THEN bound["edit"] ELSE form.id
      BY <1>6 DEF Confirmed
    <3>2. "edit" \in buttons
      BY <3>1, Confirmable
    <3> QED BY <3>1, <3>2, <1>2
  <2>3. m.op = "add" => m.text.what # "of"
    <3> SUFFICES ASSUME m.op = "add" PROVE m.text.what # "of"
      OBVIOUS
    <3>1. CanConfirm("add") /\ m.text = form.text
      BY <1>6 DEF Confirmed
    <3>2. "add" \in buttons
      BY <3>1, Confirmable
    <3> QED BY <3>1, <3>2, <1>2
  <2>4. \A x \in Range(net') : pure(x)
    BY <2>1, <2>2, <2>3, <1>2
  <2>5. adding'
    BY <2>1, <1>2 DEF OnNet
  <2> QED BY <2>1, <2>4, <2>5, <1>2, <1>4
<1>7. ASSUME NEW m \in Message, NEW e \in Message, Served(m, e) PROVE goal
  <2>1. /\ m \in Range(net) /\ Range(net') \subseteq Range(net) \cup {e}
        /\ m.stage = "sent" /\ e.op = m.op /\ e.stage \in {"done", "refused"}
        /\ UNCHANGED <<page, listed, form, buttons, bound>>
    BY <1>7 DEF Served, Swap
  <2>2. pure(m)
    BY <2>1, <1>2
  <2>3. rows'
    <3>1. CASE text' = text
      BY <3>1, <2>1, <1>4
    <3>2. CASE m.op = "update"
               /\ text' = [i \in Rows |-> IF i = m.row THEN m.text ELSE text[i]]
      <4>1. Clean(m.row, m.text)
        BY <3>2, <2>1, <2>2 DEF HasFields
      <4>2. \A i \in Rows : Clean(i, text'[i])
        BY <3>2, <4>1, <1>2
      <4> QED BY <4>2, <2>1, <1>2 DEF Listed, Clean
    <3>3. CASE m.op = "add" /\ \E i \in Rows : text' = [text EXCEPT ![i] = m.text]
      <4>1. m.text.what # "of"
        BY <3>3, <2>1, <2>2
      <4>2. PICK i \in Rows : text' = [text EXCEPT ![i] = m.text]
        BY <3>3
      <4>3. \A j \in Rows : text'[j] = m.text \/ text'[j] = text[j]
        BY <4>2, Types
      <4>4. \A j \in Rows : Clean(j, text'[j])
        BY <4>1, <4>3, <1>2, <1>3
      <4> QED BY <4>4, <2>1, <1>2 DEF Listed, Clean
    <3> QED BY <3>1, <3>2, <3>3, <1>7 DEF Served, server
  <2>4. HasFields(e) => Clean(e.row, e.text)
    <3> SUFFICES ASSUME HasFields(e) PROVE Clean(e.row, e.text)
      OBVIOUS
    <3>1. e.op = "detail" /\ e.stage = "done"
      BY <2>1 DEF HasFields
    <3>2. m.row \in Rows /\ e.row = m.row /\ e.text = text[m.row]
      BY <3>1, <2>1, <1>7 DEF Served
    <3> QED BY <3>2, <1>2
  <2>5. e.op = "list" /\ e.stage = "done" =>
          \A i \in Rows : e.rows[i] # Unlisted => Clean(i, e.rows[i])
    <3> SUFFICES ASSUME e.op = "list", e.stage = "done",
                        NEW i \in Rows, e.rows[i] # Unlisted
                 PROVE  Clean(i, e.rows[i])
      OBVIOUS
    <3>1. e.rows = Listing
      BY <2>1, <1>7 DEF Served
    <3>2. e.rows[i] = text[i] \/ (e.rows[i] = Of(i) /\ i \in own)
      BY <3>1 DEF Listing, Current
    <3>3. own \subseteq SeedRows /\ Of(i).row = i
      BY TextFacts DEF HomeInv, TypeOK
    <3> QED BY <3>2, <3>3, <1>2 DEF Clean
  <2>6. pure(e)
    BY <2>1, <2>4, <2>5
  <2>7. \A x \in Range(net') : pure(x)
    BY <2>1, <2>6, <1>2
  <2>8. OnNet("detail")' => OnNet("detail")
    BY <2>1 DEF OnNet
  <2> QED BY <2>1, <2>3, <2>7, <2>8, <1>2
<1>8. ASSUME NEW m \in Message, NEW list \in BOOLEAN, Called(m, list) PROVE goal
  <2>1. /\ m \in Range(net)
        /\ Range(net') \subseteq Range(net) \cup {Send("list", NoRow)}
        /\ UNCHANGED <<page, text, buttons, bound>>
    BY <1>8 DEF Called, Swap
  <2>2. Send("list", NoRow).op = "list" /\ Send("list", NoRow).stage = "sent"
    BY SendFields
  <2>3. pure(m) /\ pure(Send("list", NoRow))
    BY <2>1, <2>2, <1>2 DEF HasFields
  <2>4. \A x \in Range(net') : pure(x)
    BY <2>1, <2>3, <1>2
  <2>5. OnNet("detail")' => OnNet("detail")
    BY <2>1, <2>2 DEF OnNet
  <2>6. rows'
    <3>1. \A i \in Rows : listed'[i] # Unlisted => Clean(i, listed'[i])
      <4>1. CASE listed' = listed
        BY <4>1, <1>2 DEF Listed
      <4>2. CASE m.op = "list" /\ m.stage = "done" /\ listed' = m.rows
        BY <4>2, <2>3
      <4> QED BY <4>1, <4>2, <1>8 DEF Called
    <3> QED BY <3>1, <2>1, <1>2 DEF Listed, Clean
  <2>7. CASE form' = form
    BY <2>1, <2>4, <2>5, <2>6, <2>7, <1>2
  <2>8. CASE /\ m.op = "detail" /\ m.stage = "done"
             /\ form'.id = m.row /\ form'.text = m.text
    <3>1. Clean(form'.id, form'.text)
      BY <2>3, <2>8 DEF HasFields
    <3>2. OnNet("detail") /\ page # "scheduler"
      BY <2>1, <2>8, Types DEF OnNet
    <3>3. "add" \notin buttons
      BY <3>2, <1>2
    <3> QED BY <3>1, <3>2, <3>3, <2>1, <2>4, <2>6
  <2> QED BY <2>7, <2>8, <1>8 DEF Called
<1>9. ASSUME Touched \/ Same PROVE goal
  <2>1. /\ UNCHANGED <<page, text, listed, buttons, bound, net>>
        /\ form'.id = form.id
    BY <1>9 DEF Touched, Same
  <2>2. (OnNet("detail")' <=> OnNet("detail"))
    BY <2>1 DEF OnNet
  <2>3. CASE form' = form
    BY <2>1, <2>2, <2>3, <1>2, <1>4
  <2>4. CASE form' # form
    <3>1. form'.text = IF "add" \in buttons THEN New ELSE Typed(opened.row)
      BY <2>4, <1>9 DEF Touched, Same
    <3>2. form'.text.what # "of"
      BY <3>1 DEF New, Typed
    <3> QED BY <3>2, <2>1, <2>2, <1>2, <1>3, <1>4
  <2> QED BY <2>3, <2>4
<1> HIDE DEF goal
<1> QED BY <1>5, <1>6, <1>7, <1>8, <1>9 DEF Stepped

-----------------------------------------------------------------------------
(* Theorems.                                                               *)

LEMMA InitOrder == Init => OrderInv
<1> SUFFICES ASSUME Init PROVE OrderInv
  OBVIOUS
<1>1. HomeInv
  BY InitHome
<1>2. Range(net) = {} /\ Len(net) = 0 /\ net = <<>>
  BY RangeSmall DEF Init
<1>3. /\ shown = {} /\ opened.op = "none" /\ crossed = FALSE
      /\ \A i \in Rows : text[i] = IF i \in SeedRows THEN Of(i) ELSE Blank
      /\ \A i \in Rows : listed[i] = IF i \in SeedRows THEN Of(i) ELSE Unlisted
      /\ \A i \in Rows : granted[i] = i
      /\ form.id = NoRow /\ form.text = Blank
      /\ used = SeedRows /\ deleted = {}
  BY DEF Init
<1>4. /\ buttons \in {{"edit", "grant"}, {"edit"}, {"edit", "delete"}}
      /\ "grant" \in buttons => page = "user"
  BY DEF Init
<1>5. Blank.what # "of" /\ Unlisted # Blank /\ NoRow \notin SeedRows
      /\ \A i \in Rows : Of(i).row = i /\ Of(i) # Unlisted
  <2>1. NoRow \notin SeedRows
    BY RowAssumption
  <2>2. /\ Unlisted.what = "unlisted" /\ Blank.what = "blank"
        /\ \A i \in Rows : Of(i).row = i /\ Of(i).what = "of"
    BY DEF Blank, Unlisted, Of
  <2> QED BY <2>1, <2>2
<1>6. CalmInv
  BY <1>2, <1>3 DEF CalmInv
<1>7. OpenInv
  BY <1>2, <1>3, <1>4 DEF OpenInv
<1>8. ShownInv
  BY <1>3 DEF ShownInv
<1>9. WritesAreAsked
  BY <1>2 DEF WritesAreAsked
<1>10. EditInv
  <2>1. KeepsInv
    BY <1>2, <1>3 DEF KeepsInv, Keeps, Listed
  <2>2. EditorInv
    BY <1>3, <1>5 DEF EditorInv, Keeps
  <2> QED BY <2>1, <2>2 DEF EditInv
<1>11. GrantInv
  BY <1>2, <1>3 DEF GrantInv
<1>12. CleanInv
  <2>1. \A i \in Rows : Clean(i, text[i])
    BY <1>3, <1>5 DEF Clean
  <2>2. \A i \in Listed : Clean(i, listed[i])
    BY <1>3, <1>5 DEF Clean, Listed
  <2>3. Clean(form.id, form.text) /\ \A i : Clean(i, form.text)
    BY <1>3, <1>5 DEF Clean
  <2>4. "add" \notin buttons
    BY <1>4
  <2> QED BY <2>1, <2>2, <2>3, <2>4, <1>2 DEF CleanInv
<1>13. ListInv
  <2>1. Exists = SeedRows
    BY <1>3 DEF Exists
  <2>2. listed = [i \in Rows |-> IF i \in SeedRows THEN Of(i) ELSE Unlisted]
    BY DEF Init
  <2>3. Listing = [i \in Rows |-> IF i \in SeedRows THEN Of(i) ELSE Unlisted]
    <3>1. own \subseteq SeedRows
      BY <1>1 DEF HomeInv, TypeOK
    <3> QED BY <2>1, <3>1, <1>3 DEF Listing, Current
  <2> QED BY <2>2, <2>3, <1>2 DEF ListInv
<1>14. StateInv
  BY <1>2, <1>3 DEF StateInv
<1> QED BY <1>1, <1>6, <1>7, <1>8, <1>9, <1>10, <1>11, <1>12, <1>13, <1>14 DEF OrderInv

\* What brings row i back.
Restored(i) == \/ page = "user" /\ ~calm
               \/ page = "role" /\ (crossed \/ EditServed(i))

LEMMA DeletedStep ==
  ASSUME HomeInv, CalmInv, OpenInv, ShownInv, WritesAreAsked, StateInv, Stepped
  PROVE  \A i \in deleted \ deleted' : Restored(i)
<1>1. page = "user" /\ calm' => \A i \in deleted : i \in deleted'
  BY StateKeeps
<1>2. ASSUME NEW i, Clicked(i) PROVE deleted' = deleted
  BY <1>2 DEF Clicked
<1>3. ASSUME NEW m, Confirmed(m) PROVE deleted' = deleted
  BY <1>3 DEF Confirmed
<1>4. ASSUME NEW m, NEW e, Served(m, e), NEW i \in deleted \ deleted'
      PROVE  Restored(i)
  <2>1. calm' = calm /\ m \in Range(net) /\ m.stage = "sent"
    BY <1>4 DEF Served, Swap
  <2>2. page = "user" => Restored(i)
    BY <2>1, <1>1, <1>4 DEF Restored
  <2>3. page # "user" => page = "role" /\ m.op = "update" /\ m.row = i
    BY <1>4, Types DEF Served, server
  <2>4. CASE page = "role" /\ ~crossed /\ m.op = "update" /\ m.row = i
    <3>1. PICK k \in DOMAIN net : net[k] = m
      BY <2>1 DEF Range
    <3>2. Orderly /\ i # NoRow
      BY <2>4, RowAssumption DEF Orderly, HomeInv, TypeOK
    <3>3. net[k].asked = i
      BY <3>1, <3>2, <2>1, <2>4 DEF WritesAreAsked, IsAsked
    <3>4. EditServed(i)
      BY <3>1, <3>3, <2>1, <2>4 DEF EditServed
    <3> QED BY <3>4, <2>4 DEF Restored
  <2> QED BY <2>2, <2>3, <2>4 DEF Restored
<1>5. ASSUME NEW m, NEW list, Called(m, list) PROVE deleted' = deleted
  BY <1>5 DEF Called
<1>6. ASSUME Touched \/ Same PROVE deleted' = deleted
  BY <1>6 DEF Touched, Same
<1> QED BY <1>2, <1>3, <1>4, <1>5, <1>6 DEF Stepped

LEMMA NextOrder ==
  OrderInv /\ [Next]_vars => OrderInv' /\ \A i \in deleted \ deleted' : Restored(i)
<1> SUFFICES ASSUME OrderInv, [Next]_vars
             PROVE  OrderInv' /\ \A i \in deleted \ deleted' : Restored(i)
  OBVIOUS
<1>1. /\ HomeInv /\ CalmInv /\ OpenInv /\ ShownInv /\ WritesAreAsked
      /\ EditInv /\ GrantInv /\ CleanInv /\ ListInv /\ StateInv
  BY DEF OrderInv
<1>2. HomeInv'
  BY <1>1, NextHome
<1>3. Stepped
  BY <1>1, Steps
<1>4. CalmInv' /\ page' = page
  BY <1>1, <1>3, StepKeeps
<1>5. OpenInv' /\ ShownInv'
  BY <1>1, <1>3, OpenKeeps, ShownKeeps
<1>6. WritesAreAsked'
  BY <1>1, <1>3, AskedKeeps
<1>7. EditInv' /\ GrantInv'
  BY <1>1, <1>3, EditKeeps, GrantKeeps
<1>8. CleanInv' /\ ListInv'
  BY <1>1, <1>3, CleanKeeps, ListKeeps
<1>9. StateInv'
  BY <1>1, <1>3, StateKeeps
<1>10. \A i \in deleted \ deleted' : Restored(i)
  BY <1>1, <1>3, DeletedStep
<1> QED BY <1>2, <1>4, <1>5, <1>6, <1>7, <1>8, <1>9, <1>10 DEF OrderInv

\* Buttons, closures, dialogs and messages agree as OrderInv says.
THEOREM OrderInvariant == Spec => []OrderInv
<1>1. OrderInv /\ [Next]_vars => OrderInv'
  BY NextOrder
<1> QED BY <1>1, InitOrder, PTL DEF Spec

\* A row is changed, deleted or added below that the operator clicked last, but
\* where edits do not land home and for what "run now" shows again.
THEOREM WritesAsked == Spec => []WritesAreAsked
<1>1. OrderInv => WritesAreAsked
  BY DEF OrderInv
<1> QED BY <1>1, OrderInvariant, PTL

\* What is typed for a row is written to it and to no other, under the
\* conditions of EditsLandHome.
THEOREM EditsLand == Spec => []EditsLandHome
<1>1. OrderInv => EditsLandHome
  <2> SUFFICES ASSUME OrderInv, Orderly, NEW i \in SeedRows
               PROVE  text[i] \in {Of(i), Typed(i)}
    BY DEF EditsLandHome
  <2>1. Keeps(i, text[i])
    BY RowAssumption DEF OrderInv, EditInv, KeepsInv
  <2> QED BY <2>1 DEF Keeps
<1> QED BY <1>1, OrderInvariant, PTL

\* A row is saved with boxes of its own tree, under the same conditions.
THEOREM GrantsLand == Spec => []GrantsLandHome
<1>1. OrderInv => GrantsLandHome
  BY DEF OrderInv, GrantInv, GrantsLandHome
<1> QED BY <1>1, OrderInvariant, PTL

\* A new row has no text of another row, unless its form was opened while an
\* editor was still to be filled.
THEOREM AddsClean == Spec => []AddIsClean
<1>1. OrderInv => AddIsClean
  <2> SUFFICES ASSUME OrderInv, ~crossed, NEW i \in used \ SeedRows
               PROVE  text[i].what # "of"
    BY DEF AddIsClean
  <2>1. i \in Rows
    BY Types DEF OrderInv
  <2>2. Clean(i, text[i])
    BY <2>1 DEF OrderInv, CleanInv
  <2> QED BY <2>2 DEF Clean
<1> QED BY <1>1, OrderInvariant, PTL

\* The dialog on top has the button of the operation it was opened for, and of
\* no other.
THEOREM Visible == Spec => []ConfirmVisible
<1>1. OrderInv => ConfirmVisible
  <2> SUFFICES ASSUME OrderInv, NEW d \in Top, d = Dialog(opened.op),
                      opened.op # "run",
                      ~(page \in {"role", "menu"} /\ opened.op = "delete")
               PROVE  {b \in buttons : Dialog(b) = d} = {opened.op}
    BY DEF ConfirmVisible
  <2>1. HomeInv /\ OpenInv
    BY DEF OrderInv
  <2>2. d \in shown
    BY DEF Top
  <2>3. opened.op # "none"
    BY <2>1, <2>2 DEF OpenInv
  <2>4. CASE opened.op \in {"edit", "add", "delete"}
    BY <2>1, <2>4, Types DEF OpenInv
  <2>5. CASE opened.op = "grant"
    <3>1. "grant" \in buttons /\ page \in {"user", "role"}
      BY <2>1, <2>5 DEF OpenInv
    <3>2. \A b \in {"edit", "add", "delete", "grant"} :
            Dialog(b) = "grantDialog" <=> b = "grant"
      BY <3>1 DEF Dialog
    <3> QED BY <3>1, <3>2, <2>1, <2>5, Types
  <2> QED BY <2>1, <2>3, <2>4, <2>5, Types
<1> QED BY <1>1, OrderInvariant, PTL

\* Whatever the operator did not wait for, the page lists what the table says
\* once everything is answered, but for lists overtaken or lost since one was
\* asked for alone, the user page and the roles in the operator's session.
THEOREM ListsInSync == Spec => []ListInSync
<1>1. OrderInv => ListInSync
  <2> SUFFICES ASSUME OrderInv, ~stale, page # "user",
                      \A k \in DOMAIN net : ~Due(net[k]), NEW i \in Rows \ own
               PROVE  listed[i] = Current(i)
    BY DEF ListInSync
  <2>1. \A m \in Range(net) : \E k \in DOMAIN net : m = net[k]
    BY DEF Range
  <2>2. (\A m \in Range(net) : ~IsWritten(m)) /\ ~OnNet("list")
    BY <2>1 DEF Due, IsWritten, OnNet
  <2>3. listed = Listing
    BY <2>2 DEF OrderInv, ListInv
  <2> QED BY <2>3 DEF Listing
<1> QED BY <1>1, OrderInvariant, PTL

\* A deleted user comes back only to an operator who did not wait, a deleted
\* role only by an edit of it, unless an editor was filled too late, and a
\* deleted menu or job never.
THEOREM DeletedRowsStay == Spec => DeletedStays
<1>1. OrderInv /\ [Next]_vars =>
        [\A i \in deleted \ deleted' :
           \/ page = "user" /\ ~calm
           \/ page = "role" /\ (crossed \/ EditServed(i))]_vars
  BY NextOrder DEF Restored
<1> QED BY <1>1, OrderInvariant, PTL DEF Spec, DeletedStays

=============================================================================
