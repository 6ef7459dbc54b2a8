--------------------------- MODULE ScheduleJobProofs ---------------------------
(***************************************************************************)
(* Proofs about ScheduleJob, for any number of administrators, names,      *)
(* rows, crons and restarts: every variable keeps its type, and table and  *)
(* scheduler agree but for the causes that InSync names.                   *)
(***************************************************************************)
EXTENDS ScheduleJob, FiniteSetTheorems, WellFoundedInduction, TLAPS

-----------------------------------------------------------------------------
(* Types.                                                                  *)

\* What TypeOK says of a request in progress.
LEMMA RequestFacts ==
  ASSUME TypeOK, NEW c \in Clients, pc[c] # "idle"
  PROVE  /\ req[c] \in Request
         /\ req[c].op \in Ops /\ req[c].id \in Ids \cup {NoId}
         /\ req[c].name \in Names /\ req[c].status \in Status
         /\ req[c].cron \in Crons \cup {NoCron} /\ req[c].idc \in Idcs
<1>1. req[c] \in Request
  BY DEF TypeOK
<1> QED BY <1>1 DEF Request

LEMMA RowFacts ==
  ASSUME TypeOK, NEW i \in RowIds
  PROVE  /\ i \in Ids /\ rows[i] \in Row
         /\ rows[i].name \in Names /\ rows[i].status \in Status
         /\ rows[i].cron \in Crons /\ rows[i].idc \in Idcs
<1>1. i \in Ids /\ rows[i] \in Row
  BY DEF TypeOK, RowIds
<1> QED BY <1>1 DEF Row

LEMMA NamesFacts ==
  ASSUME TypeOK
  PROVE  /\ \A r \in Request : NamesOf(r) \subseteq Names
         /\ \A c \in Clients : Touches(c) \subseteq Names
<1>1. ASSUME NEW r \in Request PROVE NamesOf(r) \subseteq Names
  BY RowFacts DEF NamesOf, Request
<1>2. ASSUME NEW c \in Clients PROVE Touches(c) \subseteq Names
  BY <1>1, RequestFacts DEF Touches
<1> QED BY <1>1, <1>2

\* One client moves on: the requests about to insert are as many, one more
\* or one fewer.
LEMMA InsertCount ==
  ASSUME NEW P, NEW Q, IsFiniteSet(P), NEW c
  PROVE  /\ Q \subseteq P => Cardinality(Q) \in Nat
                             /\ Cardinality(Q) <= Cardinality(P)
         /\ Q \subseteq P \cup {c} => Cardinality(Q) <= Cardinality(P) + 1
         /\ c \in P /\ Q \subseteq P \ {c} =>
              Cardinality(Q) + 1 <= Cardinality(P)
         /\ Cardinality(P) \in Nat
<1>1. Cardinality(P) \in Nat
  BY FS_CardinalityType
<1>2. Q \subseteq P => Cardinality(Q) \in Nat
                       /\ Cardinality(Q) <= Cardinality(P)
  BY FS_Subset, FS_CardinalityType
<1>3. ASSUME Q \subseteq P \cup {c}
      PROVE  Cardinality(Q) <= Cardinality(P) + 1
  <2>1. IsFiniteSet(P \cup {c})
        /\ Cardinality(P \cup {c}) <= Cardinality(P) + 1
    BY <1>1, FS_AddElement
  <2>2. Cardinality(Q) \in Nat /\ Cardinality(Q) <= Cardinality(P \cup {c})
    BY <1>3, <2>1, FS_Subset, FS_CardinalityType
  <2> QED BY <1>1, <2>1, <2>2, FS_CardinalityType
<1>4. ASSUME c \in P, Q \subseteq P \ {c}
      PROVE  Cardinality(Q) + 1 <= Cardinality(P)
  <2>1. IsFiniteSet(P \ {c}) /\ Cardinality(P \ {c}) = Cardinality(P) - 1
    BY <1>4, FS_RemoveElement
  <2>2. Cardinality(Q) \in Nat /\ Cardinality(Q) <= Cardinality(P \ {c})
    BY <1>4, <2>1, FS_Subset, FS_CardinalityType
  <2> QED BY <1>1, <2>1, <2>2
<1> QED BY <1>1, <1>2, <1>3, <1>4

Inserting == {d \in Clients : pc[d] = "insert"}

LEMMA SpaceFacts ==
  /\ IsFiniteSet(Inserting)
  /\ Cardinality(Inserting) \in Nat
  /\ SpaceInv <=> nextId + Cardinality(Inserting) <= MaxId + 1
<1>1. Inserting \subseteq Clients
  BY DEF Inserting
<1> QED BY <1>1, ClientsAssumption, FS_Subset, FS_CardinalityType
        DEF SpaceInv, Inserting

LEMMA TypeInit == Init => TypeInv
<1> SUFFICES ASSUME Init PROVE TypeInv
  OBVIOUS
<1>1. TypeOK
  <2>1. PICK n \in Beans, k \in Crons \ BadCrons :
          rows = [i \in Ids |-> IF i = 1
                    THEN [name |-> n, status |-> "PAUSED", cron |-> k,
                          idc |-> "IDC_DEFAULT"]
                    ELSE NoRow]
    BY DEF Init
  <2>2. rows \in [Ids -> Row \cup {NoRow}]
    BY <2>1, NamesAssumption, IdcAssumption DEF Row, Status
  <2> QED BY <2>2, IdAssumption, NoneAssumption DEF Init, TypeOK
<1>2. PathInv
  BY DEF Init, PathInv
<1>3. SpaceInv
  <2>1. Inserting = {}
    BY DEF Init, Inserting
  <2> QED BY <2>1, SpaceFacts, FS_EmptySet, IdAssumption DEF Init
<1> QED BY <1>1, <1>2, <1>3 DEF TypeInv

\* What a request may begin with.
Opens(r, step, causes) ==
  /\ r \in Request /\ step \in Path(r.op) /\ causes \subseteq Names
  /\ step \in {"quartz", "get", "status", "write", "reply", "insert"}
  /\ r.op \notin {"delete", "update"} => r.cron # NoCron
  /\ step = "insert" => nextId + Cardinality(Inserting) <= MaxId

LEMMA TypeBegin ==
  ASSUME TypeInv, NEW c \in Clients, NEW r, NEW step, NEW causes,
         Opens(r, step, causes), Begin(c, r, step, causes)
  PROVE  TypeInv'
<1>1. /\ TypeOK /\ pc[c] = "idle"
      /\ pc' = [pc EXCEPT ![c] = step] /\ req' = [req EXCEPT ![c] = r]
      /\ UNCHANGED <<rows, nextId, sched, dead, interrupt, restarts, up>>
  BY DEF TypeInv, Begin
<1>2. /\ pc \in [Clients -> {"idle", "quartz", "get", "add", "replace",
                             "status", "write", "remove", "insert", "reply"}]
      /\ req \in [Clients -> Request \cup {NoRequest}]
      /\ \A d \in Clients : pc[d] = "idle" <=> req[d] = NoRequest
  BY <1>1 DEF TypeOK
<1>3. drift' \subseteq Names /\ met' \subseteq Clients
  <2>1. NamesOf(r) \subseteq Names /\ \A d \in Clients : Touches(d) \subseteq Names
    BY <1>1, NamesFacts DEF Opens
  <2>2. Meets(c, r) \subseteq Clients
    BY DEF Meets
  <2>3. drift' \subseteq drift \cup causes \cup NamesOf(r)
                          \cup UNION {Touches(d) : d \in Meets(c, r)}
        /\ met' \subseteq met \cup {c} \cup Meets(c, r)
    BY DEF Begin, Blame
  <2> QED BY <1>1, <2>1, <2>2, <2>3 DEF TypeOK, Opens
<1>4. TypeOK'
  <2>1. pc' \in [Clients -> {"idle", "quartz", "get", "add", "replace",
                             "status", "write", "remove", "insert", "reply"}]
    BY <1>1, <1>2 DEF Opens
  <2>2. req' \in [Clients -> Request \cup {NoRequest}]
    BY <1>1, <1>2 DEF Opens
  <2>3. \A d \in Clients : pc'[d] = "idle" <=> req'[d] = NoRequest
    BY <1>1, <1>2, NoneAssumption DEF Opens
  <2> QED BY <1>1, <1>3, <2>1, <2>2, <2>3 DEF TypeOK, Job, Row
<1>5. PathInv'
  BY <1>1, <1>2 DEF TypeInv, PathInv, Opens
<1>6. SpaceInv'
  <2>1. Inserting' \subseteq Inserting \cup {c}
        /\ (step # "insert" => Inserting' \subseteq Inserting)
    BY <1>1, <1>2 DEF Inserting
  <2>2. nextId \in Nat /\ MaxId \in Nat
    BY <1>1, IdAssumption DEF TypeOK
  <2>3. SpaceInv' <=> nextId' + Cardinality(Inserting') <= MaxId + 1
    <3>1. Inserting' \subseteq Clients
      BY DEF Inserting
    <3> QED BY DEF SpaceInv, Inserting
  <2>4. IsFiniteSet(Inserting) /\ Cardinality(Inserting) \in Nat
        /\ nextId + Cardinality(Inserting) <= MaxId + 1
    BY SpaceFacts DEF TypeInv
  <2>5. Cardinality(Inserting') \in Nat
    <3>1. IsFiniteSet(Inserting')
      BY <2>1, <2>4, FS_AddElement, FS_Subset
    <3> QED BY <3>1, FS_CardinalityType
  <2>6. CASE step = "insert"
    BY <1>1, <2>1, <2>2, <2>3, <2>4, <2>5, <2>6, InsertCount DEF Opens
  <2>7. CASE step # "insert"
    BY <1>1, <2>1, <2>2, <2>3, <2>4, <2>5, <2>7, InsertCount
  <2> QED BY <2>6, <2>7
<1> QED BY <1>4, <1>5, <1>6 DEF TypeInv

\* The object a request has loaded.
LEMMA LoadedFacts ==
  ASSUME TypeOK, NEW op \in Loads, NEW i \in RowIds
  PROVE  /\ Loaded(op, i) \in Request
         /\ Loaded(op, i).op = op /\ Loaded(op, i).id = i
         /\ Loaded(op, i).name = rows[i].name
         /\ Loaded(op, i).status = rows[i].status
         /\ Loaded(op, i).cron = rows[i].cron /\ rows[i].cron # NoCron
         /\ \A k \in Crons :
              /\ [Loaded(op, i) EXCEPT !.cron = k] \in Request
              /\ [Loaded(op, i) EXCEPT !.cron = k].op = op
              /\ [Loaded(op, i) EXCEPT !.cron = k].id = i
              /\ [Loaded(op, i) EXCEPT !.cron = k].name = rows[i].name
              /\ [Loaded(op, i) EXCEPT !.cron = k].status = rows[i].status
              /\ [Loaded(op, i) EXCEPT !.cron = k].cron = k
              /\ k # NoCron
BY RowFacts, NoneAssumption DEF Loaded, Request, Loads, Ops

\* What every request begins with: its object, its first step, and what of
\* its name is put into drift.
Opening(c, r, step, causes) ==
  /\ Begin(c, r, step, causes)
  /\ Opens(r, step, causes)
  /\ r.op \in Loads =>
       /\ r.id \in RowIds /\ r.name = rows[r.id].name
       /\ r.status = rows[r.id].status
       /\ r.op # "reschedule" => r.cron = rows[r.id].cron
  /\ r.op \in {"pause", "resume", "reschedule", "delete"} => step = "quartz"
  /\ r.op = "schedule" => step = "reply" \/ (step = "get" /\ r.status = "NORMAL")
  /\ r.op = "create" => step = "insert" /\ r.id = NoId
  /\ r.op = "update" =>
       /\ r.id \in RowIds /\ r.name \in causes /\ rows[r.id].name \in causes
  /\ r.op = "reschedule" => r.status = "NORMAL" \/ r.name \in causes
  /\ r.op = "delete" => \/ r.id \in RowIds /\ rows[r.id].name = r.name
                        \/ NamesOf(r) \subseteq causes

LEMMA Openings ==
  ASSUME TypeInv, NEW c \in Clients, Receive(c)
  PROVE  \E r, step, causes : Opening(c, r, step, causes)
<1>0. TypeOK
  BY DEF TypeInv
<1>1. ASSUME NEW op \in {"pause", "resume"}, NEW i \in RowIds,
             Begin(c, Loaded(op, i), "quartz", {})
      PROVE  Opening(c, Loaded(op, i), "quartz", {})
  <2>1. op \in Loads
    BY DEF Loads
  <2> HIDE DEF Loads
  <2> QED BY <1>0, <1>1, <2>1, LoadedFacts DEF Opening, Opens, Path
<1>2. CASE PauseJob(c)
  BY <1>1, <1>2 DEF PauseJob
<1>3. CASE ResumeJob(c)
  BY <1>1, <1>3 DEF ResumeJob
<1>4. CASE ScheduleJob(c)
  <2>1. PICK i \in RowIds :
          Begin(c, Loaded("schedule", i),
                IF rows[i].status = "NORMAL" THEN "get" ELSE "reply", {})
    BY <1>4 DEF ScheduleJob
  <2>2. "schedule" \in Loads
    BY DEF Loads
  <2> DEFINE step == IF rows[i].status = "NORMAL" THEN "get" ELSE "reply"
  <2>3. /\ step \in {"get", "reply"}
        /\ step = "get" => rows[i].status = "NORMAL"
    OBVIOUS
  <2> HIDE DEF step
  <2>4. Opening(c, Loaded("schedule", i), step, {})
    BY <1>0, <2>1, <2>2, <2>3, LoadedFacts DEF Opening, Opens, Path, step
  <2> QED BY <2>4
<1>5. CASE RescheduleJob(c)
  <2>1. PICK i \in RowIds, k \in Crons :
          Begin(c, [Loaded("reschedule", i) EXCEPT !.cron = k], "quartz",
                IF rows[i].status = "NORMAL" THEN {} ELSE {rows[i].name})
    BY <1>5 DEF RescheduleJob
  <2> DEFINE r == [Loaded("reschedule", i) EXCEPT !.cron = k]
             causes == IF rows[i].status = "NORMAL" THEN {} ELSE {rows[i].name}
  <2>2. "reschedule" \in Loads
    BY DEF Loads
  <2>3. /\ r \in Request /\ r.op = "reschedule" /\ r.id = i
        /\ r.name = rows[i].name /\ r.status = rows[i].status /\ r.cron # NoCron
    BY <1>0, <2>2, LoadedFacts
  <2>4. causes \subseteq Names /\ (r.status = "NORMAL" \/ r.name \in causes)
    BY <1>0, <2>3, RowFacts
  <2>5. Begin(c, r, "quartz", causes)
    BY <2>1
  <2> HIDE DEF r, causes
  <2>6. Opening(c, r, "quartz", causes)
    BY <2>3, <2>4, <2>5 DEF Opening, Opens, Path
  <2> QED BY <2>6
<1>6. CASE DeleteJob(c)
  <2>1. PICK i \in Ids, n \in Names :
          Begin(c, [op |-> "delete", id |-> i, name |-> n, status |-> "NONE",
                    cron |-> NoCron, idc |-> "IDC_DEFAULT"], "quartz",
                IF i \in RowIds /\ rows[i].name = n THEN {}
                ELSE {rows[j].name : j \in {i} \cap RowIds} \cup {n})
    BY <1>6 DEF DeleteJob
  <2> DEFINE r == [op |-> "delete", id |-> i, name |-> n, status |-> "NONE",
                   cron |-> NoCron, idc |-> "IDC_DEFAULT"]
             causes == IF i \in RowIds /\ rows[i].name = n THEN {}
                       ELSE {rows[j].name : j \in {i} \cap RowIds} \cup {n}
  <2>2. /\ r \in Request /\ r.op = "delete" /\ r.id = i /\ r.name = n
    BY IdcAssumption DEF Request, Ops, Status
  <2>3. causes \subseteq Names
    BY <1>0, RowFacts
  <2>4. \/ r.id \in RowIds /\ rows[r.id].name = r.name
        \/ NamesOf(r) \subseteq causes
    BY DEF NamesOf
  <2>5. Begin(c, r, "quartz", causes)
    BY <2>1
  <2> HIDE DEF r, causes
  <2>6. Opening(c, r, "quartz", causes)
    BY <2>2, <2>3, <2>4, <2>5 DEF Opening, Opens, Path, Loads
  <2> QED BY <2>6
<1>7. CASE CreateJob(c)
  <2>1. PICK n \in Names, s \in {"NONE", "NORMAL"}, k \in Crons, idc \in Idcs :
          /\ nextId + Cardinality({d \in Clients : pc[d] = "insert"}) <= MaxId
          /\ Begin(c, [op |-> "create", id |-> NoId, name |-> n, status |-> s,
                       cron |-> k, idc |-> idc], "insert", {})
    BY <1>7 DEF CreateJob
  <2> DEFINE r == [op |-> "create", id |-> NoId, name |-> n, status |-> s,
                   cron |-> k, idc |-> idc]
  <2>2. r \in Request /\ r.op = "create" /\ r.id = NoId /\ r.cron # NoCron
    BY NoneAssumption DEF Request, Ops, Status
  <2>3. Begin(c, r, "insert", {})
    BY <2>1
  <2>4. nextId + Cardinality(Inserting) <= MaxId
    BY <2>1 DEF Inserting
  <2> HIDE DEF r
  <2>5. Opening(c, r, "insert", {})
    BY <2>2, <2>3, <2>4 DEF Opening, Opens, Path, Loads
  <2> QED BY <2>5
<1>8. CASE UpdateJob(c)
  <2>1. PICK i \in RowIds, n \in Names, k \in Crons \cup {NoCron}, idc \in Idcs :
          Begin(c, [op |-> "update", id |-> i, name |-> n, status |-> "NONE",
                    cron |-> k, idc |-> idc], "write", {n, rows[i].name})
    BY <1>8 DEF UpdateJob
  <2> DEFINE r == [op |-> "update", id |-> i, name |-> n, status |-> "NONE",
                   cron |-> k, idc |-> idc]
  <2>2. /\ r \in Request /\ r.op = "update" /\ r.id = i /\ r.name = n
        /\ rows[i].name \in Names
    BY <1>0, RowFacts DEF Request, Ops, Status
  <2>3. Begin(c, r, "write", {n, rows[i].name})
    BY <2>1
  <2> HIDE DEF r
  <2>4. Opening(c, r, "write", {n, rows[i].name})
    BY <2>2, <2>3 DEF Opening, Opens, Path, Loads
  <2> QED BY <2>4
<1> QED BY <1>2, <1>3, <1>4, <1>5, <1>6, <1>7, <1>8 DEF Receive

\* Where a step takes its client: to a later step of the same request, which
\* keeps all but the id of an inserted row, or to the end of it.
Moves(c, s, r) ==
  /\ pc[c] # "idle"
  /\ pc' = [pc EXCEPT ![c] = s] /\ req' = [req EXCEPT ![c] = r]
  /\ \/ s = "idle" /\ r = NoRequest
     \/ /\ s \in Path(req[c].op) \ {"idle", "quartz", "insert"}
        /\ \/ r = req[c]
           \/ pc[c] = "insert" /\ r = [req[c] EXCEPT !.id = nextId]
  /\ restarts' = restarts /\ up' = up /\ dead' = dead

LEMMA PathFacts ==
  ASSUME TypeInv, NEW c \in Clients, pc[c] # "idle"
  PROVE  /\ pc[c] = "quartz" => req[c].op \in {"pause", "resume", "delete", "reschedule"}
         /\ pc[c] = "get" => req[c].op \in {"resume", "schedule", "create", "reschedule"}
         /\ pc[c] \in {"add", "replace"} =>
              req[c].op \in {"resume", "schedule", "create", "reschedule"}
         /\ pc[c] = "status" => req[c].op \in {"pause", "resume"}
         /\ pc[c] = "write" => req[c].op \in {"reschedule", "update"}
         /\ pc[c] = "remove" => req[c].op = "delete"
         /\ pc[c] = "insert" => req[c].op = "create"
         /\ pc[c] = "reply" => req[c].op = "schedule"
<1>1. req[c].op \in Ops /\ pc[c] \in Path(req[c].op)
  BY RequestFacts DEF TypeInv, PathInv
<1> QED BY <1>1 DEF Ops, Path

LEMMA StepMoves ==
  ASSUME TypeInv, NEW c \in Clients, Step(c)
  PROVE  \E s, r : Moves(c, s, r)
<1>0. /\ pc \in [Clients -> {"idle", "quartz", "get", "add", "replace",
                             "status", "write", "remove", "insert", "reply"}]
      /\ req \in [Clients -> Request \cup {NoRequest}]
  BY DEF TypeInv, TypeOK
<1>1. /\ req = [req EXCEPT ![c] = req[c]]
      /\ \A s, r : (pc' = [pc EXCEPT ![c] = s] /\ req' = [req EXCEPT ![c] = r])
                     => pc' = [pc EXCEPT ![c] = s]
  BY <1>0
<1>2. ASSUME Done(c), pc[c] # "idle", restarts' = restarts, up' = up,
             dead' = dead
      PROVE  Moves(c, "idle", NoRequest)
  BY <1>2 DEF Done, GoTo, Moves
<1>3. ASSUME NEW s \in Path(req[c].op), s \notin {"idle", "quartz", "insert"},
             GoTo(c, s), req' = req, pc[c] # "idle", restarts' = restarts,
             up' = up, dead' = dead
      PROVE  Moves(c, s, req[c])
  BY <1>1, <1>3 DEF GoTo, Moves
<1>4. ASSUME Scheduled(c), pc[c] \in {"get", "add", "replace"},
             restarts' = restarts, up' = up, dead' = dead
      PROVE  \E s, r : Moves(c, s, r)
  <2>1. CASE req[c].op = "resume"
    BY <1>3, <1>4, <2>1 DEF Scheduled, Path
  <2>2. CASE req[c].op = "reschedule"
    BY <1>3, <1>4, <2>2 DEF Scheduled, Path
  <2>3. CASE req[c].op \notin {"resume", "reschedule"}
    BY <1>2, <1>4, <2>3 DEF Scheduled
  <2> QED BY <2>1, <2>2, <2>3
<1>5. CASE PauseQuartz(c)
  BY <1>2, <1>3, <1>5 DEF PauseQuartz, Path
<1>6. CASE ResumeQuartz(c)
  <2>1. CASE req[c].name \notin Beans
    BY <1>2, <1>6, <2>1 DEF ResumeQuartz
  <2>2. CASE req[c].name \in Beans /\ Exists(req[c].name)
    BY <1>3, <1>6, <2>2 DEF ResumeQuartz, Path
  <2>3. CASE req[c].name \in Beans /\ ~Exists(req[c].name)
    BY <1>3, <1>6, <2>3 DEF ResumeQuartz, Path
  <2> QED BY <2>1, <2>2, <2>3
<1>7. CASE DeleteQuartz(c)
  <2>1. CASE req[c].op = "delete"
    BY <1>3, <1>7, <2>1 DEF DeleteQuartz, Path
  <2>2. CASE req[c].op = "reschedule"
    BY <1>3, <1>7, <2>2 DEF DeleteQuartz, Path
  <2> QED BY <1>7, <2>1, <2>2 DEF DeleteQuartz
<1>8. CASE GetTrigger(c)
  <2>1. CASE req[c].name \notin Beans
    BY <1>4, <1>8, <2>1 DEF GetTrigger
  <2>2. CASE req[c].name \in Beans
    <3>1. \E s \in {"replace", "add"} : GoTo(c, s) /\ req' = req
      BY <1>8, <2>2 DEF GetTrigger
    <3>2. {"replace", "add"} \subseteq Path(req[c].op)
      BY <1>8, PathFacts DEF GetTrigger, Path
    <3> QED BY <1>3, <1>8, <3>1, <3>2 DEF GetTrigger
  <2> QED BY <2>1, <2>2
<1>9. CASE RejectCron(c) \/ WriteStatus(c) \/ WriteRow(c) \/ RemoveRow(c) \/ Reply(c)
  BY <1>2, <1>9 DEF RejectCron, WriteStatus, WriteRow, RemoveRow, Reply
<1>10. CASE AddJob(c) \/ ReplaceTrigger(c)
  BY <1>4, <1>10 DEF AddJob, ReplaceTrigger
<1>11. CASE InsertRow(c)
  <2>1. CASE req[c].status = "NORMAL"
    <3>1. GoTo(c, "get") /\ req' = [req EXCEPT ![c].id = nextId]
      BY <1>11, <2>1 DEF InsertRow
    <3>2. req' = [req EXCEPT ![c] = [req[c] EXCEPT !.id = nextId]]
      BY <3>1
    <3>3. "get" \in Path(req[c].op) /\ pc[c] = "insert"
          /\ restarts' = restarts /\ up' = up /\ dead' = dead
      BY <1>11, PathFacts DEF InsertRow, Path
    <3> QED BY <3>1, <3>2, <3>3 DEF Moves, GoTo
  <2>2. CASE req[c].status # "NORMAL"
    BY <1>2, <1>11, <2>2 DEF InsertRow
  <2> QED BY <2>1, <2>2
<1> QED BY <1>5, <1>6, <1>7, <1>8, <1>9, <1>10, <1>11 DEF Step

\* There is an id for the row about to be inserted.
LEMMA InsertId ==
  ASSUME TypeInv, NEW c \in Clients, pc[c] = "insert"
  PROVE  nextId \in Ids
<1>1. c \in Inserting
  BY DEF Inserting
<1>2. Cardinality(Inserting) >= 1
  BY <1>1, SpaceFacts, FS_EmptySet
<1>3. nextId \in 2..(MaxId + 1) /\ MaxId \in Nat
      /\ nextId + Cardinality(Inserting) <= MaxId + 1
      /\ Cardinality(Inserting) \in Nat
  BY SpaceFacts, IdAssumption DEF TypeInv, TypeOK
<1> QED BY <1>2, <1>3 DEF Ids

LEMMA MovedFacts ==
  ASSUME TypeInv, NEW c \in Clients, NEW s, NEW r, Moves(c, s, r)
  PROVE  /\ s = "idle" => r = NoRequest
         /\ s # "idle" =>
              /\ r \in Request /\ r.op = req[c].op /\ r.name = req[c].name
              /\ r.status = req[c].status /\ r.cron = req[c].cron
              /\ r.id = req[c].id \/ (pc[c] = "insert" /\ r.id = nextId)
              /\ pc[c] # "insert" => r = req[c]
         /\ pc'[c] = s /\ req'[c] = r
         /\ \A d \in Clients \ {c} : pc'[d] = pc[d] /\ req'[d] = req[d]
         /\ s \in Path(req[c].op) \cup {"idle"} /\ s \notin {"quartz", "insert"}
         /\ s \in {"idle", "get", "add", "replace", "status", "write",
                   "remove", "reply"}
<1>1. req[c] \in Request /\ req[c].op \in Ops
  BY RequestFacts DEF TypeInv, Moves
<1>2. pc \in [Clients -> {"idle", "quartz", "get", "add", "replace",
                             "status", "write", "remove", "insert", "reply"}]
      /\ req \in [Clients -> Request \cup {NoRequest}]
  BY DEF TypeInv, TypeOK
<1>3. s \in Path(req[c].op) \cup {"idle"} /\ s \notin {"quartz", "insert"}
  BY DEF Moves
<1>4. s \in {"idle", "get", "add", "replace", "status", "write", "remove", "reply"}
  BY <1>1, <1>3 DEF Ops, Path
<1>5. ASSUME s # "idle"
      PROVE  /\ r \in Request /\ r.op = req[c].op /\ r.name = req[c].name
             /\ r.status = req[c].status /\ r.cron = req[c].cron
             /\ r.id = req[c].id \/ (pc[c] = "insert" /\ r.id = nextId)
             /\ pc[c] # "insert" => r = req[c]
  <2>1. CASE r = req[c]
    BY <1>1, <2>1
  <2>2. CASE pc[c] = "insert" /\ r = [req[c] EXCEPT !.id = nextId]
    BY <1>1, <2>2, InsertId DEF Request
  <2> QED BY <1>5, <2>1, <2>2 DEF Moves
<1> QED BY <1>2, <1>3, <1>4, <1>5 DEF Moves

LEMMA TypeStep ==
  ASSUME TypeInv, NEW c \in Clients, Step(c)
  PROVE  TypeInv'
<1>1. PICK s, r : Moves(c, s, r)
  BY StepMoves
<1>2. /\ pc \in [Clients -> {"idle", "quartz", "get", "add", "replace",
                             "status", "write", "remove", "insert", "reply"}]
      /\ req \in [Clients -> Request \cup {NoRequest}]
      /\ \A d \in Clients : pc[d] = "idle" <=> req[d] = NoRequest
      /\ rows \in [Ids -> Row \cup {NoRow}] /\ nextId \in 2..(MaxId + 1)
      /\ sched \in [Names -> Job \cup {NoJob}] /\ interrupt \subseteq Beans
      /\ drift \subseteq Names /\ met \subseteq Clients
      /\ dead \subseteq Limited
      /\ TypeOK /\ PathInv /\ SpaceInv
  BY DEF TypeInv, TypeOK
<1>3. pc[c] # "idle" /\ req[c] \in Request /\ req[c].name \in Names
      /\ req[c].op \in Ops /\ req[c].status \in Status
      /\ req[c].cron \in Crons \cup {NoCron} /\ req[c].idc \in Idcs
  BY <1>1, <1>2, RequestFacts DEF Moves
<1>4. /\ pc' \in [Clients -> {"idle", "quartz", "get", "add", "replace",
                             "status", "write", "remove", "insert", "reply"}]
      /\ req' \in [Clients -> Request \cup {NoRequest}]
      /\ \A d \in Clients : pc'[d] = "idle" <=> req'[d] = NoRequest
  <2>1. /\ s \in {"idle", "get", "add", "replace", "status", "write",
                  "remove", "reply"}
        /\ r \in Request \cup {NoRequest} /\ (s = "idle" <=> r = NoRequest)
    BY <1>1, MovedFacts, NoneAssumption
  <2>2. pc' = [pc EXCEPT ![c] = s] /\ req' = [req EXCEPT ![c] = r]
    BY <1>1 DEF Moves
  <2> QED BY <1>2, <2>1, <2>2
<1>5. PathInv'
  BY <1>1, <1>2, <1>3, MovedFacts DEF PathInv
<1>6. pc[c] \in {"add", "replace", "get", "reply", "status", "quartz", "remove", "insert", "write"}
      /\ (pc[c] \in {"add", "replace", "insert"} => req[c].cron \in Crons)
      /\ (req[c].op = "reschedule" => req[c].cron \in Crons)
  BY <1>2, <1>3, PathFacts DEF PathInv, TypeInv
<1>7. \A n \in Names : Exists(n) => sched[n] \in Job
  BY <1>2 DEF Exists
<1>8. rows' \in [Ids -> Row \cup {NoRow}]
  <2>1. CASE WriteStatus(c)
    <3>1. CASE req[c].id \in RowIds
      <4>1. req[c].id \in Ids /\ rows[req[c].id] \in Row
        BY <1>2, <3>1, RowFacts
      <4>2. \A st \in Status : [rows[req[c].id] EXCEPT !.status = st] \in Row
        BY <4>1 DEF Row
      <4>3. PICK st \in Status : rows' = [rows EXCEPT ![req[c].id].status = st]
        BY <2>1, <3>1 DEF WriteStatus, Status
      <4> QED BY <1>2, <4>1, <4>2, <4>3
    <3> QED BY <1>2, <2>1, <3>1 DEF WriteStatus
  <2>2. CASE WriteRow(c)
    <3>1. CASE req[c].id \in RowIds
      <4>1. req[c].id \in Ids /\ rows[req[c].id] \in Row /\ rows[req[c].id].cron \in Crons
        BY <1>2, <3>1, RowFacts
      <4>2. PICK k \in Crons : rows' = [rows EXCEPT ![req[c].id] =
                     [name |-> req[c].name, status |-> req[c].status,
                      cron |-> k, idc |-> req[c].idc]]
        BY <1>3, <2>2, <3>1, <4>1 DEF WriteRow
      <4>3. [name |-> req[c].name, status |-> req[c].status,
             cron |-> k, idc |-> req[c].idc] \in Row
        BY <1>3 DEF Row
      <4> QED BY <1>2, <4>1, <4>2, <4>3
    <3> QED BY <1>2, <2>2, <3>1 DEF WriteRow
  <2>3. CASE RemoveRow(c)
    BY <1>2, <2>3 DEF RemoveRow
  <2>4. CASE InsertRow(c)
    <3>1. [name |-> req[c].name, status |-> req[c].status,
           cron |-> req[c].cron, idc |-> req[c].idc] \in Row
      BY <1>3, <1>6, <2>4 DEF Row, InsertRow
    <3> QED BY <1>2, <2>4, <3>1 DEF InsertRow
  <2>5. CASE UNCHANGED rows
    BY <1>2, <2>5
  <2> QED BY <2>1, <2>2, <2>3, <2>4, <2>5
          DEF Step, PauseQuartz, ResumeQuartz, DeleteQuartz, GetTrigger,
              RejectCron, AddJob, ReplaceTrigger, Reply
<1>9. sched' \in [Names -> Job \cup {NoJob}]
  <2>1. CASE PauseQuartz(c)
    <3>1. CASE Exists(req[c].name)
      <4>1. [sched[req[c].name] EXCEPT !.paused = TRUE] \in Job
        BY <1>3, <1>7, <3>1 DEF Job
      <4>2. sched' = [sched EXCEPT ![req[c].name].paused = TRUE]
        BY <2>1, <3>1 DEF PauseQuartz
      <4> QED BY <1>2, <1>3, <4>1, <4>2
    <3> QED BY <1>2, <2>1, <3>1 DEF PauseQuartz
  <2>2. CASE ResumeQuartz(c)
    <3>1. CASE req[c].name \in Beans /\ Exists(req[c].name)
      <4>1. [sched[req[c].name] EXCEPT !.paused = FALSE] \in Job
        BY <1>3, <1>7, <3>1 DEF Job
      <4>2. sched' = [sched EXCEPT ![req[c].name].paused = FALSE]
        BY <2>2, <3>1 DEF ResumeQuartz
      <4> QED BY <1>2, <1>3, <4>1, <4>2
    <3> QED BY <1>2, <2>2, <3>1 DEF ResumeQuartz
  <2>3. CASE DeleteQuartz(c)
    BY <1>2, <2>3 DEF DeleteQuartz
  <2>4. CASE AddJob(c)
    <3>1. Running(req[c].cron) \in Job
      BY <1>6, <2>4 DEF AddJob, Job, Running
    <3> QED BY <1>2, <1>3, <2>4, <3>1 DEF AddJob
  <2>5. CASE ReplaceTrigger(c)
    <3>1. CASE Exists(req[c].name) /\ req[c].cron \notin dead
      <4>1. [sched[req[c].name] EXCEPT !.cron = req[c].cron, !.paused = FALSE] \in Job
        BY <1>3, <1>6, <1>7, <2>5, <3>1 DEF Job, ReplaceTrigger
      <4>2. sched' = [sched EXCEPT ![req[c].name].cron = req[c].cron,
                                   ![req[c].name].paused = FALSE]
        BY <2>5, <3>1 DEF ReplaceTrigger
      <4> QED BY <1>2, <1>3, <4>1, <4>2
    <3> QED BY <1>2, <2>5, <3>1 DEF ReplaceTrigger
  <2>6. CASE UNCHANGED sched
    BY <1>2, <2>6
  <2> QED BY <2>1, <2>2, <2>3, <2>4, <2>5, <2>6
          DEF Step, GetTrigger, RejectCron, WriteStatus, WriteRow, RemoveRow,
              InsertRow, Reply
<1>10. interrupt' \subseteq Beans
  BY <1>2 DEF Step, PauseQuartz, ResumeQuartz, DeleteQuartz, GetTrigger,
              RejectCron, AddJob, ReplaceTrigger, WriteStatus, WriteRow,
              RemoveRow, InsertRow, Reply
<1>11. drift' \subseteq Names /\ met' \subseteq Clients
  <2>1. CASE InsertRow(c)
    BY <1>2, <1>3, <2>1, NamesFacts DEF InsertRow, Blame
  <2>2. CASE ~InsertRow(c)
    BY <1>2, <1>3, <2>2
       DEF Step, PauseQuartz, ResumeQuartz, DeleteQuartz, GetTrigger, RejectCron,
           AddJob, ReplaceTrigger, WriteStatus, WriteRow, RemoveRow, Reply, Blame, Heal
  <2> QED BY <2>1, <2>2
<1>12. /\ nextId' \in 2..(MaxId + 1)
       /\ nextId' = nextId \/ (pc[c] = "insert" /\ nextId' = nextId + 1)
  <2>1. CASE InsertRow(c)
    <3>1. nextId \in Ids /\ pc[c] = "insert" /\ nextId' = nextId + 1
      BY <2>1, InsertId DEF InsertRow
    <3> QED BY <1>2, <3>1, IdAssumption DEF Ids
  <2>2. CASE ~InsertRow(c)
    BY <1>2, <2>2
       DEF Step, PauseQuartz, ResumeQuartz, DeleteQuartz, GetTrigger, RejectCron,
           AddJob, ReplaceTrigger, WriteStatus, WriteRow, RemoveRow, Reply
  <2> QED BY <2>1, <2>2
<1>13. TypeOK'
  BY <1>1, <1>2, <1>4, <1>8, <1>9, <1>10, <1>11, <1>12 DEF TypeOK, Moves, Job, Row
<1>14. SpaceInv'
  <2>1. Inserting' = Inserting \ {c}
    BY <1>1, MovedFacts DEF Inserting
  <2>2. IsFiniteSet(Inserting) /\ Cardinality(Inserting) \in Nat
        /\ nextId + Cardinality(Inserting) <= MaxId + 1
    BY <1>2, SpaceFacts
  <2>3. SpaceInv' <=> nextId' + Cardinality(Inserting') <= MaxId + 1
    BY DEF SpaceInv, Inserting
  <2>4. Cardinality(Inserting') \in Nat /\ Cardinality(Inserting') <= Cardinality(Inserting)
        /\ (pc[c] = "insert" => Cardinality(Inserting') + 1 <= Cardinality(Inserting))
    BY <2>1, <2>2, InsertCount DEF Inserting
  <2>5. nextId \in Nat /\ MaxId \in Nat
    BY <1>2, IdAssumption
  <2> QED BY <1>12, <2>2, <2>3, <2>4, <2>5
<1> QED BY <1>5, <1>13, <1>14 DEF TypeInv

LEMMA Least ==
  ASSUME NEW S \in SUBSET Nat, S # {}
  PROVE  \E x \in S : \A y \in S : x <= y
<1> DEFINE R == {p \in Nat \X Nat : p[1] < p[2]}
<1>1. OpToRel(<, Nat) = R
  BY DEF OpToRel
<1>2. IsWellFoundedOn(R, Nat)
  BY <1>1, NatLessThanWellFounded
<1>3. \E x \in S : \A y \in S : <<y, x>> \notin R
  <2> HIDE DEF R
  <2> QED BY <1>2, WFMin
<1>4. ASSUME NEW x \in S, NEW y \in S, <<y, x>> \notin R
      PROVE  x <= y
  <2>1. x \in Nat /\ y \in Nat
    OBVIOUS
  <2>2. ~(y < x)
    BY <1>4, <2>1
  <2> QED BY <2>1, <2>2
<1> HIDE DEF R
<1> QED BY <1>3, <1>4

\* A restart reads the rows it means to: a set of ids has its Min and Max.
LEMMA MinMax ==
  ASSUME NEW S \in SUBSET Ids, S # {}
  PROVE  Min(S) \in S /\ Max(S) \in S
<1>1. MaxId \in Nat /\ S \subseteq 1..MaxId /\ S \in SUBSET Nat
  BY IdAssumption DEF Ids
<1>2. Min(S) \in S
  BY <1>1, Least DEF Min
<1>3. PICK i \in S : \A j \in S : i >= j
  <2> DEFINE T == {k \in 0..MaxId : MaxId - k \in S}
  <2>1. ASSUME NEW j \in S PROVE j \in Nat /\ MaxId - j \in T
    <3>1. j \in 1..MaxId
      BY <1>1
    <3>2. MaxId - j \in 0..MaxId /\ MaxId - (MaxId - j) = j
      BY <1>1, <3>1
    <3> QED BY <3>1, <3>2
  <2>2. T \in SUBSET Nat /\ T # {}
    <3>1. 0..MaxId \in SUBSET Nat
      BY <1>1
    <3>2. T \in SUBSET 0..MaxId
      OBVIOUS
    <3>3. \E j \in S : MaxId - j \in T
      BY <2>1
    <3> HIDE DEF T
    <3> QED BY <3>1, <3>2, <3>3
  <2>3. PICK t \in T : \A u \in T : t <= u
    <3> HIDE DEF T
    <3> QED BY <2>2, Least
  <2>4. t \in 0..MaxId /\ MaxId - t \in S
    OBVIOUS
  <2>5. ASSUME NEW j \in S PROVE MaxId - t >= j
    <3>1. j \in Nat /\ MaxId - j \in T /\ t <= MaxId - j
      BY <2>1, <2>3
    <3> HIDE DEF T
    <3> QED BY <1>1, <2>4, <3>1
  <2> QED BY <2>4, <2>5
<1>4. Max(S) \in S
  BY <1>3 DEF Max
<1> QED BY <1>2, <1>4

LEMMA TypeRestart ==
  ASSUME TypeInv, Restart
  PROVE  TypeInv'
<1>1. /\ TypeOK /\ rows' = rows /\ nextId' = nextId
      /\ pc' = [c \in Clients |-> "idle"]
      /\ req' = [c \in Clients |-> NoRequest]
      /\ restarts' = restarts + 1 /\ restarts < MaxRestarts /\ dead' = dead
      /\ up' \in BOOLEAN /\ interrupt' = {} /\ met' = {}
  BY DEF TypeInv, Restart
<1>2. ASSUME NEW n \in Names PROVE LoadedJob(n) \in Job \cup {NoJob}
  <2>1. CASE n \notin Beans \/ EnabledOf(n) = {}
    BY <2>1 DEF LoadedJob
  <2>2. CASE n \in Beans /\ EnabledOf(n) # {}
    <3>1. EnabledOf(n) \subseteq RowIds /\ EnabledOf(n) \in SUBSET Ids
      BY DEF EnabledOf, Enabled, RowIds
    <3>2. Min(EnabledOf(n)) \in RowIds /\ Max(EnabledOf(n)) \in RowIds
      BY <2>2, <3>1, MinMax
    <3>3. rows[Min(EnabledOf(n))].cron \in Crons
          /\ rows[Max(EnabledOf(n))].cron \in Crons
      BY <1>1, <3>2, RowFacts
    <3> QED BY <2>2, <3>3 DEF LoadedJob, Job
  <2> QED BY <2>1, <2>2
<1>3. sched' \in [Names -> Job \cup {NoJob}]
  BY <1>2 DEF Restart
<1>4. drift' \subseteq Names
  <2>1. \A i \in RowIds : rows[i].name \in Names
    BY <1>1, RowFacts
  <2>2. \A c \in Clients : Touches(c) \subseteq Names
    BY <1>1, NamesFacts
  <2> QED BY <1>1, <2>1, <2>2 DEF Restart, Blame, TypeOK
<1>5. TypeOK'
  <2>1. restarts' \in 0..MaxRestarts
    BY <1>1, IdAssumption DEF TypeOK
  <2> QED BY <1>1, <1>3, <1>4, <2>1 DEF TypeOK, Job, Row
<1>6. PathInv'
  BY <1>1 DEF PathInv
<1>7. SpaceInv'
  <2>1. Inserting' = {}
    BY <1>1 DEF Inserting
  <2>2. SpaceInv' <=> nextId' + Cardinality(Inserting') <= MaxId + 1
    BY DEF SpaceInv, Inserting
  <2> QED BY <1>1, <2>1, <2>2, FS_EmptySet, IdAssumption DEF TypeOK
<1> QED BY <1>5, <1>6, <1>7 DEF TypeInv

\* What time changes: crons die, and jobs of dead crons go.
Ages ==
  /\ UNCHANGED <<rows, nextId, interrupt, pc, req, restarts, up, drift, met>>
  /\ dead \subseteq dead' /\ dead' \subseteq Limited
  /\ sched' \in [Names -> Job \cup {NoJob}]
  /\ \A n \in Names :
       \/ sched'[n] = sched[n]
       \/ sched'[n] = NoJob /\ ~sched[n].paused /\ sched[n].cron \in dead

LEMMA TimeAges ==
  ASSUME TypeInv, TimePasses
  PROVE  Ages
<1>1. sched \in [Names -> Job \cup {NoJob}] /\ dead \subseteq Limited
  BY DEF TypeInv, TypeOK
<1>2. CASE Expire
  BY <1>1, <1>2 DEF Expire, Ages
<1>3. ASSUME NEW n \in Names, LastFiring(n) PROVE Ages
  <2>1. /\ sched' = [sched EXCEPT ![n] = NoJob]
        /\ ~sched[n].paused /\ sched[n].cron \in dead
    BY <1>3 DEF LastFiring
  <2>2. \A m \in Names : sched'[m] = IF m = n THEN NoJob ELSE sched[m]
    BY <1>1, <2>1
  <2>3. sched' \in [Names -> Job \cup {NoJob}]
    BY <1>1, <2>1
  <2> QED BY <1>1, <1>3, <2>1, <2>2, <2>3 DEF LastFiring, Ages
<1> QED BY <1>2, <1>3 DEF TimePasses

LEMMA TypeTime ==
  ASSUME TypeInv, TimePasses
  PROVE  TypeInv'
<1>1. Ages
  BY TimeAges
<1> QED BY <1>1 DEF Ages, TypeInv, TypeOK, PathInv, SpaceInv, Job, Row

LEMMA TypeNext == TypeInv /\ [Next]_vars => TypeInv'
<1> SUFFICES ASSUME TypeInv, [Next]_vars PROVE TypeInv'
  OBVIOUS
<1>1. ASSUME NEW c \in Clients, Receive(c) PROVE TypeInv'
  <2>1. PICK r, step, causes : Opening(c, r, step, causes)
    BY <1>1, Openings
  <2> QED BY <2>1, TypeBegin DEF Opening
<1>2. CASE UNCHANGED vars
  BY <1>2 DEF vars, TypeInv, TypeOK, PathInv, SpaceInv
<1> QED BY <1>1, <1>2, TypeStep, TypeRestart, TypeTime DEF Next

\* Rows, jobs and requests keep the values the code gives them, and there is
\* an id for every row a request is about to insert.
THEOREM TypeCorrect == Safety => []TypeOK
<1>1. Safety => []TypeInv
  BY TypeInit, TypeNext, PTL DEF Safety
<1>2. TypeInv => TypeOK
  BY DEF TypeInv
<1> QED BY <1>1, <1>2, PTL

-----------------------------------------------------------------------------
(* Table and scheduler.                                                    *)

LEMMA SyncInit == Init => SyncInv
<1> SUFFICES ASSUME Init PROVE SyncInv
  OBVIOUS
<1>1. PICK n \in Beans, k \in Crons \ BadCrons :
        rows = [i \in Ids |-> IF i = 1
                  THEN [name |-> n, status |-> "PAUSED", cron |-> k,
                        idc |-> "IDC_DEFAULT"]
                  ELSE NoRow]
  BY DEF Init
<1>2. /\ nextId = 2 /\ up = TRUE /\ drift = {} /\ met = {}
      /\ \A c \in Clients : pc[c] = "idle"
      /\ \A m \in Names : sched[m] = NoJob
  BY DEF Init
<1>3. \A i \in RowIds : i = 1 /\ rows[i].status = "PAUSED" /\ rows[i].name = n
  BY <1>1 DEF RowIds
<1>4. MeetInv /\ OwnInv /\ NamedInv /\ StepInv
  BY <1>2 DEF MeetInv, OwnInv, NamedInv, StepInv
<1>5. RowInv
  BY <1>2, <1>3 DEF RowInv, RowsOf
<1>6. InSync
  BY <1>2, <1>3, NamesAssumption DEF InSync, Agrees, Serves, RowsOf, Exists
<1> QED BY <1>4, <1>5, <1>6 DEF SyncInv

\* A name out of drift has one row: the restart loads it as it stands.
LEMMA SyncRestart ==
  ASSUME TypeInv, SyncInv, Restart
  PROVE  SyncInv'
<1>1. /\ rows' = rows /\ nextId' = nextId /\ met' = {}
      /\ \A c \in Clients : pc'[c] = "idle"
      /\ drift \subseteq drift'
      /\ \A i \in RowIds : rows[i].status = "NORMAL" /\ i \notin Enabled =>
           rows[i].name \in drift'
      /\ dead' = dead
  BY DEF Restart, Blame
<1>2. /\ \A i \in RowIds : i < nextId
      /\ \A n \in Names \ drift : \A i, j \in RowsOf(n) : i = j
  BY DEF SyncInv, RowInv
<1>3. RowIds' = RowIds /\ \A n : RowsOf(n)' = RowsOf(n)
  BY <1>1 DEF RowIds, RowsOf
<1>4. MeetInv' /\ OwnInv' /\ NamedInv' /\ StepInv'
  BY <1>1 DEF MeetInv, OwnInv, NamedInv, StepInv
<1>5. RowInv'
  BY <1>1, <1>2, <1>3 DEF RowInv
<1>6. ASSUME up', NEW n \in Beans \ drift' PROVE Synced(n)'
  <2>1. n \in Names \ drift
    BY <1>1, NamesAssumption
  <2>2. sched'[n] = LoadedJob(n)
    BY <1>6, <2>1 DEF Restart
  <2>3. EnabledOf(n) \in SUBSET Ids /\ EnabledOf(n) \subseteq RowsOf(n)
    BY DEF EnabledOf, Enabled, RowsOf, RowIds
  <2>4. \A i \in RowsOf(n) : i \in RowIds /\ rows[i].name = n
    BY DEF RowsOf
  <2>5. \A i \in RowsOf(n) :
          rows[i].status = "NORMAL" /\ rows[i].cron \notin dead
            => i \in EnabledOf(n)
    BY <1>1, <1>6, <2>4 DEF EnabledOf
  <2>6. ASSUME NEW i \in RowsOf(n) PROVE Agrees(rows[i])'
    <3>1. rows[i].status \in Status /\ rows[i].name = n
      BY <2>4, RowFacts DEF TypeInv
    <3>2. CASE rows[i].status = "NORMAL" /\ rows[i].cron \notin dead
      <4>1. i \in EnabledOf(n)
        BY <2>5, <3>2
      <4>2. Min(EnabledOf(n)) \in EnabledOf(n) /\ Max(EnabledOf(n)) \in EnabledOf(n)
        BY <2>3, <4>1, MinMax
      <4>3. Min(EnabledOf(n)) = i /\ Max(EnabledOf(n)) = i
        BY <1>2, <2>1, <2>3, <4>2
      <4>4. EnabledOf(n) # {}
        BY <4>1
      <4>5. sched'[n] = Running(rows[i].cron)
        BY <1>6, <2>2, <4>3, <4>4 DEF LoadedJob, Running
      <4> QED BY <1>1, <3>1, <3>2, <4>5 DEF Agrees, Serves
    <3>4. CASE rows[i].status = "NORMAL" /\ rows[i].cron \in dead
      <4>1. \A j \in EnabledOf(n) : rows[j].cron \notin dead /\ j = i
        BY <1>2, <2>1, <2>3 DEF EnabledOf
      <4>2. sched'[n] = NoJob
        BY <2>2, <3>4, <4>1 DEF LoadedJob
      <4> QED BY <1>1, <3>1, <3>4, <4>2 DEF Agrees, Serves, Exists
    <3>3. CASE rows[i].status # "NORMAL"
      <4>1. EnabledOf(n) = {}
        <5>1. \A j \in EnabledOf(n) : rows[j].status = "NORMAL" /\ j = i
          BY <1>2, <2>1, <2>3 DEF EnabledOf, Enabled
        <5> QED BY <3>3, <5>1
      <4> QED BY <1>1, <2>2, <3>1, <3>3, <4>1 DEF LoadedJob, Agrees, Serves, Status
    <3> QED BY <3>2, <3>3, <3>4
  <2>7. RowsOf(n) = {} => sched'[n] = NoJob
    BY <2>2, <2>3 DEF LoadedJob
  <2>8. \A i \in RowsOf(n)' : Agrees(rows[i])'
    BY <1>3, <2>6
  <2> QED BY <1>1, <1>3, <2>7, <2>8 DEF Synced, Exists
<1>7. InSync'
  BY <1>6 DEF InSync, Synced
<1> QED BY <1>4, <1>5, <1>7 DEF SyncInv

\* Requests that have not met work on different names and rows.
LEMMA Apart ==
  ASSUME MeetInv, NEW c \in Clients, NEW d \in Clients \ {c},
         pc[c] # "idle", pc[d] # "idle", c \notin met
  PROVE  /\ Touches(c) \cap Touches(d) = {}
         /\ ~SameRow(req[c], req[d]) /\ ~SameRow(req[d], req[c])
BY DEF MeetInv, SameRow

\* A name out of drift is that of a request that has met no other.
LEMMA Alone ==
  ASSUME MeetInv, NEW c \in Clients, NEW n, n \in Touches(c), n \notin drift
  PROVE  c \notin met /\ pc[c] # "idle"
BY DEF MeetInv, Touches

LEMMA SyncBegin ==
  ASSUME TypeInv, SyncInv, NEW c \in Clients, NEW r, NEW step, NEW causes,
         Opening(c, r, step, causes)
  PROVE  SyncInv'
<1> DEFINE ds == Meets(c, r)
<1>1. /\ up /\ pc[c] = "idle"
      /\ pc' = [pc EXCEPT ![c] = step] /\ req' = [req EXCEPT ![c] = r]
      /\ met' = IF ds = {} THEN met \ {c} ELSE met \cup {c} \cup ds
      /\ drift' = drift \cup (causes \cup (IF ds = {} THEN {} ELSE NamesOf(r))
                              \cup UNION {Touches(d) : d \in ds})
      /\ rows' = rows /\ nextId' = nextId /\ sched' = sched /\ up' = up
      /\ dead' = dead
  BY DEF Opening, Begin, Blame
<1>2. /\ pc'[c] = step /\ req'[c] = r /\ step # "idle"
      /\ \A d \in Clients \ {c} : pc'[d] = pc[d] /\ req'[d] = req[d]
  BY <1>1 DEF TypeInv, TypeOK, Opening, Opens
<1>3. /\ RowIds' = RowIds /\ \A n : RowsOf(n)' = RowsOf(n)
      /\ \A n : Exists(n)' <=> Exists(n)
      /\ \A n : Synced(n)' <=> Synced(n)
  BY <1>1 DEF RowIds, RowsOf, Exists, Synced, Agrees, Serves
<1>4. /\ Touches(c) = {} /\ Touches(c)' = NamesOf(r)
      /\ \A d \in Clients \ {c} : Touches(d)' = Touches(d)
  BY <1>1, <1>2, <1>3 DEF Touches, NamesOf
<1>5. /\ drift \subseteq drift' /\ causes \subseteq drift'
      /\ ds # {} => NamesOf(r) \subseteq drift'
      /\ \A d \in ds : Touches(d) \subseteq drift'
      /\ c \in met' => ds # {}
      /\ \A d \in Clients \ {c} : d \in met' <=> d \in met \/ d \in ds
      /\ c \notin ds /\ r.name \in NamesOf(r)
  BY <1>1 DEF Meets, NamesOf
<1>6. \A d \in Clients \ {c} :
        pc[d] # "idle" /\ (Touches(d) \cap NamesOf(r) # {} \/ SameRow(req[d], r))
          => d \in ds
  BY DEF Meets
<1> HIDE DEF ds
<1>7. ASSUME NEW a \in Clients \ {c} PROVE pc'[a] = pc[a] /\ req'[a] = req[a]
  BY <1>2
<1>8. MeetInv'
  <2>1. ASSUME NEW a \in Clients, NEW b \in Clients, a # b,
               pc'[a] # "idle", pc'[b] # "idle",
               (Touches(a) \cap Touches(b))' # {} \/ SameRow(req'[a], req'[b])
        PROVE  a \in met'
    <3>1. CASE a # c /\ b # c
      BY <1>2, <1>4, <1>5, <2>1, <3>1 DEF SyncInv, MeetInv
    <3>2. CASE a = c
      <4>1. Touches(b) \cap NamesOf(r) # {} \/ SameRow(req[b], r)
        BY <1>2, <1>4, <2>1, <3>2 DEF SameRow
      <4> QED BY <1>1, <1>2, <1>6, <2>1, <3>2, <4>1
    <3>3. CASE b = c
      <4>1. Touches(a) \cap NamesOf(r) # {} \/ SameRow(req[a], r)
        BY <1>2, <1>4, <2>1, <3>3
      <4> QED BY <1>2, <1>5, <1>6, <2>1, <3>3, <4>1
    <3> QED BY <3>1, <3>2, <3>3
  <2>2. ASSUME NEW a \in met' PROVE Touches(a)' \subseteq drift'
    <3>1. a \in Clients
      BY <1>1 DEF TypeInv, TypeOK, Meets, ds
    <3>2. CASE a = c
      BY <1>4, <1>5, <2>2, <3>2
    <3>3. CASE a # c
      BY <1>4, <1>5, <2>2, <3>1, <3>3 DEF SyncInv, MeetInv
    <3> QED BY <3>2, <3>3
  <2> QED BY <2>1, <2>2 DEF MeetInv
<1>9. RowInv'
  BY <1>1, <1>3, <1>5 DEF SyncInv, RowInv
<1>10. OwnInv'
  <2>1. ASSUME NEW a \in Clients \ {c}, a \notin met', pc'[a] # "idle"
        PROVE  Own(a)'
    <3>1. Own(a)
      BY <1>2, <1>5, <2>1 DEF SyncInv, OwnInv
    <3> QED BY <1>1, <1>2, <1>3, <3>1 DEF Own, Serves
  <2>2. Own(c)'
    <3>1. r.op \in Loads =>
            /\ r.id \in RowsOf(r.name)
            /\ rows[r.id].status = r.status
            /\ r.op # "reschedule" => rows[r.id].cron = r.cron
      BY DEF Opening, RowsOf
    <3>2. /\ r.op \in {"resume", "reschedule", "delete"} => step = "quartz"
          /\ r.op = "create" => step = "insert"
      BY DEF Opening
    <3> QED BY <1>1, <1>2, <1>3, <3>1, <3>2 DEF Own, Serves
  <2> QED BY <2>1, <2>2 DEF OwnInv
<1>11. NamedInv'
  <2>1. ASSUME NEW a \in Clients \ {c}, pc'[a] # "idle", req'[a].id \in RowIds'
        PROVE  rows'[req'[a].id].name \in drift' \cup {req'[a].name}
    BY <1>1, <1>2, <1>3, <1>5, <2>1 DEF SyncInv, NamedInv
  <2>2. ASSUME r.id \in RowIds
        PROVE  rows[r.id].name \in drift' \cup {r.name}
    <3>1. CASE r.op \in Loads
      BY <3>1 DEF Opening
    <3>2. CASE r.op = "create"
      <4>1. r.id = NoId
        BY <3>2 DEF Opening
      <4> QED BY <2>2, <4>1 DEF RowIds, Ids, NoId
    <3>3. CASE r.op = "update"
      BY <1>5, <3>3 DEF Opening
    <3>4. CASE r.op = "delete"
      <4>1. rows[r.id].name \in NamesOf(r)
        BY <2>2 DEF NamesOf
      <4> QED BY <1>5, <3>4, <4>1 DEF Opening
    <3>5. r.op \in Ops
      BY DEF Opening, Opens, Request
    <3> QED BY <3>1, <3>2, <3>3, <3>4, <3>5 DEF Ops, Loads
  <2> QED BY <1>1, <1>2, <1>3, <2>1, <2>2 DEF NamedInv
<1>12. StepInv'
  <2>1. ASSUME NEW a \in Clients \ {c}, pc'[a] # "idle", req'[a].name \notin drift'
        PROVE  Known(a)'
    <3>1. Known(a)
      BY <1>2, <1>5, <2>1 DEF SyncInv, StepInv
    <3> QED BY <1>1, <1>2, <1>3, <3>1 DEF Known, Serves
  <2>2. ASSUME r.name \notin drift'
        PROVE  Known(c)'
    <3>1. ds = {} /\ r.name \notin drift /\ r.name \notin causes
      BY <1>5, <2>2
    <3>2. \A d \in Clients : r.name \notin Touches(d)
      <4>1. ASSUME NEW d \in Clients \ {c}, r.name \in Touches(d) PROVE FALSE
        BY <1>5, <1>6, <3>1, <4>1 DEF Touches
      <4> QED BY <1>4, <4>1
    <3>3. r.name \in Beans => Synced(r.name)
      BY <1>1, <3>1, <3>2 DEF SyncInv, InSync, Synced
    <3>4. /\ r.op # "update"
          /\ r.op = "delete" => r.id \in RowsOf(r.name)
          /\ r.op = "reschedule" => r.status = "NORMAL"
          /\ r.op = "schedule" => step = "reply" \/ r.status = "NORMAL"
          /\ r.op \in {"pause", "resume"} => step = "quartz"
          /\ r.op = "create" => step = "insert"
      BY <1>5, <3>1 DEF Opening, RowsOf
    <3> QED BY <1>1, <1>2, <1>3, <3>3, <3>4 DEF Known, Serves
  <2> QED BY <1>2, <2>1, <2>2 DEF StepInv
<1>13. InSync'
  <2>1. ASSUME NEW n \in Beans \ drift', \A d \in Clients : n \notin Touches(d)'
        PROVE  Synced(n)'
    <3>1. \A d \in Clients : n \notin Touches(d)
      BY <1>4, <2>1
    <3>2. Synced(n)
      BY <1>1, <1>5, <2>1, <3>1 DEF SyncInv, InSync, Synced
    <3> QED BY <1>3, <3>2
  <2> QED BY <2>1 DEF InSync, Synced
<1> QED BY <1>8, <1>9, <1>10, <1>11, <1>12, <1>13 DEF SyncInv

\* What a step of c may change: of the table the row it works on or the one
\* it inserts, of the scheduler the job of its name; and it takes its own name
\* out of drift only when it ends alone.
Reaches(c) ==
  /\ RowIds' \subseteq RowIds \cup (IF InsertRow(c) THEN {nextId} ELSE {})
  /\ \A i \in Ids : i # req[c].id /\ ~(InsertRow(c) /\ i = nextId) =>
       rows'[i] = rows[i]
  /\ \A i \in RowIds' :
       \/ rows'[i].name = req[c].name
       \/ i \in RowIds /\ rows'[i].name = rows[i].name
  /\ \A i \in RowIds \ RowIds' : i = req[c].id
  /\ pc'[c] # "idle" /\ ~InsertRow(c) => rows' = rows
  /\ \A n \in Names \ {req[c].name} : sched'[n] = sched[n]
  /\ met \subseteq met' /\ (InsertRow(c) \/ met' = met)
  /\ \/ drift \subseteq drift'
     \/ pc'[c] = "idle" /\ c \notin met /\ drift' = drift \ {req[c].name}
  /\ nextId' = nextId \/ InsertRow(c)
  /\ dead' = dead

\* An insertion meets the requests that name the new row.
Inserts(c) ==
  /\ nextId \in Ids \ RowIds /\ pc[c] = "insert" /\ nextId' = nextId + 1
  /\ rows' = [rows EXCEPT ![nextId] =
                [name |-> req[c].name, status |-> req[c].status,
                 cron |-> req[c].cron, idc |-> req[c].idc]]
  /\ RowIds' = RowIds \cup {nextId} /\ rows'[nextId].name = req[c].name
  /\ drift \subseteq drift' /\ (RowsOf(req[c].name) = {} \/ req[c].name \in drift')
  /\ \A d \in Clients \ {c} : pc[d] # "idle" /\ req[d].id = nextId =>
       {c, d} \subseteq met' /\ Touches(d) \cup {req[c].name} \subseteq drift'
  /\ \A d \in met' \ met :
       \E e \in Clients \ {c} :
         pc[e] # "idle" /\ req[e].id = nextId /\ d \in {c, e}

LEMMA Insertion ==
  ASSUME TypeInv, RowInv, NEW c \in Clients, InsertRow(c)
  PROVE  Inserts(c)
<1> DEFINE ds == {d \in Clients \ {c} : pc[d] # "idle" /\ req[d].id = nextId}
           row == [name |-> req[c].name, status |-> req[c].status,
                   cron |-> req[c].cron, idc |-> req[c].idc]
<1>1. /\ pc[c] = "insert" /\ nextId' = nextId + 1
      /\ rows' = [rows EXCEPT ![nextId] = row]
      /\ met' = IF ds = {} THEN met ELSE met \cup {c} \cup ds
      /\ drift' = drift \cup ((IF RowsOf(req[c].name) = {} /\ ds = {} THEN {}
                               ELSE {req[c].name}) \cup UNION {Touches(d) : d \in ds})
  BY DEF InsertRow, Blame
<1>2. nextId \in Ids /\ rows \in [Ids -> Row \cup {NoRow}]
  BY <1>1, InsertId DEF TypeInv, TypeOK
<1>3. nextId \notin RowIds
  <2>1. nextId \in Nat /\ ~(nextId < nextId)
    BY <1>2, IdAssumption DEF Ids
  <2> QED BY <2>1 DEF RowInv
<1>4. row \in Row
  <2>1. /\ req[c] \in Request /\ req[c].op = "create" /\ req[c].op \in Ops
        /\ req[c].cron # NoCron
    BY <1>1, RequestFacts, PathFacts DEF TypeInv, PathInv
  <2> QED BY <2>1 DEF Request, Row
<1>5. rows'[nextId] = row /\ row # NoRow /\ \A i \in Ids \ {nextId} : rows'[i] = rows[i]
  BY <1>1, <1>2, <1>4, NoneAssumption
<1>6. RowIds' = RowIds \cup {nextId} /\ rows'[nextId].name = req[c].name
  BY <1>2, <1>5 DEF RowIds
<1>7. ASSUME NEW d \in ds
      PROVE  {c, d} \subseteq met' /\ Touches(d) \cup {req[c].name} \subseteq drift'
  BY <1>1
<1>8. \A d \in met' \ met :
         \E e \in Clients \ {c} :
           pc[e] # "idle" /\ req[e].id = nextId /\ d \in {c, e}
  BY <1>1
<1>9. drift \subseteq drift' /\ (RowsOf(req[c].name) = {} \/ req[c].name \in drift')
  BY <1>1
<1> QED BY <1>1, <1>2, <1>3, <1>6, <1>7, <1>8, <1>9 DEF Inserts

LEMMA StepReaches ==
  ASSUME TypeInv, RowInv, NEW c \in Clients, Step(c)
  PROVE  Reaches(c)
<1>1. /\ rows \in [Ids -> Row \cup {NoRow}]
      /\ sched \in [Names -> Job \cup {NoJob}]
      /\ pc \in [Clients -> {"idle", "quartz", "get", "add", "replace",
                             "status", "write", "remove", "insert", "reply"}]
      /\ pc[c] # "idle" /\ req[c].name \in Names /\ RowIds \subseteq Ids
      /\ dead' = dead
  <2>1. pc[c] # "idle"
    BY StepMoves DEF Moves
  <2>2. dead' = dead
    BY StepMoves DEF Moves
  <2> QED BY <2>1, <2>2, RequestFacts DEF TypeInv, TypeOK, RowIds
<1>2. CASE InsertRow(c)
  <2>1. Inserts(c)
    BY <1>2, Insertion
  <2>2. sched' = sched /\ pc' \in {[pc EXCEPT ![c] = "get"], [pc EXCEPT ![c] = "idle"]}
    BY <1>2 DEF InsertRow, GoTo, Done
  <2>3. met \subseteq met'
    BY <1>2 DEF InsertRow
  <2>4. \A i \in Ids \ {nextId} : rows'[i] = rows[i]
    BY <1>1, <2>1 DEF Inserts
  <2> QED BY <1>1, <1>2, <2>1, <2>2, <2>3, <2>4 DEF Reaches, Inserts, RowIds
<1>3. CASE WriteStatus(c)
  <2>1. met' = met /\ drift' = drift /\ sched' = sched /\ nextId' = nextId
        /\ pc'[c] = "idle"
    BY <1>1, <1>3 DEF WriteStatus, Done, GoTo
  <2>2. /\ \A i \in Ids \ {req[c].id} : rows'[i] = rows[i]
        /\ \A i \in RowIds : rows'[i].name = rows[i].name
        /\ RowIds' = RowIds
    <3>1. CASE req[c].id \in RowIds
      <4>1. req[c].id \in Ids /\ rows[req[c].id] \in Row
        BY <3>1, RowFacts DEF TypeInv
      <4>2. PICK st \in Status : rows' = [rows EXCEPT ![req[c].id].status = st]
        BY <1>3, <3>1 DEF WriteStatus, Status
      <4>3. rows'[req[c].id] = [rows[req[c].id] EXCEPT !.status = st]
            /\ \A i \in Ids \ {req[c].id} : rows'[i] = rows[i]
        BY <1>1, <4>1, <4>2
      <4>4. /\ [rows[req[c].id] EXCEPT !.status = st] \in Row
            /\ [rows[req[c].id] EXCEPT !.status = st].name = rows[req[c].id].name
        BY <4>1 DEF Row
      <4> QED BY <3>1, <4>1, <4>3, <4>4, NoneAssumption DEF RowIds
    <3> QED BY <1>3, <3>1 DEF WriteStatus, RowIds
  <2> QED BY <1>1, <2>1, <2>2 DEF Reaches
<1>4. CASE WriteRow(c)
  <2>1. /\ met' = met /\ sched' = sched /\ nextId' = nextId /\ pc'[c] = "idle"
        /\ \/ drift \subseteq drift'
           \/ c \notin met /\ drift' = drift \ {req[c].name}
    BY <1>1, <1>4 DEF WriteRow, Done, GoTo, Heal
  <2>2. /\ \A i \in Ids \ {req[c].id} : rows'[i] = rows[i]
        /\ req[c].id \in RowIds' => rows'[req[c].id].name = req[c].name
        /\ RowIds' = RowIds
    <3>1. CASE req[c].id \in RowIds
      <4>1. PICK k : rows' = [rows EXCEPT ![req[c].id] =
                [name |-> req[c].name, status |-> req[c].status,
                 cron |-> k, idc |-> req[c].idc]]
        BY <1>4, <3>1 DEF WriteRow
      <4>2. rows' \in [Ids -> Row \cup {NoRow}]
        BY TypeStep DEF TypeInv, TypeOK
      <4>3. req[c].id \in Ids
        BY <3>1 DEF RowIds
      <4>4. /\ rows'[req[c].id] = [name |-> req[c].name, status |-> req[c].status,
                                   cron |-> k, idc |-> req[c].idc]
            /\ \A i \in Ids \ {req[c].id} : rows'[i] = rows[i]
        BY <1>1, <4>1, <4>3
      <4>5. rows'[req[c].id] # NoRow
        <5>1. req[c] \in Request /\ k \in Crons
          <6>1. k = IF req[c].cron = NoCron THEN rows[req[c].id].cron ELSE req[c].cron
            <7>1. rows' = [rows EXCEPT ![req[c].id] =
                     [name |-> req[c].name, status |-> req[c].status,
                      cron |-> IF req[c].cron = NoCron THEN @.cron
                               ELSE req[c].cron,
                      idc |-> req[c].idc]]
              BY <1>4, <3>1 DEF WriteRow
            <7>2. rows'[req[c].id].cron =
                    IF req[c].cron = NoCron THEN rows[req[c].id].cron ELSE req[c].cron
              BY <1>1, <4>3, <7>1
            <7> QED BY <4>4, <7>2
          <6>2. rows[req[c].id].cron \in Crons
            BY <3>1, RowFacts DEF TypeInv
          <6> QED BY <1>1, <6>1, <6>2, RequestFacts DEF TypeInv
        <5>2. [name |-> req[c].name, status |-> req[c].status,
               cron |-> k, idc |-> req[c].idc] \in Row
          BY <5>1 DEF Request, Row
        <5> QED BY <4>4, <5>2, NoneAssumption
      <4> QED BY <3>1, <4>3, <4>4, <4>5 DEF RowIds
    <3> QED BY <1>4, <3>1 DEF WriteRow, RowIds
  <2> QED BY <1>1, <2>1, <2>2 DEF Reaches
<1>5. CASE RemoveRow(c)
  <2>1. /\ met' = met /\ sched' = sched /\ nextId' = nextId /\ pc'[c] = "idle"
        /\ \/ drift \subseteq drift'
           \/ c \notin met /\ drift' = drift \ {req[c].name}
    BY <1>1, <1>5 DEF RemoveRow, Done, GoTo, Heal
  <2>2. \A i \in Ids : rows'[i] = IF i = req[c].id THEN NoRow ELSE rows[i]
    BY <1>1, <1>5 DEF RemoveRow
  <2>3. RowIds' = RowIds \ {req[c].id}
    BY <2>2 DEF RowIds
  <2> QED BY <1>1, <2>1, <2>2, <2>3 DEF Reaches, RowIds
<1>6. CASE UNCHANGED <<rows, nextId, met>> /\ drift \subseteq drift'
  <2>1. \A n \in Names \ {req[c].name} : sched'[n] = sched[n]
    BY <1>1, <1>6
       DEF Step, PauseQuartz, ResumeQuartz, DeleteQuartz, GetTrigger, RejectCron,
           AddJob, ReplaceTrigger, WriteStatus, WriteRow, RemoveRow, InsertRow, Reply
  <2>2. RowIds' = RowIds
    BY <1>6 DEF RowIds
  <2> QED BY <1>1, <1>6, <2>1, <2>2 DEF Reaches
<1>7. ASSUME ~InsertRow(c), ~WriteStatus(c), ~WriteRow(c), ~RemoveRow(c)
      PROVE  UNCHANGED <<rows, nextId, met>> /\ drift \subseteq drift'
  BY <1>7 DEF Step, PauseQuartz, ResumeQuartz, DeleteQuartz, GetTrigger,
              RejectCron, AddJob, ReplaceTrigger, Reply, Blame
<1> QED BY <1>2, <1>3, <1>4, <1>5, <1>6, <1>7

\* How a step changes what the requests touch.
LEMMA StepTouches ==
  ASSUME TypeInv, RowInv, NEW c \in Clients, Step(c)
  PROVE  /\ pc[c] # "idle"
         /\ \A d \in Clients \ {c} : pc'[d] = pc[d] /\ req'[d] = req[d]
         /\ pc'[c] # "idle" => req'[c].name = req[c].name /\ req'[c].op = req[c].op
                               /\ req'[c].status = req[c].status
                               /\ req'[c].cron = req[c].cron
         /\ pc'[c] # "idle" /\ ~InsertRow(c) => req'[c] = req[c]
         /\ pc'[c] # "idle" /\ InsertRow(c) => req'[c].id = nextId
         /\ Touches(c)' \subseteq Touches(c)
         /\ InsertRow(c) => Touches(c)' \subseteq {req[c].name}
         /\ \A d \in Clients \ {c} : pc[d] # "idle" =>
              /\ Touches(d)' \subseteq Touches(d) \cup {req[c].name}
              /\ ~SameRow(req[d], req[c]) /\ ~(InsertRow(c) /\ req[d].id = nextId)
                   => Touches(d)' = Touches(d)
<1> DEFINE n0 == req[c].name
<1>1. PICK s, r : Moves(c, s, r)
  BY StepMoves
<1>2. pc[c] # "idle" /\ pc'[c] = s /\ req'[c] = r
      /\ \A d \in Clients \ {c} : pc'[d] = pc[d] /\ req'[d] = req[d]
  BY <1>1, MovedFacts DEF Moves
<1>3. /\ s # "idle" => r.name = n0 /\ r.op = req[c].op /\ r.status = req[c].status
                       /\ r.cron = req[c].cron
      /\ s # "idle" /\ pc[c] # "insert" => r = req[c]
  BY <1>1, MovedFacts
<1>4. Reaches(c)
  BY StepReaches
<1>5. InsertRow(c) => Inserts(c)
  BY Insertion
<1>6. s # "idle" /\ InsertRow(c) => r.id = nextId
  <2>1. ASSUME s # "idle", InsertRow(c) PROVE r.id = nextId
    <3>1. req' = [req EXCEPT ![c].id = nextId] \/ req' = [req EXCEPT ![c] = NoRequest]
      BY <2>1 DEF InsertRow, Done
    <3>2. r \in Request /\ req[c] \in Request
      BY <1>1, <1>2, <2>1, MovedFacts, RequestFacts DEF TypeInv
    <3>3. req \in [Clients -> Request \cup {NoRequest}]
      BY DEF TypeInv, TypeOK
    <3>4. req'[c] = [req[c] EXCEPT !.id = nextId]
      BY <1>2, <3>1, <3>2, <3>3, NoneAssumption
    <3> QED BY <1>2, <3>2, <3>4 DEF Request
  <2> QED BY <2>1
<1>7. pc[c] = "insert" => InsertRow(c)
  BY DEF Step, PauseQuartz, ResumeQuartz, DeleteQuartz, GetTrigger, RejectCron,
         AddJob, ReplaceTrigger, WriteStatus, WriteRow, RemoveRow, Reply
<1>8. InsertRow(c) => Touches(c)' \subseteq {n0}
  <2>1. ASSUME InsertRow(c), s # "idle" PROVE NamesOf(r)' \subseteq {n0}
    BY <1>3, <1>5, <1>6, <2>1 DEF NamesOf, Inserts
  <2> QED BY <1>2, <2>1 DEF Touches, NamesOf
<1>9. Touches(c)' \subseteq Touches(c)
  <2>1. CASE s = "idle"
    BY <1>2, <2>1 DEF Touches
  <2>2. CASE s # "idle" /\ InsertRow(c)
    BY <1>2, <1>8, <2>2 DEF Touches, NamesOf
  <2>3. CASE s # "idle" /\ ~InsertRow(c)
    <3>1. rows' = rows /\ r = req[c]
      BY <1>2, <1>3, <1>4, <1>7, <2>3 DEF Reaches
    <3> QED BY <1>2, <2>3, <3>1 DEF Touches, NamesOf, RowIds
  <2> QED BY <2>1, <2>2, <2>3
<1>10. ASSUME NEW d \in Clients \ {c}, pc[d] # "idle"
       PROVE  /\ Touches(d)' \subseteq Touches(d) \cup {n0}
              /\ ~SameRow(req[d], req[c]) /\ ~(InsertRow(c) /\ req[d].id = nextId)
                   => Touches(d)' = Touches(d)
  <2>1. /\ Touches(d) = {req[d].name} \cup {rows[i].name : i \in {req[d].id} \cap RowIds}
        /\ Touches(d)' = {req[d].name} \cup {rows'[i].name : i \in {req[d].id} \cap RowIds'}
    BY <1>2, <1>10 DEF Touches, NamesOf
  <2>2. Touches(d)' \subseteq Touches(d) \cup {n0}
    BY <1>4, <2>1 DEF Reaches
  <2>3. ASSUME ~SameRow(req[d], req[c]), ~(InsertRow(c) /\ req[d].id = nextId)
        PROVE  Touches(d)' = Touches(d)
    <3>1. CASE req[d].id \notin Ids
      BY <2>1, <3>1 DEF RowIds
    <3>2. CASE req[d].id \in Ids
      <4>1. req[d].id # req[c].id
        BY <2>3, <3>2 DEF SameRow, Ids, NoId
      <4>2. rows'[req[d].id] = rows[req[d].id]
        BY <1>4, <2>3, <3>2, <4>1 DEF Reaches
      <4> QED BY <2>1, <4>2 DEF RowIds
    <3> QED BY <3>1, <3>2
  <2> QED BY <2>2, <2>3
<1> QED BY <1>2, <1>3, <1>6, <1>7, <1>8, <1>9, <1>10

\* A step leaves alone the rows and the job of a name its request does not
\* touch.
LEMMA NameKept ==
  ASSUME TypeInv, RowInv, NEW c \in Clients, Step(c), NEW n \in Names,
         n \notin Touches(c)
  PROVE  /\ RowsOf(n)' = RowsOf(n)
         /\ \A i \in RowsOf(n) : rows'[i] = rows[i]
         /\ sched'[n] = sched[n] /\ (Exists(n)' <=> Exists(n))
         /\ Synced(n)' <=> Synced(n)
<1>1. Reaches(c) /\ (InsertRow(c) => Inserts(c)) /\ pc[c] # "idle"
  BY StepReaches, Insertion, StepTouches
<1>2. n # req[c].name /\ \A i \in RowsOf(n) : i # req[c].id
  BY <1>1 DEF Touches, NamesOf, RowsOf
<1>3. \A i \in RowsOf(n) : i \in Ids /\ i \in RowIds /\ rows[i].name = n /\ rows'[i] = rows[i]
  <2>1. \A i \in RowsOf(n) : i \in Ids /\ i \in RowIds /\ rows[i].name = n
    BY DEF RowsOf, RowIds
  <2> QED BY <1>1, <1>2, <2>1 DEF Reaches, Inserts
<1>4. RowsOf(n)' = RowsOf(n)
  <2>1. \A i \in RowsOf(n) : i \in RowsOf(n)'
    BY <1>3 DEF RowsOf, RowIds
  <2>2. ASSUME NEW i \in RowsOf(n)' PROVE i \in RowsOf(n)
    <3>1. i \in RowIds' /\ rows'[i].name = n
      BY DEF RowsOf
    <3> QED BY <1>1, <1>2, <3>1 DEF Reaches, RowsOf
  <2> QED BY <2>1, <2>2
<1>5. sched'[n] = sched[n]
  BY <1>1, <1>2 DEF Reaches
<1>6. Exists(n)' <=> Exists(n)
  BY <1>5 DEF Exists
<1>7. \A i \in RowsOf(n) : Agrees(rows[i])' <=> Agrees(rows[i])
  <2>1. dead' = dead
    BY <1>1 DEF Reaches
  <2> QED BY <1>3, <1>5, <2>1 DEF Agrees, Serves, Exists
<1> QED BY <1>3, <1>4, <1>5, <1>6, <1>7 DEF Synced

\* A request that has not met the one that steps keeps its names, its row and
\* its distance.
LEMMA Strangers ==
  ASSUME TypeInv, RowInv, MeetInv, NEW c \in Clients, Step(c),
         NEW a \in Clients \ {c}, pc[a] # "idle", a \notin met'
  PROVE  /\ a \notin met /\ Touches(a)' = Touches(a)
         /\ Touches(a) \cap Touches(c) = {}
         /\ req[a].name \notin Touches(c)
         /\ ~SameRow(req[a], req[c])
         /\ InsertRow(c) => req[a].id # nextId
<1>1. Reaches(c) /\ (InsertRow(c) => Inserts(c)) /\ pc[c] # "idle"
  BY StepReaches, Insertion, StepTouches
<1>2. a \notin met
  BY <1>1 DEF Reaches
<1>3. Touches(a) \cap Touches(c) = {} /\ ~SameRow(req[a], req[c])
  BY <1>1, <1>2, Apart
<1>4. InsertRow(c) => req[a].id # nextId
  BY <1>1 DEF Inserts
<1>5. Touches(a)' = Touches(a)
  BY <1>3, <1>4, StepTouches
<1>6. req[a].name \in Touches(a)
  BY DEF Touches, NamesOf
<1> QED BY <1>2, <1>3, <1>4, <1>5, <1>6

\* A step heals a name only when no other request touches it.
LEMMA StaysInDrift ==
  ASSUME TypeInv, RowInv, MeetInv, NEW c \in Clients, Step(c),
         NEW a \in Clients \ {c}, pc[a] # "idle"
  PROVE  /\ Touches(a) \cap drift \subseteq drift'
         /\ a \in met' => Touches(a)' \subseteq drift'
         /\ a \in met' => Touches(a) \subseteq drift'
<1>1. Reaches(c) /\ (InsertRow(c) => Inserts(c)) /\ pc[c] # "idle"
  BY StepReaches, Insertion, StepTouches
<1>2. Touches(a) \cap drift \subseteq drift'
  <2>1. CASE drift \subseteq drift'
    BY <2>1
  <2>2. CASE c \notin met /\ drift' = drift \ {req[c].name}
    <3>1. req[c].name \notin Touches(a)
      BY <1>1, <2>2, Apart DEF Touches, NamesOf
    <3> QED BY <2>2, <3>1
  <2> QED BY <1>1, <2>1, <2>2 DEF Reaches
<1>3. ASSUME a \in met
      PROVE  Touches(a)' \subseteq drift' /\ Touches(a) \subseteq drift'
  <2>1. Touches(a) \subseteq drift'
    BY <1>2, <1>3 DEF MeetInv
  <2>2. CASE Touches(a)' = Touches(a)
    BY <2>1, <2>2
  <2>3. CASE InsertRow(c) /\ req[a].id = nextId
    <3>1. Touches(a)' \subseteq Touches(a) \cup {req[c].name}
          /\ req[c].name \in drift'
      BY <1>1, <2>3, StepTouches DEF Inserts
    <3> QED BY <2>1, <3>1
  <2>4. CASE SameRow(req[a], req[c]) /\ ~InsertRow(c)
    <3>1. c \in met
      BY <1>1, <2>4, Apart
    <3>2. req[c].name \in drift
      BY <1>1, <3>1 DEF MeetInv, Touches, NamesOf
    <3>3. drift \subseteq drift'
      BY <1>1, <3>1 DEF Reaches
    <3>4. Touches(a)' \subseteq Touches(a) \cup {req[c].name}
      BY StepTouches
    <3> QED BY <2>1, <3>2, <3>3, <3>4
  <2>5. CASE SameRow(req[a], req[c]) /\ InsertRow(c)
    <3>1. c \in met
      BY <1>1, <2>5, Apart
    <3>2. req[c].name \in drift
      BY <1>1, <3>1 DEF MeetInv, Touches, NamesOf
    <3>3. Touches(a)' \subseteq Touches(a) \cup {req[c].name}
      BY StepTouches
    <3> QED BY <1>1, <2>1, <2>5, <3>2, <3>3 DEF Inserts
  <2> QED BY <2>1, <2>2, <2>3, <2>4, <2>5, StepTouches
<1>4. ASSUME a \in met' \ met
      PROVE  Touches(a)' \subseteq drift' /\ Touches(a) \subseteq drift'
  <2>1. InsertRow(c) /\ Inserts(c)
    BY <1>1, <1>4 DEF Reaches
  <2>2. pc[a] # "idle" /\ req[a].id = nextId
    BY <1>4, <2>1 DEF Inserts
  <2>3. Touches(a) \cup {req[c].name} \subseteq drift'
    BY <2>1, <2>2 DEF Inserts
  <2> QED BY <2>3, StepTouches
<1> QED BY <1>2, <1>3, <1>4

LEMMA MeetStep ==
  ASSUME TypeInv, RowInv, MeetInv, NEW c \in Clients, Step(c)
  PROVE  MeetInv'
<1>1. /\ Reaches(c) /\ (InsertRow(c) => Inserts(c)) /\ pc[c] # "idle"
      /\ \A d \in Clients \ {c} : pc'[d] = pc[d] /\ req'[d] = req[d]
  BY StepReaches, Insertion, StepTouches
<1>2. ASSUME NEW a \in Clients, NEW b \in Clients, a # b,
             pc'[a] # "idle", pc'[b] # "idle",
             (Touches(a) \cap Touches(b))' # {} \/ SameRow(req'[a], req'[b]),
             a \notin met'
      PROVE  FALSE
  <2>1. CASE a # c /\ b # c
    <3>1. pc[a] # "idle" /\ pc[b] # "idle" /\ req'[a] = req[a] /\ req'[b] = req[b]
      BY <1>1, <1>2, <2>1
    <3>2. Touches(a)' = Touches(a) /\ req[c].name \notin Touches(a) /\ a \notin met
      <4>1. req[c].name \in Touches(c)
        BY <1>1 DEF Touches, NamesOf
      <4> QED BY <1>2, <2>1, <3>1, <4>1, Strangers
    <3>3. Touches(b)' \subseteq Touches(b) \cup {req[c].name}
      BY <2>1, <3>1, StepTouches
    <3>4. Touches(a) \cap Touches(b) = {} /\ ~SameRow(req[a], req[b])
      BY <1>2, <3>1, <3>2, Apart
    <3> QED BY <1>2, <3>1, <3>2, <3>3, <3>4
  <2>2. CASE a = c
    <3>1. b # c /\ pc[b] # "idle" /\ req'[b] = req[b] /\ c \notin met
      BY <1>1, <1>2, <2>2 DEF Reaches
    <3>2. Touches(c) \cap Touches(b) = {} /\ ~SameRow(req[c], req[b])
          /\ ~SameRow(req[b], req[c])
      BY <1>1, <3>1, Apart
    <3>3. InsertRow(c) => req[b].id # nextId
      BY <1>1, <1>2, <2>2, <3>1 DEF Inserts
    <3>4. Touches(b)' = Touches(b) /\ Touches(c)' \subseteq Touches(c)
      BY <3>1, <3>2, <3>3, StepTouches
    <3>5. ~SameRow(req'[c], req'[b])
      BY <1>2, <2>2, <3>1, <3>2, <3>3, StepTouches DEF SameRow
    <3> QED BY <1>2, <2>2, <3>2, <3>4, <3>5
  <2>3. CASE b = c
    <3>1. a # c /\ pc[a] # "idle" /\ req'[a] = req[a]
      BY <1>1, <1>2, <2>3
    <3>2. /\ Touches(a)' = Touches(a) /\ Touches(a) \cap Touches(c) = {}
          /\ ~SameRow(req[a], req[c]) /\ (InsertRow(c) => req[a].id # nextId)
      BY <1>2, <3>1, Strangers
    <3>3. Touches(c)' \subseteq Touches(c)
      BY StepTouches
    <3>4. ~SameRow(req'[a], req'[c])
      BY <1>2, <2>3, <3>1, <3>2, StepTouches DEF SameRow
    <3> QED BY <1>2, <2>3, <3>2, <3>3, <3>4
  <2> QED BY <2>1, <2>2, <2>3
<1>3. ASSUME NEW a \in met', a \in Clients PROVE Touches(a)' \subseteq drift'
  <2>1. CASE a # c
    BY <1>1, <1>3, <2>1, StaysInDrift DEF Touches
  <2>2. CASE a = c /\ pc'[c] # "idle"
    <3>1. CASE c \in met
      <4>1. Touches(c) \subseteq drift
        BY <3>1 DEF MeetInv
      <4> QED BY <1>1, <2>2, <3>1, <4>1, StepTouches DEF Reaches
    <3>2. CASE c \notin met
      <4>1. InsertRow(c) /\ Inserts(c)
        BY <1>1, <1>3, <2>2, <3>2 DEF Reaches
      <4>2. req[c].name \in drift'
        BY <1>3, <2>2, <3>2, <4>1 DEF Inserts
      <4> QED BY <2>2, <4>1, <4>2, StepTouches
    <3> QED BY <3>1, <3>2
  <2>3. CASE a = c /\ pc'[c] = "idle"
    BY <2>3 DEF Touches
  <2> QED BY <2>1, <2>2, <2>3
<1>4. met' \subseteq Clients
  BY TypeStep DEF TypeInv, TypeOK
<1>5. \A a \in met' : Touches(a)' \subseteq drift'
  BY <1>3, <1>4
<1> QED BY <1>2, <1>5 DEF MeetInv

\* What a request knows of its own name.
LEMMA Mine ==
  ASSUME TypeInv, SyncInv, NEW c \in Clients, pc[c] # "idle"
  PROVE  /\ Touches(c) \subseteq drift \cup {req[c].name}
         /\ req[c].name \in Touches(c)
         /\ req[c].name \notin drift => c \notin met /\ Known(c)
         /\ c \notin met => Own(c)
         /\ req[c].name \in Names /\ up
<1>1. Touches(c) \subseteq drift \cup {req[c].name} /\ req[c].name \in Touches(c)
  BY DEF SyncInv, NamedInv, Touches, NamesOf
<1>2. req[c].name \notin drift => c \notin met /\ Known(c)
  BY <1>1 DEF SyncInv, StepInv, MeetInv
<1>3. c \notin met => Own(c)
  BY DEF SyncInv, OwnInv
<1>4. req[c].name \in Names
  BY RequestFacts DEF TypeInv
<1>5. up
  BY DEF SyncInv, RowInv
<1> QED BY <1>1, <1>2, <1>3, <1>4, <1>5

\* The rows of its own name change by the one it works on.
LEMMA OwnRows ==
  ASSUME TypeInv, RowInv, NEW c \in Clients, Step(c), NEW n, n = req[c].name
  PROVE  /\ ~InsertRow(c) => RowsOf(n)' \subseteq RowsOf(n) \cup {req[c].id}
         /\ RemoveRow(c) => RowsOf(n)' = RowsOf(n) \ {req[c].id}
         /\ InsertRow(c) => RowsOf(n)' = RowsOf(n) \cup {nextId}
         /\ rows' = rows => RowsOf(n)' = RowsOf(n)
<1>1. Reaches(c) /\ (InsertRow(c) => Inserts(c))
  BY StepReaches, Insertion
<1>2. ASSUME ~InsertRow(c), NEW i \in RowsOf(n)', i # req[c].id
      PROVE  i \in RowsOf(n)
  <2>1. i \in RowIds' /\ rows'[i].name = n /\ i \in Ids /\ i \in RowIds
    BY <1>1, <1>2 DEF RowsOf, RowIds, Reaches
  <2>2. rows'[i] = rows[i]
    BY <1>1, <1>2, <2>1 DEF Reaches
  <2> QED BY <2>1, <2>2 DEF RowsOf
<1>3. ASSUME RemoveRow(c) PROVE RowsOf(n)' = RowsOf(n) \ {req[c].id}
  <2>1. rows' = [rows EXCEPT ![req[c].id] = NoRow] /\ DOMAIN rows = Ids
    BY <1>3 DEF RemoveRow, TypeInv, TypeOK
  <2>2. \A i \in Ids : rows'[i] = IF i = req[c].id THEN NoRow ELSE rows[i]
    BY <2>1
  <2> QED BY <2>2 DEF RowsOf, RowIds
<1>4. ASSUME InsertRow(c) PROVE RowsOf(n)' = RowsOf(n) \cup {nextId}
  <2>1. Inserts(c) /\ DOMAIN rows = Ids
    BY <1>1, <1>4 DEF TypeInv, TypeOK
  <2>2. \A i \in RowIds : i # nextId /\ i \in Ids /\ rows'[i] = rows[i]
    BY <2>1 DEF Inserts, RowIds
  <2> QED BY <2>1, <2>2 DEF RowsOf, Inserts
<1>5. rows' = rows => RowsOf(n)' = RowsOf(n)
  BY DEF RowsOf, RowIds
<1> QED BY <1>2, <1>3, <1>4, <1>5

\* A step that takes a name out of drift ends an updateCron of a NORMAL row or
\* a delete that met no other request and that leaves no other row.
LEMMA Healing ==
  ASSUME TypeInv, RowInv, NEW c \in Clients, Step(c), NEW n \in drift, n \notin drift'
  PROVE  /\ n = req[c].name /\ c \notin met
         /\ RowsOf(n) \subseteq {req[c].id}
         /\ \/ WriteRow(c) /\ req[c].op = "reschedule" /\ req[c].status = "NORMAL"
            \/ RemoveRow(c)
<1>1. n = req[c].name /\ c \notin met
  BY StepReaches DEF Reaches
<1>2. \/ WriteRow(c) /\ req[c].op = "reschedule" /\ req[c].status = "NORMAL"
      \/ RemoveRow(c)
  BY DEF Step, PauseQuartz, ResumeQuartz, DeleteQuartz, GetTrigger, RejectCron,
         AddJob, ReplaceTrigger, WriteStatus, WriteRow, InsertRow, Reply, Blame
<1>3. Heal(c, RowsOf(req[c].name) \ {req[c].id})
  BY <1>2 DEF WriteRow, RemoveRow
<1> QED BY <1>1, <1>2, <1>3 DEF Heal

LEMMA RowStep ==
  ASSUME TypeInv, SyncInv, NEW c \in Clients, Step(c)
  PROVE  RowInv'
<1> DEFINE n0 == req[c].name
<1>1. /\ Reaches(c) /\ (InsertRow(c) => Inserts(c)) /\ pc[c] # "idle"
      /\ RowInv /\ MeetInv
  BY StepReaches, Insertion, StepTouches DEF SyncInv
<1>2. up'
  BY <1>1, StepMoves, Mine DEF Moves
<1>3. ASSUME NEW i \in RowIds' PROVE i < nextId'
  <2>1. nextId \in Nat /\ (nextId' = nextId \/ nextId' = nextId + 1)
    BY <1>1 DEF TypeInv, TypeOK, Reaches, Inserts
  <2>2. CASE i \in RowIds
    <3>1. i \in Nat /\ i < nextId
      BY <1>1, <2>2, IdAssumption DEF RowInv, RowIds, Ids
    <3> QED BY <2>1, <3>1
  <2>3. CASE InsertRow(c) /\ i = nextId
    BY <1>1, <2>1, <2>3 DEF Inserts
  <2> QED BY <1>1, <1>3, <2>2, <2>3 DEF Reaches
<1>4. ASSUME NEW n \in Names \ drift', NEW i \in RowsOf(n)', NEW j \in RowsOf(n)'
      PROVE  i = j
  <2>1. CASE n \notin Touches(c)
    <3>1. n \notin drift
      BY <1>1, <1>4, <2>1, Healing, Mine
    <3>2. RowsOf(n)' = RowsOf(n)
      BY <1>1, <2>1, NameKept
    <3> QED BY <1>1, <3>1, <3>2 DEF RowInv
  <2>2. CASE n \in Touches(c) /\ n # n0
    <3>1. n \in drift
      BY <1>1, <2>2, Mine
    <3> QED BY <1>1, <1>4, <2>2, <3>1, Healing
  <2>3. CASE n = n0 /\ n0 \in drift
    <3>1. RowsOf(n) \subseteq {req[c].id} /\ (WriteRow(c) \/ RemoveRow(c))
      BY <1>1, <1>4, <2>3, Healing
    <3>2. ~InsertRow(c)
      BY <1>1, <3>1 DEF WriteRow, RemoveRow, Inserts
    <3> QED BY <1>1, <1>4, <2>3, <3>1, <3>2, OwnRows
  <2>4. CASE n = n0 /\ n0 \notin drift
    <3>1. c \notin met /\ Known(c) /\ Own(c)
          /\ \A k, m \in RowsOf(n) : k = m
      BY <1>1, <2>4, Mine DEF RowInv
    <3>2. CASE InsertRow(c)
      BY <1>1, <1>4, <2>4, <3>2, OwnRows DEF Inserts
    <3>3. CASE RemoveRow(c)
      BY <1>1, <1>4, <2>4, <3>1, <3>3, OwnRows
    <3>4. CASE WriteStatus(c) \/ WriteRow(c)
      <4>1. req[c].op \in Loads
        BY <3>1, <3>4, PathFacts DEF WriteStatus, WriteRow, Known, Serves, Loads
      <4>2. req[c].id \in RowsOf(n)
        BY <2>4, <3>1, <4>1 DEF Own, Serves
      <4>3. ~InsertRow(c)
        BY <3>4 DEF InsertRow, WriteStatus, WriteRow
      <4> QED BY <1>1, <1>4, <2>4, <3>1, <4>2, <4>3, OwnRows
    <3>5. CASE UNCHANGED rows
      <4>1. RowsOf(n)' = RowsOf(n)
        BY <1>1, <2>4, <3>5, OwnRows
      <4> QED BY <1>4, <2>4, <3>1, <4>1
    <3> QED BY <3>2, <3>3, <3>4, <3>5
            DEF Step, PauseQuartz, ResumeQuartz, DeleteQuartz, GetTrigger,
                RejectCron, AddJob, ReplaceTrigger, Reply
  <2> QED BY <2>1, <2>2, <2>3, <2>4
<1> QED BY <1>2, <1>3, <1>4 DEF RowInv

LEMMA NamedStep ==
  ASSUME TypeInv, SyncInv, NEW c \in Clients, Step(c)
  PROVE  NamedInv'
<1>1. /\ Reaches(c) /\ (InsertRow(c) => Inserts(c)) /\ pc[c] # "idle"
      /\ RowInv /\ MeetInv /\ NamedInv
      /\ \A d \in Clients \ {c} : pc'[d] = pc[d] /\ req'[d] = req[d]
  BY StepReaches, Insertion, StepTouches DEF SyncInv
<1>2. ASSUME NEW a \in Clients, pc'[a] # "idle", req'[a].id \in RowIds'
      PROVE  rows'[req'[a].id].name \in drift' \cup {req'[a].name}
  <2> DEFINE i == req'[a].id
  <2>1. CASE a = c /\ InsertRow(c)
    <3>1. req'[c].id = nextId /\ req'[c].name = req[c].name
      BY <1>1, <1>2, <2>1, StepTouches
    <3> QED BY <1>1, <2>1, <3>1 DEF Inserts
  <2>2. CASE a = c /\ ~InsertRow(c)
    <3>1. rows' = rows /\ req'[c] = req[c]
      BY <1>1, <1>2, <2>2, StepTouches DEF Reaches
    <3>2. drift \subseteq drift'
      BY <1>1, <1>2, <2>2 DEF Reaches
    <3>3. rows[req[c].id].name \in drift \cup {req[c].name}
      BY <1>1, <1>2, <2>2, <3>1 DEF NamedInv, RowIds
    <3> QED BY <2>2, <3>1, <3>2, <3>3
  <2>3. CASE a # c
    <3>1. pc[a] # "idle" /\ req'[a] = req[a]
      BY <1>1, <1>2, <2>3
    <3>2. rows'[req[a].id].name \in Touches(a)'
      BY <1>2, <3>1 DEF Touches, NamesOf
    <3>3. CASE a \in met'
      BY <1>1, <2>3, <3>1, <3>2, <3>3, StaysInDrift
    <3>4. CASE a \notin met'
      <4>1. Touches(a)' = Touches(a)
        BY <1>1, <2>3, <3>1, <3>4, Strangers
      <4>2. Touches(a) \subseteq drift \cup {req[a].name}
        BY <3>1, Mine
      <4>3. Touches(a) \cap drift \subseteq drift'
        BY <1>1, <2>3, <3>1, StaysInDrift
      <4> QED BY <3>1, <3>2, <4>1, <4>2, <4>3
    <3> QED BY <3>3, <3>4
  <2> QED BY <2>1, <2>2, <2>3
<1> QED BY <1>2 DEF NamedInv

\* Quartz takes a new job, or refuses it for good.
LEMMA Added ==
  ASSUME TypeInv, NEW c \in Clients, AddJob(c), NEW n \in Names,
         NEW k, n = req[c].name, k = req[c].cron, ~Exists(n)
  PROVE  Serves(n, k)'
<1>1. /\ sched' = IF Exists(n) \/ k \in dead THEN sched
                  ELSE [sched EXCEPT ![n] = Running(k)]
      /\ dead' = dead
  BY DEF AddJob
<1>2. DOMAIN sched = Names /\ sched[n] = NoJob
  BY DEF TypeInv, TypeOK, Exists
<1>3. CASE k \in dead
  BY <1>1, <1>2, <1>3 DEF Serves, Exists
<1>4. CASE k \notin dead
  <2>1. sched' = [sched EXCEPT ![n] = Running(k)]
    BY <1>1, <1>4
  <2>2. sched'[n] = Running(k)
    BY <1>2, <2>1
  <2> QED BY <2>2 DEF Serves
<1> QED BY <1>3, <1>4

LEMMA OwnStep ==
  ASSUME TypeInv, SyncInv, NEW c \in Clients, Step(c)
  PROVE  OwnInv'
<1>1. /\ Reaches(c) /\ (InsertRow(c) => Inserts(c)) /\ pc[c] # "idle"
      /\ RowInv /\ MeetInv /\ OwnInv /\ req[c].name \in Names
      /\ \A d \in Clients \ {c} : pc'[d] = pc[d] /\ req'[d] = req[d]
  BY StepReaches, Insertion, StepTouches, Mine DEF SyncInv
<1>2. ASSUME NEW a \in Clients \ {c}, a \notin met', pc'[a] # "idle"
      PROVE  Own(a)'
  <2>1. pc[a] # "idle" /\ pc'[a] = pc[a] /\ req'[a] = req[a]
    BY <1>1, <1>2
  <2>2. a \notin met /\ req[a].name \notin Touches(c) /\ req[a].name \in Names
    BY <1>1, <1>2, <2>1, Strangers, Mine
  <2>3. Own(a)
    BY <1>1, <2>1, <2>2 DEF OwnInv
  <2>4. PICK n \in Names : n = req[a].name
    BY <2>2
  <2>5. /\ RowsOf(n)' = RowsOf(n) /\ \A i \in RowsOf(n) : rows'[i] = rows[i]
        /\ sched'[n] = sched[n] /\ (Exists(n)' <=> Exists(n))
        /\ dead' = dead
    BY <1>1, <2>2, <2>4, NameKept DEF Reaches
  <2> QED BY <2>1, <2>3, <2>4, <2>5 DEF Own, Serves
<1>3. ASSUME c \notin met', pc'[c] # "idle"
      PROVE  Own(c)'
  <2>1. PICK n \in Names : n = req[c].name
    BY <1>1
  <2>2. /\ req'[c].name = n /\ req'[c].op = req[c].op
        /\ req'[c].status = req[c].status /\ req'[c].cron = req[c].cron
        /\ ~InsertRow(c) => req'[c] = req[c] /\ rows' = rows
        /\ InsertRow(c) => req'[c].id = nextId
    BY <1>1, <1>3, <2>1, StepTouches DEF Reaches
  <2>3. Own(c)
    BY <1>1, <1>3 DEF Reaches, OwnInv
  <2>4. /\ rows' = rows => RowsOf(n)' = RowsOf(n)
        /\ sched' = sched => (Exists(n)' <=> Exists(n))
        /\ sched'[n] = NoJob => ~Exists(n)'
    BY <1>1, <2>1, OwnRows DEF Exists
  <2>5. /\ pc \in [Clients -> {"idle", "quartz", "get", "add", "replace",
                             "status", "write", "remove", "insert", "reply"}]
        /\ sched \in [Names -> Job \cup {NoJob}]
    BY DEF TypeInv, TypeOK
  <2>6. CASE PauseQuartz(c)
    <3>1. pc'[c] = "status" /\ req[c].op = "pause" /\ ~InsertRow(c)
      BY <1>3, <2>5, <2>6 DEF PauseQuartz, Done, GoTo, InsertRow
    <3> QED BY <2>1, <2>2, <2>3, <2>4, <3>1 DEF Own, Serves, Loads
  <2>7. CASE ResumeQuartz(c)
    <3>1. /\ req[c].op = "resume" /\ ~InsertRow(c)
          /\ pc'[c] = "status" \/ (pc'[c] = "get" /\ sched' = sched /\ ~Exists(n))
      BY <1>3, <2>1, <2>5, <2>7 DEF ResumeQuartz, Done, GoTo, InsertRow
    <3> QED BY <2>1, <2>2, <2>3, <2>4, <3>1 DEF Own, Serves, Loads
  <2>8. CASE DeleteQuartz(c)
    <3>1. /\ req[c].op \in {"delete", "reschedule"} /\ ~InsertRow(c)
          /\ pc'[c] = IF req[c].op = "delete" THEN "remove" ELSE "get"
          /\ sched'[n] = NoJob
      BY <1>3, <2>1, <2>5, <2>8 DEF DeleteQuartz, GoTo, InsertRow
    <3> QED BY <2>1, <2>2, <2>3, <2>4, <3>1 DEF Own, Serves, Loads
  <2>9. CASE GetTrigger(c)
    <3>1. pc[c] = "get" /\ sched' = sched /\ ~InsertRow(c)
          /\ req[c].op \in {"resume", "schedule", "create", "reschedule"}
      BY <2>9, PathFacts DEF GetTrigger, InsertRow
    <3>2. CASE n \in Beans
      <4>1. pc'[c] = IF Exists(n) THEN "replace" ELSE "add"
        BY <2>1, <2>5, <2>9, <3>2 DEF GetTrigger, GoTo
      <4> QED BY <2>1, <2>2, <2>3, <2>4, <3>1, <4>1 DEF Own, Serves, Loads
    <3>3. CASE n \notin Beans
      <4>1. Scheduled(c)
        BY <2>1, <2>9, <3>3 DEF GetTrigger
      <4>2. \/ req[c].op = "resume" /\ pc'[c] = "status"
            \/ req[c].op = "reschedule" /\ pc'[c] = "write"
        BY <1>3, <2>5, <3>1, <4>1 DEF Scheduled, Done, GoTo
      <4> QED BY <2>1, <2>2, <2>3, <2>4, <3>1, <3>3, <4>2 DEF Own, Serves, Loads
    <3> QED BY <3>2, <3>3
  <2>10. CASE AddJob(c)
    <3>1. pc[c] = "add" /\ ~InsertRow(c) /\ Scheduled(c)
      BY <2>10 DEF AddJob, InsertRow
    <3>2. \/ req[c].op = "resume" /\ pc'[c] = "status"
          \/ req[c].op = "reschedule" /\ pc'[c] = "write"
      BY <1>3, <2>5, <3>1 DEF Scheduled, Done, GoTo
    <3>3. ~Exists(n)
      BY <2>1, <2>3, <3>1, <3>2 DEF Own, Serves
    <3>4. PICK k : k = req[c].cron
      OBVIOUS
    <3>5. Serves(n, k)'
      BY <2>1, <2>10, <3>3, <3>4, Added
    <3> QED BY <2>1, <2>2, <2>3, <2>4, <3>1, <3>2, <3>4, <3>5 DEF Own, Loads
  <2>11. CASE ReplaceTrigger(c)
    <3>1. pc[c] = "replace" /\ Scheduled(c)
      BY <2>11 DEF ReplaceTrigger
    <3>2. req[c].op \in {"resume", "reschedule"}
      BY <1>3, <2>5, <3>1 DEF Scheduled, Done, GoTo
    <3> QED BY <2>3, <3>1, <3>2 DEF Own, Serves
  <2>12. CASE InsertRow(c)
    <3>1. pc'[c] = "get" /\ req[c].op = "create" /\ Inserts(c)
      BY <1>1, <1>3, <2>5, <2>12, PathFacts DEF InsertRow, Done, GoTo
    <3>2. nextId \in RowsOf(n)'
      BY <1>1, <2>1, <2>12, OwnRows
    <3>3. rows'[nextId].status = req[c].status /\ rows'[nextId].cron = req[c].cron
      <4>1. DOMAIN rows = Ids
        BY DEF TypeInv, TypeOK
      <4> QED BY <3>1, <4>1 DEF Inserts
    <3> QED BY <2>1, <2>2, <2>12, <3>1, <3>2, <3>3 DEF Own, Serves, Loads
  <2>13. CASE RejectCron(c) \/ WriteStatus(c) \/ WriteRow(c) \/ RemoveRow(c) \/ Reply(c)
    BY <1>3, <2>5, <2>13 DEF RejectCron, WriteStatus, WriteRow, RemoveRow, Reply, Done, GoTo
  <2> QED BY <2>6, <2>7, <2>8, <2>9, <2>10, <2>11, <2>12, <2>13 DEF Step
<1> QED BY <1>2, <1>3 DEF OwnInv

LEMMA PauseAJob ==
  ASSUME NEW j \in Job, NEW b \in BOOLEAN
  PROVE  [j EXCEPT !.paused = b]
           = [paused |-> b, cron |-> j.cron, data |-> j.data]
<1> DEFINE k == [j EXCEPT !.paused = b]
<1>1. k \in Job /\ k.paused = b /\ k.cron = j.cron /\ k.data = j.data
  BY DEF Job
<1> HIDE DEF k
<1>2. k = [paused |-> k.paused, cron |-> k.cron, data |-> k.data]
  BY <1>1 DEF Job
<1>3. k = [paused |-> b, cron |-> j.cron, data |-> j.data]
  BY <1>1, <1>2
<1> QED BY <1>3 DEF k

LEMMA KnownStep ==
  ASSUME TypeInv, SyncInv, NEW c \in Clients, Step(c)
  PROVE  StepInv'
<1>1. /\ Reaches(c) /\ (InsertRow(c) => Inserts(c)) /\ pc[c] # "idle"
      /\ RowInv /\ MeetInv /\ StepInv /\ req[c].name \in Names
      /\ \A d \in Clients \ {c} : pc'[d] = pc[d] /\ req'[d] = req[d]
  BY StepReaches, Insertion, StepTouches, Mine DEF SyncInv
<1>2. ASSUME NEW a \in Clients \ {c}, pc'[a] # "idle", req'[a].name \notin drift'
      PROVE  Known(a)'
  <2>1. pc[a] # "idle" /\ pc'[a] = pc[a] /\ req'[a] = req[a]
        /\ req[a].name \in Touches(a) /\ req[a].name \in Names
    BY <1>1, <1>2, Mine
  <2>2. req[a].name \notin drift /\ a \notin met'
    BY <1>1, <1>2, <2>1, StaysInDrift
  <2>3. req[a].name \notin Touches(c) /\ Known(a)
    BY <1>1, <2>1, <2>2, Strangers DEF StepInv
  <2>4. PICK n \in Names : n = req[a].name
    BY <2>1
  <2>5. /\ RowsOf(n)' = RowsOf(n)
        /\ sched'[n] = sched[n] /\ (Exists(n)' <=> Exists(n))
        /\ Synced(n)' <=> Synced(n)
        /\ dead' = dead
    BY <1>1, <2>3, <2>4, NameKept DEF Reaches
  <2> QED BY <2>1, <2>3, <2>4, <2>5 DEF Known, Serves
<1>3. ASSUME pc'[c] # "idle", req'[c].name \notin drift'
      PROVE  Known(c)'
  <2>1. PICK n \in Names : n = req[c].name
    BY <1>1
  <2>2. /\ req'[c].name = n /\ req'[c].op = req[c].op
        /\ req'[c].status = req[c].status /\ req'[c].cron = req[c].cron
        /\ ~InsertRow(c) => req'[c] = req[c] /\ rows' = rows
    BY <1>1, <1>3, <2>1, StepTouches DEF Reaches
  <2>3. n \notin drift
    BY <1>1, <1>3, <2>2 DEF Reaches
  <2>4. Known(c) /\ Own(c) /\ c \notin met
        /\ \A i, j \in RowsOf(n) : i = j
    BY <1>1, <2>1, <2>3, Mine DEF RowInv
  <2>5. /\ pc \in [Clients -> {"idle", "quartz", "get", "add", "replace",
                             "status", "write", "remove", "insert", "reply"}]
        /\ sched \in [Names -> Job \cup {NoJob}]
    BY DEF TypeInv, TypeOK
  <2>6. /\ rows' = rows => RowsOf(n)' = RowsOf(n)
        /\ sched' = sched => (Exists(n)' <=> Exists(n))
        /\ rows' = rows /\ sched' = sched => (Synced(n)' <=> Synced(n))
        /\ dead' = dead
    <3>1. rows' = rows => RowsOf(n)' = RowsOf(n)
      BY <1>1, <2>1, OwnRows
    <3>2. sched' = sched => (Exists(n)' <=> Exists(n))
      BY DEF Exists
    <3>4. dead' = dead
      BY <1>1 DEF Reaches
    <3>3. rows' = rows /\ sched' = sched => (Synced(n)' <=> Synced(n))
      BY <3>4 DEF Exists, Synced, Agrees, Serves, RowsOf, RowIds
    <3> QED BY <3>1, <3>2, <3>3, <3>4
  <2>7. ASSUME req[c].op \in {"pause", "resume"}, pc[c] = "quartz", n \in Beans, Exists(n)
        PROVE  \E b \in BOOLEAN :
                 sched[n] = [paused |-> b, cron |-> req[c].cron, data |-> req[c].cron]
    <3>1. /\ req[c].id \in RowsOf(n) /\ Synced(n)
          /\ rows[req[c].id].cron = req[c].cron
      BY <2>1, <2>4, <2>7 DEF Own, Serves, Known, Loads
    <3>2. Agrees(rows[req[c].id]) /\ rows[req[c].id].name = n
          /\ rows[req[c].id].status \in Status
      BY <3>1, RowFacts DEF Synced, RowsOf, TypeInv
    <3> QED BY <2>7, <3>1, <3>2 DEF Agrees, Serves, Exists, Running, Status
  <2>8. req[c].op \in {"pause", "resume"} => req[c].cron \in Crons
    BY <1>1, RequestFacts DEF TypeInv, PathInv
  <2>9. CASE PauseQuartz(c)
    <3>1. pc'[c] = "status" /\ pc[c] = "quartz" /\ req[c].op = "pause" /\ ~InsertRow(c)
      BY <1>3, <2>5, <2>9 DEF PauseQuartz, Done, GoTo, InsertRow
    <3>2. ASSUME n \in Beans
          PROVE  ~Exists(n)' \/ sched'[n] = [Running(req[c].cron) EXCEPT !.paused = TRUE]
      <4>1. CASE ~Exists(n)
        BY <2>1, <2>9, <4>1 DEF PauseQuartz, Exists
      <4>2. CASE Exists(n)
        <5>1. sched' = [sched EXCEPT ![n].paused = TRUE]
          BY <2>1, <2>9, <4>2 DEF PauseQuartz
        <5>2. sched'[n] = [sched[n] EXCEPT !.paused = TRUE]
          BY <2>5, <5>1
        <5>3. PICK b \in BOOLEAN :
                sched[n] = [paused |-> b, cron |-> req[c].cron, data |-> req[c].cron]
          BY <2>7, <3>1, <3>2, <4>2
        <5>4. sched'[n] = [paused |-> TRUE, cron |-> req[c].cron,
                           data |-> req[c].cron]
          <6>1. sched[n] \in Job /\ sched[n].cron = req[c].cron
                /\ sched[n].data = req[c].cron
            BY <2>8, <3>1, <5>3 DEF Job
          <6>2. [sched[n] EXCEPT !.paused = TRUE]
                  = [paused |-> TRUE, cron |-> sched[n].cron, data |-> sched[n].data]
            BY <6>1, PauseAJob
          <6> QED BY <5>2, <6>1, <6>2
        <5>5. [Running(req[c].cron) EXCEPT !.paused = TRUE]
                = [paused |-> TRUE, cron |-> req[c].cron, data |-> req[c].cron]
          <6>1. /\ Running(req[c].cron) \in Job
                /\ Running(req[c].cron).cron = req[c].cron
                /\ Running(req[c].cron).data = req[c].cron
            BY <2>8, <3>1 DEF Running, Job
          <6> QED BY <6>1, PauseAJob
        <5> QED BY <5>4, <5>5
      <4> QED BY <4>1, <4>2
    <3> QED BY <2>1, <2>2, <2>4, <3>1, <3>2 DEF Known, Serves
  <2>10. CASE ResumeQuartz(c)
    <3>1. /\ req[c].op = "resume" /\ pc[c] = "quartz" /\ ~InsertRow(c)
          /\ pc'[c] = "get" \/ (pc'[c] = "status" /\ Exists(n)
                                /\ sched' = [sched EXCEPT ![n].paused = FALSE])
      BY <1>3, <2>1, <2>5, <2>10 DEF ResumeQuartz, Done, GoTo, InsertRow
    <3>2. ASSUME n \in Beans, pc'[c] = "status"
          PROVE  sched'[n] = Running(req[c].cron)
      <4>1. sched'[n] = [sched[n] EXCEPT !.paused = FALSE]
        BY <2>5, <3>1, <3>2
      <4>2. PICK b \in BOOLEAN :
              sched[n] = [paused |-> b, cron |-> req[c].cron, data |-> req[c].cron]
        BY <2>7, <3>1, <3>2
      <4>3. sched'[n] = [paused |-> FALSE, cron |-> req[c].cron,
                         data |-> req[c].cron]
        <5>1. sched[n] \in Job /\ sched[n].cron = req[c].cron
              /\ sched[n].data = req[c].cron
          BY <2>8, <3>1, <4>2 DEF Job
        <5>2. [sched[n] EXCEPT !.paused = FALSE]
                = [paused |-> FALSE, cron |-> sched[n].cron, data |-> sched[n].data]
          BY <5>1, PauseAJob
        <5> QED BY <4>1, <5>1, <5>2
      <4> QED BY <4>3 DEF Running
    <3> QED BY <2>1, <2>2, <2>4, <3>1, <3>2 DEF Known, Serves
  <2>11. CASE DeleteQuartz(c)
    <3>1. /\ req[c].op \in {"delete", "reschedule"} /\ ~InsertRow(c)
          /\ pc'[c] = IF req[c].op = "delete" THEN "remove" ELSE "get"
      BY <1>3, <2>1, <2>5, <2>11 DEF DeleteQuartz, GoTo, InsertRow
    <3> QED BY <2>1, <2>2, <2>4, <2>6, <3>1 DEF Known, Serves
  <2>12. CASE GetTrigger(c)
    <3>1. pc[c] = "get" /\ sched' = sched /\ ~InsertRow(c)
          /\ req[c].op \in {"resume", "schedule", "create", "reschedule"}
      BY <2>12, PathFacts DEF GetTrigger, InsertRow
    <3>2. CASE n \in Beans
      <4>1. pc'[c] = IF Exists(n) THEN "replace" ELSE "add"
        BY <2>1, <2>5, <2>12, <3>2 DEF GetTrigger, GoTo
      <4> QED BY <2>1, <2>2, <2>4, <2>6, <3>1, <3>2, <4>1 DEF Known, Serves
    <3>3. CASE n \notin Beans
      <4>1. Scheduled(c)
        BY <2>1, <2>12, <3>3 DEF GetTrigger
      <4>2. \/ req[c].op = "resume" /\ pc'[c] = "status"
            \/ req[c].op = "reschedule" /\ pc'[c] = "write"
        BY <1>3, <2>5, <3>1, <4>1 DEF Scheduled, Done, GoTo
      <4> QED BY <2>1, <2>2, <2>4, <2>6, <3>1, <3>3, <4>2 DEF Known, Serves
    <3> QED BY <3>2, <3>3
  <2>13. CASE AddJob(c)
    <3>1. pc[c] = "add" /\ ~InsertRow(c) /\ Scheduled(c)
      BY <2>13 DEF AddJob, InsertRow
    <3>2. \/ req[c].op = "resume" /\ pc'[c] = "status"
          \/ req[c].op = "reschedule" /\ pc'[c] = "write"
      BY <1>3, <2>5, <3>1 DEF Scheduled, Done, GoTo
    <3>3. ~Exists(n)
      BY <2>1, <2>4, <3>1, <3>2 DEF Own, Serves
    <3>4. PICK k : k = req[c].cron
      OBVIOUS
    <3>5. Serves(n, k)'
      BY <2>1, <2>13, <3>3, <3>4, Added
    <3> QED BY <2>1, <2>2, <2>4, <3>1, <3>2, <3>4, <3>5 DEF Known
  <2>14. CASE ReplaceTrigger(c)
    <3>1. pc[c] = "replace" /\ Scheduled(c)
      BY <2>14 DEF ReplaceTrigger
    <3>2. req[c].op \in {"resume", "reschedule"}
      BY <1>3, <2>5, <3>1 DEF Scheduled, Done, GoTo
    <3> QED BY <2>4, <3>1, <3>2 DEF Own, Serves
  <2>15. CASE InsertRow(c)
    <3>1. pc'[c] = "get" /\ req[c].op = "create" /\ Inserts(c)
          /\ req[c].status = "NORMAL" /\ pc[c] = "insert" /\ sched' = sched
      BY <1>1, <1>3, <2>5, <2>15, PathFacts DEF InsertRow, Done, GoTo
    <3>2. RowsOf(n) = {}
      BY <1>3, <2>1, <2>2, <3>1 DEF Inserts
    <3>3. n \in Beans => ~Exists(n)
      BY <2>1, <2>4, <3>1, <3>2 DEF Known, Serves, Synced
    <3> QED BY <2>1, <2>2, <2>6, <3>1, <3>3 DEF Known, Serves
  <2>16. CASE RejectCron(c) \/ WriteStatus(c) \/ WriteRow(c) \/ RemoveRow(c) \/ Reply(c)
    BY <1>3, <2>5, <2>16 DEF RejectCron, WriteStatus, WriteRow, RemoveRow, Reply, Done, GoTo
  <2> QED BY <2>9, <2>10, <2>11, <2>12, <2>13, <2>14, <2>15, <2>16 DEF Step
<1> QED BY <1>2, <1>3 DEF StepInv

\* A request that ends leaves its name in step, if the name is out of drift.
LEMMA EndsInSync ==
  ASSUME TypeInv, SyncInv, NEW c \in Clients, Step(c), pc'[c] = "idle",
         NEW n \in Beans \ drift', n = req[c].name
  PROVE  Synced(n)'
<1>1. /\ Reaches(c) /\ (InsertRow(c) => Inserts(c)) /\ pc[c] # "idle"
      /\ RowInv /\ n \in Names /\ req[c] \in Request /\ PathInv
  BY StepReaches, Insertion, StepTouches, Mine, RequestFacts DEF SyncInv, TypeInv
<1>2. /\ pc \in [Clients -> {"idle", "quartz", "get", "add", "replace",
                             "status", "write", "remove", "insert", "reply"}]
      /\ sched \in [Names -> Job \cup {NoJob}]
      /\ rows \in [Ids -> Row \cup {NoRow}]
  BY DEF TypeInv, TypeOK
<1>3. /\ c \notin met /\ Own(c) /\ (n \notin drift => Known(c))
  <2>1. c \notin met
    BY <1>1, Healing, Mine
  <2> QED BY <1>1, <2>1, Mine
<1>4. /\ n \notin drift \/ WriteRow(c) \/ RemoveRow(c)
      /\ n \notin drift => \A i, j \in RowsOf(n) : i = j
      /\ \A i, j \in RowsOf(n)' : i = j
  BY <1>1, Healing, RowStep DEF RowInv
<1>19. dead' = dead
  BY <1>1 DEF Reaches
<1>5. ASSUME rows' = rows, sched' = sched PROVE Synced(n)' <=> Synced(n)
  BY <1>5, <1>19 DEF Synced, Agrees, Serves, RowsOf, RowIds, Exists
<1>6. /\ \A i \in RowsOf(n) : i \in Ids /\ rows[i].name = n /\ rows[i] \in Row
      /\ \A i \in RowsOf(n)' : rows'[i].name = n
  BY RowFacts DEF RowsOf, TypeInv
<1>7. CASE PauseQuartz(c)
  BY <1>1, <1>2, <1>7 DEF PauseQuartz, GoTo
<1>8. CASE ResumeQuartz(c)
  BY <1>1, <1>2, <1>8 DEF ResumeQuartz, GoTo
<1>9. CASE DeleteQuartz(c)
  BY <1>1, <1>2, <1>9 DEF DeleteQuartz, GoTo
<1>10. CASE GetTrigger(c)
  BY <1>1, <1>2, <1>10 DEF GetTrigger, GoTo
<1>11. CASE RejectCron(c)
  BY <1>11 DEF RejectCron, Blame
<1>12. CASE AddJob(c)
  <2>1. pc[c] = "add" /\ rows' = rows /\ Scheduled(c) /\ Known(c)
    BY <1>3, <1>4, <1>12 DEF AddJob, WriteRow, RemoveRow
  <2>2. req[c].op \in {"schedule", "create"}
    <3>1. req[c].op \notin {"resume", "reschedule"}
      BY <1>2, <2>1 DEF Scheduled, GoTo
    <3> QED BY <2>1, <3>1, PathFacts
  <2>3. req[c].id \in RowsOf(n) /\ rows[req[c].id].cron = req[c].cron
        /\ rows[req[c].id].status = req[c].status
    BY <1>3, <2>1, <2>2 DEF Own, Serves, Loads
  <2>4. req[c].status = "NORMAL"
    BY <1>3, <2>1, <2>2 DEF Known, Serves
  <2>5. CASE req[c].op = "schedule"
    <3>1. Synced(n)
      BY <2>1, <2>5 DEF Known, Serves
    <3>2. Exists(n) \/ req[c].cron \in dead
      <4>1. Serves(n, req[c].cron)
        BY <1>6, <2>3, <2>4, <3>1 DEF Synced, Agrees
      <4>2. Running(req[c].cron) \in Job
        BY <1>6, <2>3 DEF Job, Row, Running
      <4> QED BY <4>1, <4>2, NoneAssumption DEF Exists, Serves
    <3>3. sched' = sched
      BY <1>12, <3>2 DEF AddJob
    <3> QED BY <1>5, <2>1, <3>1, <3>3
  <2>6. CASE req[c].op = "create"
    <3>5. PICK k : k = req[c].cron
      OBVIOUS
    <3>1. Serves(n, k)'
      <4>1. ~Exists(n)
        BY <2>1, <2>6 DEF Known
      <4> QED BY <1>1, <1>12, <3>5, <4>1, Added
    <3>2. RowsOf(n)' = RowsOf(n)
      BY <1>1, <2>1, OwnRows
    <3>3. \A i \in RowsOf(n)' : i = req[c].id
      BY <1>4, <2>3, <3>2
    <3>4. ASSUME NEW i \in RowsOf(n)' PROVE Agrees(rows[i])'
      <4>1. /\ i = req[c].id /\ rows'[i].name = n
            /\ rows'[i].status = "NORMAL" /\ rows'[i].cron = k
        BY <1>6, <2>1, <2>3, <2>4, <3>3, <3>5
      <4>2. Serves(rows[i].name, rows[i].cron)'
        BY <3>1, <4>1 DEF Serves, Exists
      <4> QED BY <4>1, <4>2 DEF Agrees
    <3> QED BY <2>3, <3>2, <3>4 DEF Synced
  <2> QED BY <2>2, <2>5, <2>6
<1>13. CASE ReplaceTrigger(c)
  <2>1. pc[c] = "replace" /\ rows' = rows /\ Scheduled(c) /\ Known(c)
    BY <1>3, <1>4, <1>13 DEF ReplaceTrigger, WriteRow, RemoveRow
  <2>2. req[c].op = "schedule"
    <3>1. req[c].op \notin {"resume", "reschedule"}
      BY <1>2, <2>1 DEF Scheduled, GoTo
    <3> QED BY <2>1, <3>1, PathFacts DEF Known, Serves
  <2>3. req[c].id \in RowsOf(n) /\ rows[req[c].id].cron = req[c].cron
        /\ rows[req[c].id].status = req[c].status
    BY <1>3, <2>1, <2>2 DEF Own, Serves, Loads
  <2>4. req[c].status = "NORMAL" /\ Synced(n)
    BY <2>1, <2>2 DEF Known, Serves
  <2>5. sched[n] = Running(req[c].cron) \/ ~Exists(n)
    BY <1>6, <2>3, <2>4 DEF Synced, Agrees, Serves
  <2>8. CASE ~Exists(n) \/ req[c].cron \in dead
    <3>1. sched' = sched
      BY <1>13, <2>8 DEF ReplaceTrigger
    <3> QED BY <1>5, <2>1, <2>4, <3>1
  <2>9. CASE Exists(n) /\ req[c].cron \notin dead
    <3>6. /\ sched[n] \in Job /\ sched[n].paused = FALSE
          /\ sched[n].cron = req[c].cron
      <4>1. Running(req[c].cron) \in Job
        BY <1>6, <2>3 DEF Job, Row, Running
      <4>2. Running(req[c].cron).paused = FALSE
            /\ Running(req[c].cron).cron = req[c].cron
        BY DEF Running
      <4> QED BY <2>5, <2>9, <4>1, <4>2
    <3>7. sched' = sched
      <4>1. sched' = [sched EXCEPT ![n].cron = req[c].cron, ![n].paused = FALSE]
        BY <1>13, <2>9 DEF ReplaceTrigger
      <4>2. sched'[n] = [sched[n] EXCEPT !.cron = req[c].cron, !.paused = FALSE]
            /\ \A m \in Names \ {n} : sched'[m] = sched[m]
        BY <1>1, <1>2, <4>1
      <4>3. [sched[n] EXCEPT !.cron = req[c].cron, !.paused = FALSE] = sched[n]
        BY <3>6 DEF Job
      <4>4. sched' \in [Names -> Job \cup {NoJob}]
        BY TypeStep DEF TypeInv, TypeOK
      <4> QED BY <1>2, <4>2, <4>3, <4>4
    <3> QED BY <1>5, <2>1, <2>4, <3>7
  <2> QED BY <2>8, <2>9
<1>14. CASE WriteStatus(c)
  <2>1. /\ pc[c] = "status" /\ req[c].op \in {"pause", "resume"}
        /\ sched' = sched /\ Known(c)
    BY <1>3, <1>4, <1>14, PathFacts DEF WriteStatus, WriteRow, RemoveRow
  <2>2. req[c].id \in RowsOf(n) /\ rows[req[c].id].cron = req[c].cron
        /\ req[c].id \in Ids /\ rows[req[c].id] \in Row
    BY <1>3, <1>6, <2>1 DEF Own, Serves, Loads
  <2> DEFINE st == IF req[c].op = "pause" THEN "PAUSED" ELSE "NORMAL"
  <2>3. rows'[req[c].id] = [rows[req[c].id] EXCEPT !.status = st]
    <3>1. rows' = [rows EXCEPT ![req[c].id].status = st]
      BY <1>14, <2>2 DEF WriteStatus, RowsOf
    <3> QED BY <1>2, <2>2, <3>1
  <2>4. rows'[req[c].id].status = st /\ rows'[req[c].id].cron = req[c].cron
        /\ rows'[req[c].id].name = n
    BY <1>6, <2>2, <2>3 DEF Row
  <2>5. RowsOf(n)' \subseteq {req[c].id} /\ req[c].id \in RowsOf(n)'
    <3>1. ~InsertRow(c)
      BY <1>14 DEF WriteStatus, InsertRow
    <3>2. RowsOf(n)' \subseteq RowsOf(n) \cup {req[c].id}
      BY <1>1, <3>1, OwnRows
    <3>3. n \notin drift
      BY <1>4, <1>14 DEF WriteStatus, WriteRow, RemoveRow
    <3>4. RowsOf(n)' \subseteq {req[c].id}
      BY <1>4, <2>2, <3>2, <3>3
    <3>5. req[c].id \in RowIds'
      <4>1. st \in Status
        BY DEF Status
      <4>2. [rows[req[c].id] EXCEPT !.status = st] \in Row
        BY <2>2, <4>1 DEF Row
      <4> QED BY <2>2, <2>3, <4>2, NoneAssumption DEF RowIds
    <3> QED BY <2>4, <3>4, <3>5 DEF RowsOf
  <2>6. CASE req[c].op = "pause"
    <3>1. ~Exists(n) \/ sched[n] = [paused |-> TRUE, cron |-> req[c].cron,
                                    data |-> req[c].cron]
      <4>1. req[c].cron \in Crons
        BY <2>2 DEF Row
      <4>2. /\ Running(req[c].cron) \in Job
            /\ Running(req[c].cron).cron = req[c].cron
            /\ Running(req[c].cron).data = req[c].cron
        BY <4>1 DEF Running, Job
      <4>3. ~Exists(n) \/ sched[n] = [Running(req[c].cron) EXCEPT !.paused = TRUE]
        BY <2>1, <2>6 DEF Known, Serves
      <4> QED BY <4>2, <4>3, PauseAJob
    <3> QED BY <2>1, <2>4, <2>5, <2>6, <3>1 DEF Synced, Agrees, Serves, Exists
  <2>7. CASE req[c].op = "resume"
    <3>4. PICK k, j : k = req[c].cron /\ j = req[c].id
      OBVIOUS
    <3>1. Serves(n, k)
      BY <2>1, <2>7, <3>4 DEF Known
    <3>2. Serves(n, k)'
      BY <1>19, <2>1, <3>1 DEF Serves, Exists
    <3>3. \A i \in RowsOf(n)' : Agrees(rows[i])'
      <4>1. Serves(rows[j].name, rows[j].cron)'
        BY <2>4, <3>2, <3>4 DEF Serves, Exists
      <4> QED BY <2>4, <2>5, <2>7, <3>4, <4>1 DEF Agrees
    <3> QED BY <2>5, <3>3 DEF Synced
  <2> QED BY <2>1, <2>6, <2>7
<1>15. CASE WriteRow(c)
  <2>1. pc[c] = "write" /\ sched' = sched /\ ~InsertRow(c)
    BY <1>15 DEF WriteRow, InsertRow
  <2>2. req[c].op = "reschedule" /\ req[c].status = "NORMAL"
    <3>1. CASE n \notin drift
      BY <1>3, <2>1, <3>1, PathFacts DEF Known, Serves
    <3>2. CASE n \in drift
      <4>1. \/ WriteRow(c) /\ req[c].op = "reschedule" /\ req[c].status = "NORMAL"
            \/ RemoveRow(c)
        BY <1>1, <3>2, Healing
      <4> QED BY <2>1, <4>1 DEF RemoveRow
    <3> QED BY <3>1, <3>2
  <2>3. /\ req[c].id \in RowsOf(n) /\ Serves(n, req[c].cron)
        /\ req[c].cron # NoCron /\ req[c].id \in Ids /\ req[c].id \in RowIds
    BY <1>1, <1>3, <1>6, <2>1, <2>2 DEF Own, Loads, PathInv, RowsOf
  <2>4. rows'[req[c].id].status = "NORMAL" /\ rows'[req[c].id].cron = req[c].cron
        /\ rows'[req[c].id].name = n
    <3>1. PICK k : rows' = [rows EXCEPT ![req[c].id] =
                     [name |-> req[c].name, status |-> req[c].status,
                      cron |-> req[c].cron, idc |-> k]]
      BY <1>15, <2>3 DEF WriteRow
    <3> QED BY <1>2, <2>2, <2>3, <3>1
  <2>5. req[c].id \in RowsOf(n)'
    <3>1. RowIds' = RowIds
      <4>1. rows'[req[c].id] # NoRow
        <5>1. [name |-> req[c].name, status |-> req[c].status,
               cron |-> req[c].cron, idc |-> req[c].idc] \in Row
          BY <1>1, <2>3 DEF Request, Row
        <5>2. rows'[req[c].id] = [name |-> req[c].name, status |-> req[c].status,
               cron |-> req[c].cron, idc |-> req[c].idc]
          BY <1>2, <1>15, <2>3 DEF WriteRow
        <5> QED BY <5>1, <5>2, NoneAssumption
      <4>2. \A i \in Ids \ {req[c].id} : rows'[i] = rows[i]
        BY <1>1, <2>1 DEF Reaches
      <4> QED BY <2>3, <4>1, <4>2 DEF RowIds
    <3> QED BY <2>3, <2>4, <3>1 DEF RowsOf
  <2>6. \A i \in RowsOf(n)' : i = req[c].id
    BY <1>4, <2>5
  <2>9. PICK k, j : k = req[c].cron /\ j = req[c].id
    OBVIOUS
  <2>7. Serves(rows[j].name, rows[j].cron)'
    <3>1. Serves(n, k)
      BY <2>3, <2>9
    <3>2. Serves(n, k)'
      BY <1>19, <2>1, <3>1 DEF Serves, Exists
    <3> QED BY <2>4, <2>9, <3>2 DEF Serves, Exists
  <2>8. \A i \in RowsOf(n)' : Agrees(rows[i])'
    BY <2>4, <2>6, <2>7, <2>9 DEF Agrees
  <2> QED BY <2>5, <2>8 DEF Synced
<1>16. CASE Reply(c)
  <2>1. rows' = rows /\ sched' = sched /\ Known(c) /\ req[c].op = "schedule"
    BY <1>1, <1>3, <1>4, <1>16, PathFacts DEF Reply, WriteRow, RemoveRow
  <2>2. Synced(n)
    BY <2>1 DEF Known, Serves
  <2> QED BY <1>5, <2>1, <2>2
<1>17. CASE RemoveRow(c)
  <2>1. pc[c] = "remove" /\ sched' = sched /\ req[c].op = "delete"
    BY <1>1, <1>17, PathFacts DEF RemoveRow
  <2>2. ~Exists(n)
    BY <1>3, <2>1 DEF Own, Serves
  <2>3. RowsOf(n)' = RowsOf(n) \ {req[c].id}
    BY <1>1, <1>17, OwnRows
  <2>4. RowsOf(n) \subseteq {req[c].id}
    <3>1. CASE n \in drift
      BY <1>1, <3>1, Healing
    <3>2. CASE n \notin drift
      BY <1>3, <1>4, <2>1, <3>2 DEF Known, Serves
    <3> QED BY <3>1, <3>2
  <2> QED BY <2>1, <2>2, <2>3, <2>4 DEF Synced, Exists
<1>18. CASE InsertRow(c)
  <2>1. /\ req[c].status # "NORMAL" /\ sched' = sched /\ pc[c] = "insert"
        /\ Known(c) /\ req[c].op = "create" /\ Inserts(c)
    BY <1>1, <1>2, <1>3, <1>4, <1>18, PathFacts
       DEF InsertRow, GoTo, WriteRow, RemoveRow
  <2>2. RowsOf(n) = {} /\ ~Exists(n)
    <3>1. RowsOf(n) = {}
      BY <2>1 DEF Inserts
    <3> QED BY <2>1, <3>1 DEF Known, Serves, Synced
  <2>3. RowsOf(n)' = {nextId}
    BY <1>1, <1>18, <2>2, OwnRows
  <2>4. rows'[nextId].status = req[c].status /\ rows'[nextId].name = n
    BY <1>2, <2>1 DEF Inserts
  <2>5. req[c].status \in {"NONE", "PAUSED"}
    BY <1>1, <2>1 DEF Request, Status
  <2> QED BY <2>1, <2>2, <2>3, <2>4, <2>5 DEF Synced, Agrees, Serves, Exists
<1> QED BY <1>7, <1>8, <1>9, <1>10, <1>11, <1>12, <1>13, <1>14, <1>15, <1>16,
           <1>17, <1>18 DEF Step

LEMMA InSyncStep ==
  ASSUME TypeInv, SyncInv, NEW c \in Clients, Step(c)
  PROVE  InSync'
<1>1. RowInv /\ MeetInv /\ InSync /\ pc[c] # "idle" /\ up
  BY StepTouches, Mine DEF SyncInv
<1>2. ASSUME NEW n \in Beans \ drift', \A a \in Clients : n \notin Touches(a)'
      PROVE  Synced(n)'
  <2>1. n \in Names
    BY NamesAssumption
  <2>2. CASE n \notin Touches(c)
    <3>1. n \notin drift
      BY <1>1, <1>2, <2>2, Healing, Mine
    <3>2. ASSUME NEW a \in Clients \ {c}, n \in Touches(a) PROVE FALSE
      <4>1. pc[a] # "idle"
        BY <3>2 DEF Touches
      <4>2. a \notin met'
        BY <1>1, <1>2, <3>2, <4>1, StaysInDrift
      <4> QED BY <1>1, <1>2, <3>2, <4>1, <4>2, Strangers
    <3>3. Synced(n)
      BY <1>1, <1>2, <2>2, <3>1, <3>2 DEF InSync, Synced
    <3> QED BY <1>1, <2>1, <2>2, <3>3, NameKept
  <2>3. CASE n \in Touches(c) /\ n # req[c].name
    <3>1. n \in drift
      BY <1>1, <2>3, Mine
    <3> QED BY <1>1, <1>2, <2>3, <3>1, Healing
  <2>4. CASE n = req[c].name
    <3>1. pc'[c] = "idle"
      <4>1. ASSUME pc'[c] # "idle" PROVE req'[c].name \in Touches(c)'
        BY <4>1 DEF Touches, NamesOf
      <4> QED BY <1>1, <1>2, <2>4, <4>1, StepTouches
    <3> QED BY <1>2, <2>4, <3>1, EndsInSync
  <2> QED BY <2>2, <2>3, <2>4
<1> QED BY <1>2 DEF InSync, Synced

\* Time takes a job only from a row whose cron it has taken.
LEMMA SyncTime ==
  ASSUME TypeInv, SyncInv, TimePasses
  PROVE  SyncInv'
<1>1. /\ UNCHANGED <<rows, nextId, interrupt, pc, req, restarts, up, drift, met>>
      /\ dead \subseteq dead'
      /\ \A n \in Names :
           \/ sched'[n] = sched[n]
           \/ sched'[n] = NoJob /\ ~sched[n].paused /\ sched[n].cron \in dead
  BY TimeAges DEF Ages
<1>2. /\ RowIds' = RowIds /\ \A n : RowsOf(n)' = RowsOf(n)
      /\ \A c : Touches(c)' = Touches(c)
  BY <1>1 DEF RowIds, RowsOf, Touches, NamesOf
<1>3. ASSUME NEW n \in Names
      PROVE  /\ ~Exists(n) => ~Exists(n)'
             /\ \A k : Serves(n, k) => Serves(n, k)'
             /\ \A k : sched[n] = [paused |-> TRUE, cron |-> k, data |-> k]
                       => sched'[n] = sched[n]
  <2>1. ~Exists(n) => ~Exists(n)'
    BY <1>1 DEF Exists
  <2>2. ASSUME NEW k, Serves(n, k) PROVE Serves(n, k)'
    BY <1>1, <2>1, <2>2 DEF Serves, Running, Exists
  <2> QED BY <1>1, <2>1, <2>2
<1>4. ASSUME NEW n \in Names, Synced(n) PROVE Synced(n)'
  <2>1. ASSUME NEW i \in RowsOf(n) PROVE Agrees(rows[i])'
    <3>1. /\ Agrees(rows[i]) /\ rows[i].name = n /\ rows' = rows
          /\ rows[i].status \in Status
      BY <1>1, <1>4, RowFacts DEF Synced, RowsOf, TypeInv
    <3>2. CASE rows[i].status = "NORMAL"
      <4>1. Serves(n, rows[i].cron)'
        BY <1>1, <1>3, <3>1, <3>2 DEF Agrees
      <4> QED BY <3>1, <3>2, <4>1 DEF Agrees
    <3>3. CASE rows[i].status # "NORMAL"
      BY <1>3, <3>1, <3>3 DEF Agrees, Exists, Status
    <3> QED BY <3>2, <3>3
  <2> QED BY <1>2, <1>3, <1>4, <2>1 DEF Synced
<1>5. MeetInv' /\ RowInv' /\ NamedInv'
  BY <1>1, <1>2 DEF SyncInv, MeetInv, RowInv, NamedInv, SameRow
<1>6. ASSUME NEW c \in Clients, pc[c] # "idle"
      PROVE  (Own(c) => Own(c)') /\ (Known(c) => Known(c)')
  <2>1. PICK n \in Names : n = req[c].name
    BY RequestFacts, <1>6 DEF TypeInv
  <2>2. Own(c) => Own(c)'
    BY <1>1, <1>2, <1>3, <2>1 DEF Own
  <2>3. req[c].cron \in Crons =>
          [Running(req[c].cron) EXCEPT !.paused = TRUE]
            = [paused |-> TRUE, cron |-> req[c].cron, data |-> req[c].cron]
    <3>1. ASSUME NEW k \in Crons
          PROVE  /\ Running(k) \in Job /\ Running(k).cron = k
                 /\ Running(k).data = k
      BY DEF Running, Job
    <3> QED BY <3>1, PauseAJob
  <2>4. req[c].op = "pause" => req[c].cron \in Crons
    BY <1>6, RequestFacts DEF TypeInv, PathInv
  <2>5. Known(c) => Known(c)'
    BY <1>1, <1>2, <1>3, <1>4, <2>1, <2>3, <2>4 DEF Known
  <2> QED BY <2>2, <2>5
<1>7. OwnInv' /\ StepInv'
  BY <1>1, <1>6 DEF SyncInv, OwnInv, StepInv
<1>8. InSync'
  BY <1>1, <1>2, <1>4, NamesAssumption DEF SyncInv, InSync, Synced
<1> QED BY <1>5, <1>7, <1>8 DEF SyncInv

LEMMA SyncNext == TypeInv /\ SyncInv /\ [Next]_vars => SyncInv'
<1> SUFFICES ASSUME TypeInv, SyncInv, [Next]_vars PROVE SyncInv'
  OBVIOUS
<1>1. ASSUME NEW c \in Clients, Receive(c) PROVE SyncInv'
  <2>1. PICK r, step, causes : Opening(c, r, step, causes)
    BY <1>1, Openings
  <2> QED BY <2>1, SyncBegin
<1>2. ASSUME NEW c \in Clients, Step(c) PROVE SyncInv'
  BY <1>2, MeetStep, RowStep, OwnStep, NamedStep, KnownStep, InSyncStep DEF SyncInv
<1>3. CASE UNCHANGED vars
  <2>1. /\ rows' = rows /\ nextId' = nextId /\ sched' = sched /\ pc' = pc
        /\ req' = req /\ up' = up /\ drift' = drift /\ met' = met
        /\ dead' = dead
    BY <1>3 DEF vars
  <2>2. /\ RowIds' = RowIds /\ \A n : RowsOf(n)' = RowsOf(n)
        /\ \A n : Exists(n)' <=> Exists(n)
        /\ \A n : Synced(n)' <=> Synced(n)
        /\ \A c : Touches(c)' = Touches(c)
    BY <2>1 DEF RowIds, RowsOf, Exists, Synced, Agrees, Serves, Touches, NamesOf
  <2>3. MeetInv' /\ RowInv' /\ NamedInv'
    BY <2>1, <2>2 DEF SyncInv, MeetInv, RowInv, NamedInv, SameRow
  <2>4. \A c \in Clients : (Own(c)' <=> Own(c)) /\ (Known(c)' <=> Known(c))
    BY <2>1, <2>2 DEF Own, Serves, Known
  <2>5. OwnInv' /\ StepInv'
    BY <2>1, <2>4 DEF SyncInv, OwnInv, StepInv
  <2>6. InSync'
    BY <2>1, <2>2 DEF SyncInv, InSync, Synced
  <2> QED BY <2>3, <2>5, <2>6 DEF SyncInv
<1> QED BY <1>1, <1>2, <1>3, SyncRestart, SyncTime DEF Next

\* Whatever requests overlap, fail or are cut short by a restart, the table and
\* the scheduler agree on every name to which none of the causes that InSync
\* names has happened, and an undisturbed updateCron or delete is the end of
\* any cause.
THEOREM StaysInSync == Safety => []InSync
<1>1. Init => TypeInv /\ SyncInv
  BY TypeInit, SyncInit
<1>2. TypeInv /\ SyncInv /\ [Next]_vars => (TypeInv /\ SyncInv)'
  BY TypeNext, SyncNext
<1>3. SyncInv => InSync
  BY DEF SyncInv
<1> QED BY <1>1, <1>2, <1>3, PTL DEF Safety
=============================================================================
