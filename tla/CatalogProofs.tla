----------------------------- MODULE CatalogProofs -----------------------------
(***************************************************************************)
(* Proofs about Catalog, for any number of request threads, any requests,  *)
(* any failures, any rows and any width of int.                            *)
(*                                                                         *)
(* The invariant has a part about the tables and a part about each thread. *)
(* Every step does one of four things to the tables: nothing, a row more,  *)
(* a row changed, or rows taken away with all that pointed at them;        *)
(* StoreStep says so once, and the lemmas about tables rest on it alone.   *)
(* To a thread that takes no step itself nothing happens, or it is not     *)
(* calm any more: Others and Outside say so, and OwnStep is left with the  *)
(* one thread that moves.                                                  *)
(*                                                                         *)
(* A second invariant, EchoInv, is about what the rows hold: it rests on   *)
(* the first, goes through the steps in the same way, and with it come the *)
(* rows clients are shown and the pages of the lists.                      *)
(***************************************************************************)
EXTENDS Catalog, DtosProofs, FiniteSetTheorems

Ops    == {"list", "get", "create", "update", "delete"}
Tables == Kinds \cup {"workflow"}

(* What the variables look like, as far as the proofs need it.             *)
StoreShape == DOMAIN rows = Tables /\ seq \in [Kinds -> Nat]
ThreadShape ==
    /\ offered \in Workloads
    /\ DOMAIN pc = Threads /\ DOMAIN req = Threads /\ DOMAIN loc = Threads
    /\ DOMAIN reply = Threads /\ DOMAIN note = Threads
    /\ \A t \in Threads :
          /\ DOMAIN loc[t] = {"id", "total"}
          /\ DOMAIN reply[t] = {"code", "id", "json", "ids", "total"}
          /\ DOMAIN note[t] = {"calm", "mine", "was", "counted", "fresh", "spilled"}
          /\ note[t].calm \in BOOLEAN /\ note[t].counted \in BOOLEAN

(* Which request comes to which call.                                      *)
CallOf(r, call) ==
    CASE call = "findById"      -> r.op \in {"get", "create", "update"}
      [] call = "count"         -> r.op = "list"
      [] call = "select"        -> r.op = "list"
      [] call = "existsByLogin" -> r.op = "create" /\ r.kind = "user"
      [] call = "insert"        -> r.op = "create"
      [] call = "lastInsertId"  -> r.op = "create"
      [] call = "exists"        -> r.op \in {"update", "delete"} /\ r.kind # "user"
      [] call = "update"        -> r.op = "update"
      [] call = "archive"       -> r.op = "delete" /\ r.kind \in {"project", "phase"}
      [] call = "usageCount"    -> r.op = "delete" /\ r.kind \in {"itemType", "fieldType"}
      [] call = "remove"        -> r.op = "delete" /\ r.kind \in {"itemType", "fieldType", "user"}
      [] call = "answer"        -> TRUE
      [] OTHER                  -> FALSE

Routed ==
    \A t \in Threads :
        pc[t] # "idle" =>
            /\ req[t].kind \in Kinds /\ req[t].op \in Ops
            /\ CallOf(req[t], pc[t])
            /\ pc[t] # "answer" /\ req[t].op \notin {"create", "list"} =>
                  req[t].id \in Nat /\ req[t].id # 0

(* Identifiers come from the sequence, and those of told rows stay behind. *)
Numbered == \A k \in Kinds : \A i \in DOMAIN rows[k] : i \in 1 .. seq[k]
ToldGone ==
    \A d \in told : /\ d[1] \in Kinds /\ d[2] \in Int /\ d[2] <= seq[d[1]]
                    /\ d[2] \notin DOMAIN rows[d[1]]

(* Rows have the columns of their table.                                   *)
Columned == \A k \in Kinds : \A i \in DOMAIN rows[k] : DOMAIN rows[k][i] = Table[k].columns

(* Once usageCount() has found nothing, what points at the row to be       *)
(* deleted has come since.                                                 *)
Left(t) == Dependents(req[t].kind, req[t].id, rows["fieldType"], used)
Spared(t) ==
    /\ note[t].counted =>
          /\ pc[t] \in {"remove", "answer"} /\ req[t].op = "delete"
          /\ req[t].kind \in {"itemType", "fieldType"}
          /\ note[t].spilled \subseteq note[t].fresh
    /\ pc[t] # "answer" => note[t].spilled = {}
    /\ note[t].counted /\ pc[t] = "remove" => Left(t) \subseteq note[t].fresh

(* The row a thread has written, from its statement to its answer.         *)
Minded(t) ==
    LET mine == note[t].mine
    IN  /\ pc[t] \in {"count", "select", "existsByLogin", "insert", "exists", "update", "archive",
                      "usageCount", "remove"} => mine = 0
        /\ pc[t] = "findById" /\ req[t].op = "get" => mine = 0
        /\ pc[t] = "findById" /\ req[t].op = "update" => mine # 0 /\ mine = req[t].id
        /\ pc[t] = "findById" /\ req[t].op = "create" =>
              mine # 0 /\ (note[t].calm => loc[t].id = mine)
        /\ pc[t] = "lastInsertId" => mine # 0 /\ (note[t].calm => last = mine)
        /\ pc[t] \in {"lastInsertId", "findById"} /\ req[t].op # "get" /\ note[t].calm =>
              mine \in DOMAIN rows[req[t].kind]

(* What AnswersTrue says of one thread.                                    *)
AnswerTrue(t) ==
    LET k       == req[t].kind
        mine    == note[t].mine
        success == reply[t].code \in {201, 204} \/ (reply[t].code = 200 /\ req[t].op = "update")
    IN  pc[t] = "answer" =>
            /\ success => mine # 0
            /\ (reply[t].code >= 400 /\ note[t].calm /\ mine # 0) =>
                  mine \in DOMAIN rows[k] /\ ~Readable(k, rows[k][mine])
            /\ (reply[t].code = 201 /\ note[t].calm) => reply[t].id = mine

IInv ==
    /\ StoreShape /\ ThreadShape /\ Routed /\ Numbered /\ ToldGone /\ Columned /\ Sound(rows)
    /\ Points(used)
    /\ \A t \in Threads : Spared(t) /\ Minded(t) /\ AnswerTrue(t)

LEMMA CallKinds ==
    ASSUME NEW k \in Kinds
    PROVE  /\ Calls[k].list = "count" /\ Calls[k].get = "findById"
           /\ Calls[k].create = IF k = "user" THEN "existsByLogin" ELSE "insert"
           /\ Calls[k].update = IF k = "user" THEN "update" ELSE "exists"
           /\ Calls[k].delete = IF k = "user" THEN "remove" ELSE "exists"
           /\ Calls[k].drop = IF k \in {"project", "phase"} THEN "archive"
                              ELSE IF k = "user" THEN "remove" ELSE "usageCount"
BY DEF Kinds, Calls, ProjectCalls, PhaseCalls, ItemTypeCalls, FieldTypeCalls, UserCalls

LEMMA CallPicked ==
    ASSUME NEW r, r.kind \in Kinds, r.op \in Ops
    PROVE  /\ Calls[r.kind][r.op] \in {"count", "findById", "existsByLogin", "insert", "update",
                                       "remove", "exists"}
           /\ CallOf(r, Calls[r.kind][r.op])
BY CallKinds DEF Ops, Kinds, CallOf

--------------------------------------------------------------------------------
(* What a step does to the tables and to told.                             *)
Same  == rows' = rows /\ seq' = seq /\ told' = told
Grown(k, id, row) ==
    /\ DOMAIN rows' = Tables /\ DOMAIN rows'[k] = DOMAIN rows[k] \cup {id}
    /\ rows'[k][id] = row /\ \A i \in DOMAIN rows[k] : i # id => rows'[k][i] = rows[k][i]
    /\ \A j \in Tables : j # k => rows'[j] = rows[j]
    /\ seq' \in [Kinds -> Nat] /\ seq'[k] = id
    /\ \A j \in Kinds : j # k => seq'[j] = seq[j]
    /\ told' = told
Edited(k, id, row) ==
    /\ DOMAIN rows' = Tables /\ \A j \in Tables : DOMAIN rows'[j] = DOMAIN rows[j]
    /\ rows'[k][id] = row /\ \A i \in DOMAIN rows[k] : i # id => rows'[k][i] = rows[k][i]
    /\ \A j \in Tables : j # k => rows'[j] = rows[j]
    /\ seq' = seq /\ told' = told
Shrunk ==
    /\ DOMAIN rows' = Tables
    /\ \A k \in Tables : \A i \in DOMAIN rows'[k] : i \in DOMAIN rows[k] /\ rows'[k][i] = rows[k][i]
    /\ seq' = seq
    /\ \A d \in told' : d \in told \/ (d[1] \in Kinds /\ d[2] \in DOMAIN rows[d[1]]
                                      /\ d[2] \notin DOMAIN rows'[d[1]])
    /\ \A k \in Kinds : \A i \in DOMAIN rows'[k] : \A c \in DOMAIN Table[k].refers :
          rows[k][i][c] \in DOMAIN rows[Table[k].refers[c]] =>
              rows[k][i][c] \in DOMAIN rows'[Table[k].refers[c]]

(* What the schemas say.                                                   *)
LEMMA Schemas ==
    /\ \A k \in Kinds : \A c \in DOMAIN Table[k].refers :
          c \in Table[k].columns /\ c # "isArchive" /\ Table[k].refers[c] \in Tables
    /\ \A c \in DOMAIN Table["project"].refers : Table["project"].refers[c] = "project"
    /\ \A c \in DOMAIN Table["phase"].refers : Table["phase"].refers[c] = "project"
    /\ \A c \in DOMAIN Table["itemType"].refers :
          c = "workflowId" /\ Table["itemType"].refers[c] = "workflow"
    /\ \A c \in DOMAIN Table["fieldType"].refers :
          c = "itemTypeId" /\ Table["fieldType"].refers[c] = "itemType"
    /\ DOMAIN Table["user"].refers = {}
    /\ Table["project"].unique = {} /\ Table["phase"].unique = {}
BY DEF Kinds, Tables, Table, ProjectTable, PhaseTable, ItemTypeTable, FieldTypeTable, UserTable

LEMMA RowColumns ==
    ASSUME NEW k \in Kinds, NEW b
    PROVE  DOMAIN RowOf(k, b) = Table[k].columns
<1>1. CASE k = "project"
  BY <1>1 DEF RowOf, ProjectRow, Table, ProjectTable
<1>2. CASE k = "phase"
  BY <1>2 DEF RowOf, PhaseRow, Table, PhaseTable
<1>3. CASE k = "itemType"
  BY <1>3 DEF RowOf, ItemTypeRow, Table, ItemTypeTable
<1>4. CASE k = "fieldType"
  BY <1>4 DEF RowOf, FieldTypeRow, Table, FieldTypeTable
<1>5. CASE k = "user"
  BY <1>5 DEF RowOf, UserRow, Table, UserTable
<1>6. QED
  BY <1>1, <1>2, <1>3, <1>4, <1>5 DEF Kinds

LEMMA InsertGrows ==
    ASSUME StoreShape, Routed, NEW t \in Threads, Insert(t), ~(Throw(t) /\ Calm)
    PROVE  LET k   == req[t].kind
               id  == seq[k] + 1
               row == RowOf(k, Body(req[t]))
           IN  /\ k \in Kinds /\ Constraints(k, id, row) /\ DOMAIN row = Table[k].columns
               /\ Grown(k, id, row)
<1> DEFINE k   == req[t].kind
           id  == seq[k] + 1
           row == RowOf(k, Body(req[t]))
<1>1. k \in Kinds /\ k \in DOMAIN rows /\ k \in Tables
  BY DEF StoreShape, Routed, Insert, Tables
<1>2. /\ Constraints(k, id, row) /\ rows' = [rows EXCEPT ![k] = Put(rows[k], id, row)]
      /\ seq' = [seq EXCEPT ![k] = id] /\ told' = told
  BY DEF Insert, NextId, Continue, Goto
<1> HIDE DEF row
<1>3. DOMAIN rows' = Tables /\ rows'[k] = Put(rows[k], id, row)
  BY <1>1, <1>2 DEF StoreShape
<1>4. \A j \in Tables : j # k => rows'[j] = rows[j]
  BY <1>1, <1>2 DEF StoreShape
<1>5. /\ seq' \in [Kinds -> Nat] /\ seq'[k] = id
      /\ \A j \in Kinds : j # k => seq'[j] = seq[j]
  <2>1. id \in Nat
    BY <1>1 DEF StoreShape
  <2> HIDE DEF id
  <2>2. QED
    BY <1>1, <1>2, <2>1 DEF StoreShape
<1>6. /\ DOMAIN rows'[k] = DOMAIN rows[k] \cup {id} /\ rows'[k][id] = row
      /\ \A i \in DOMAIN rows[k] : i # id => rows'[k][i] = rows[k][i]
  BY <1>3 DEF Put
<1>7. DOMAIN row = Table[k].columns
  BY <1>1, RowColumns DEF row
<1>8. QED
  BY <1>1, <1>2, <1>3, <1>4, <1>5, <1>6, <1>7 DEF Grown, row

(* UPDATE, of a body's columns or of isArchive.                            *)
LEMMA Editing ==
    ASSUME StoreShape, NEW k \in Kinds, NEW id \in DOMAIN rows[k], NEW row,
           rows' = [rows EXCEPT ![k][id] = row], seq' = seq, told' = told
    PROVE  Edited(k, id, row)
<1>1. k \in DOMAIN rows /\ k \in Tables
  BY DEF StoreShape, Tables
<1>2. rows'[k] = [rows[k] EXCEPT ![id] = row]
  BY <1>1
<1>3. DOMAIN rows' = Tables /\ \A j \in Tables : j # k => rows'[j] = rows[j]
  BY <1>1 DEF StoreShape
<1>4. DOMAIN rows'[k] = DOMAIN rows[k] /\ rows'[k][id] = row
      /\ \A i \in DOMAIN rows[k] : i # id => rows'[k][i] = rows[k][i]
  BY <1>2
<1>5. QED
  BY <1>1, <1>3, <1>4 DEF Edited

LEMMA UpdateEdits ==
    ASSUME StoreShape, Routed, NEW t \in Threads, Update(t), ~(Refuse(t) /\ Calm)
    PROVE  LET k   == req[t].kind
               id  == req[t].id
               row == Updated(k, rows[k][id], Body(req[t]))
           IN  /\ k \in Kinds /\ id \in DOMAIN rows[k] /\ Constraints(k, id, row)
               /\ DOMAIN row = DOMAIN rows[k][id] /\ Edited(k, id, row)
<1> DEFINE k   == req[t].kind
           id  == req[t].id
           row == Updated(k, rows[k][id], Body(req[t]))
<1>1. k \in Kinds /\ id \in DOMAIN rows[k] /\ Constraints(k, id, row)
  BY DEF Routed, Update
<1>2. rows' = [rows EXCEPT ![k][id] = row] /\ seq' = seq /\ told' = told
  BY DEF Update, Continue, Goto
<1>3. DOMAIN row = DOMAIN rows[k][id]
  BY DEF Updated
<1> HIDE DEF row
<1>4. QED
  BY <1>1, <1>2, <1>3, Editing DEF row

LEMMA ArchiveEdits ==
    ASSUME StoreShape, Routed, NEW t \in Threads, Archive(t), ~(Refuse(t) /\ Calm)
    PROVE  LET k   == req[t].kind
               id  == req[t].id
           IN  /\ k \in {"project", "phase"} /\ id \in DOMAIN rows[k]
               /\ Edited(k, id, [rows[k][id] EXCEPT !.isArchive = TRUE])
<1> DEFINE k   == req[t].kind
           id  == req[t].id
           row == [rows[k][id] EXCEPT !.isArchive = TRUE]
<1>1. k \in {"project", "phase"} /\ id \in DOMAIN rows[k]
  BY DEF Routed, Archive, CallOf
<1>2. rows' = [rows EXCEPT ![k][id] = row] /\ seq' = seq /\ told' = told
  BY DEF Archive, Answer
<1> HIDE DEF row
<1>3. QED
  BY <1>1, <1>2, Editing DEF row, Kinds

LEMMA Deleting ==
    ASSUME StoreShape, NEW types, NEW fields, NEW users, Delete(types, fields, users)
    PROVE  /\ DOMAIN rows' = Tables
           /\ DOMAIN rows'["itemType"] = DOMAIN rows["itemType"] \ types
           /\ DOMAIN rows'["fieldType"] = DOMAIN rows["fieldType"] \ (fields \cup FieldsOf(types))
           /\ DOMAIN rows'["user"] = DOMAIN rows["user"] \ users
           /\ \A k \in Tables : \A i \in DOMAIN rows'[k] :
                 i \in DOMAIN rows[k] /\ rows'[k][i] = rows[k][i]
           /\ \A k \in Tables : k \notin {"itemType", "fieldType", "user"} => rows'[k] = rows[k]
BY DEF StoreShape, Delete, Without, Tables, Kinds

LEMMA RemoveShrinks ==
    ASSUME StoreShape, Routed, NEW t \in Threads, Remove(t), ~(Refuse(t) /\ Calm)
    PROVE  Shrunk
<1> DEFINE k  == req[t].kind
           id == req[t].id
           Of(table) == IF k = table THEN {id} ELSE {}
<1>1. k \in {"itemType", "fieldType", "user"} /\ id \in DOMAIN rows[k]
  BY DEF Routed, Remove, CallOf
<1>2. /\ Delete(Of("itemType"), Of("fieldType"), Of("user")) /\ seq' = seq
      /\ told' = told \cup {<<k, id>>}
  BY DEF Remove
<1>3. id \notin DOMAIN rows'[k]
  BY <1>1, <1>2, Deleting
<1>4. ASSUME NEW j \in Kinds, NEW i \in DOMAIN rows'[j], NEW c \in DOMAIN Table[j].refers,
             rows[j][i][c] \in DOMAIN rows[Table[j].refers[c]]
      PROVE  rows[j][i][c] \in DOMAIN rows'[Table[j].refers[c]]
  BY <1>1, <1>2, <1>4, Deleting, Schemas DEF Kinds, Tables, FieldsOf
<1>5. QED
  BY <1>1, <1>2, <1>3, <1>4, Deleting DEF Shrunk, Kinds

LEMMA WorkflowShrinks ==
    ASSUME StoreShape, NEW w \in Ids, DropWorkflow(w)
    PROVE  Shrunk
<1> DEFINE types  == {i \in DOMAIN rows["itemType"] : rows["itemType"][i].workflowId = w}
           fields == FieldsOf(types)
<1>1. /\ DOMAIN rows' = Tables /\ seq' = seq /\ told' = told
      /\ rows'["workflow"] = Without("workflow", {w})
      /\ rows'["itemType"] = Without("itemType", types)
      /\ rows'["fieldType"] = Without("fieldType", fields)
      /\ \A k \in Tables : k \notin {"workflow", "itemType", "fieldType"} => rows'[k] = rows[k]
  BY DEF StoreShape, DropWorkflow, Elsewhere, Tables, Kinds
<1>2. ASSUME NEW k \in Tables, NEW i \in DOMAIN rows'[k]
      PROVE  i \in DOMAIN rows[k] /\ rows'[k][i] = rows[k][i]
  <2>1. CASE k \notin {"workflow", "itemType", "fieldType"}
    BY <1>1, <2>1
  <2>2. CASE k \in {"workflow", "itemType", "fieldType"}
    <3>1. PICK gone : rows'[k] = Without(k, gone)
      BY <1>1, <2>2
    <3>2. QED
      BY <3>1 DEF Without
  <2>3. QED
    BY <2>1, <2>2
<1>3. /\ DOMAIN rows'["workflow"] = DOMAIN rows["workflow"] \ {w}
      /\ DOMAIN rows'["itemType"] = DOMAIN rows["itemType"] \ types
      /\ DOMAIN rows'["fieldType"] = DOMAIN rows["fieldType"] \ fields
  BY <1>1 DEF Without
<1>4. ASSUME NEW j \in Kinds, NEW i \in DOMAIN rows'[j], NEW c \in DOMAIN Table[j].refers,
             rows[j][i][c] \in DOMAIN rows[Table[j].refers[c]]
      PROVE  rows[j][i][c] \in DOMAIN rows'[Table[j].refers[c]]
  BY <1>1, <1>3, <1>4, Schemas DEF Kinds, Tables, FieldsOf
<1>5. QED
  BY <1>1, <1>2, <1>4 DEF Shrunk

(* Only create(), update() and the DELETE of an archive write rows.        *)
LEMMA FewerOrSame ==
    ASSUME StoreShape, Routed, Next
    PROVE  \/ Same \/ Shrunk
           \/ \E t \in Threads : Insert(t) \/ Update(t) \/ Archive(t)
<1> USE DEF storeVars
<1>1. ASSUME NEW t \in Threads, Throw(t) \/ Refuse(t)
      PROVE  Same
  BY <1>1 DEF Throw, Refuse, Answer, Same
<1>2. ASSUME NEW t \in Threads, (\E r \in offered : Receive(t, r)) \/ Respond(t) \/ FindById(t)
                                \/ Count(t) \/ Select(t) \/ LastInsertId(t)
      PROVE  Same
  BY <1>1, <1>2 DEF Receive, Respond, FindById, Count, Select, LastInsertId, Goto, Same
<1>3. ASSUME NEW t \in Threads, CallFails(t) \/ CallFailsQuietly(t) \/ ExistsByLogin(t)
                                \/ Exists(t) \/ UsageCount(t)
      PROVE  Same
  BY <1>1, <1>3 DEF CallFails, CallFailsQuietly, ExistsByLogin, Exists, UsageCount, Continue, Goto,
                    Same
<1>4. ASSUME NEW t \in Threads, Remove(t)
      PROVE  Same \/ Shrunk
  BY <1>1, <1>4, RemoveShrinks
<1>5. ASSUME NEW table, NEW k, NEW id, Use(table, k, id)
      PROVE  Same
  BY <1>5 DEF Use, Elsewhere, Same
<1>6. QED
  BY <1>2, <1>3, <1>4, <1>5, WorkflowShrinks DEF Next, Step

LEMMA StoreStep ==
    ASSUME StoreShape, Routed, Next
    PROVE  \/ Same \/ Shrunk
           \/ \E k \in Kinds : \E row :
                 /\ Constraints(k, seq[k] + 1, row) /\ DOMAIN row = Table[k].columns
                 /\ Grown(k, seq[k] + 1, row)
           \/ \E k \in Kinds : \E row : \E id \in DOMAIN rows[k] :
                 /\ Edited(k, id, row)
                 /\ DOMAIN row = DOMAIN rows[k][id]
                 /\ \/ Constraints(k, id, row)
                    \/ k \in {"project", "phase"} /\ row = [rows[k][id] EXCEPT !.isArchive = TRUE]
<1> USE DEF storeVars
<1>1. ASSUME NEW t \in Threads, Throw(t) \/ Refuse(t)
      PROVE  Same
  BY <1>1 DEF Throw, Refuse, Answer, Same
<1>2. ASSUME NEW t \in Threads, Insert(t)
      PROVE  \/ Same
             \/ \E k \in Kinds : \E row :
                   /\ Constraints(k, seq[k] + 1, row) /\ DOMAIN row = Table[k].columns
                   /\ Grown(k, seq[k] + 1, row)
  BY <1>1, <1>2, InsertGrows
<1>3. ASSUME NEW t \in Threads, Update(t) \/ Archive(t)
      PROVE  \/ Same
             \/ \E k \in Kinds : \E row : \E id \in DOMAIN rows[k] :
                   /\ Edited(k, id, row)
                   /\ DOMAIN row = DOMAIN rows[k][id]
                   /\ \/ Constraints(k, id, row)
                      \/ k \in {"project", "phase"} /\ row = [rows[k][id] EXCEPT !.isArchive = TRUE]
  BY <1>1, <1>3, UpdateEdits, ArchiveEdits DEF Kinds
<1>4. QED
  BY <1>2, <1>3, FewerOrSame

LEMMA StoreShapeStep == ASSUME IInv, Next PROVE StoreShape'
BY StoreStep DEF IInv, StoreShape, Same, Shrunk, Grown, Edited

LEMMA ColumnedStep == ASSUME IInv, Next PROVE Columned'
BY StoreStep DEF IInv, StoreShape, Columned, Same, Shrunk, Grown, Edited, Tables

(* The constraints of the schema, checked on the row that is written and   *)
(* on no other, keep the tables sound.                                     *)
LEMMA SoundStep == ASSUME IInv, Next PROVE Sound(rows)'
<1>1. StoreShape /\ Columned /\ Sound(rows) /\ Routed
  BY DEF IInv
<1>2. CASE Same
  BY <1>1, <1>2 DEF Same, Sound
<1>3. CASE Shrunk
  BY <1>1, <1>3 DEF Shrunk, Sound, Tables
<1>4. ASSUME NEW k \in Kinds, NEW row, NEW id,
             Constraints(k, id, row), Grown(k, id, row) \/ (id \in DOMAIN rows[k] /\ Edited(k, id, row))
      PROVE  Sound(rows)'
  <2>1. /\ DOMAIN rows'[k] = DOMAIN rows[k] \cup {id} /\ rows'[k][id] = row
        /\ \A i \in DOMAIN rows[k] : i # id => rows'[k][i] = rows[k][i]
        /\ \A j \in Tables : j # k => rows'[j] = rows[j]
    BY <1>4 DEF Grown, Edited, Tables
  <2>2. \A j \in Tables : \A i \in DOMAIN rows[j] : i \in DOMAIN rows'[j]
    BY <2>1
  <2>3. ASSUME NEW j \in Kinds, NEW i \in DOMAIN rows'[j], NEW c \in DOMAIN Table[j].refers
        PROVE  rows'[j][i][c] \in DOMAIN rows'[Table[j].refers[c]] \cup {Absent}
    <3>1. Table[j].refers[c] \in Tables /\ j \in Tables
      BY Schemas DEF Tables
    <3>2. CASE j = k /\ i = id
      BY <1>4, <2>1, <2>2, <3>1, <3>2 DEF Constraints
    <3>3. CASE ~(j = k /\ i = id)
      <4>1. i \in DOMAIN rows[j] /\ rows'[j][i] = rows[j][i]
        BY <2>1, <3>1, <3>3
      <4>2. rows[j][i][c] \in DOMAIN rows[Table[j].refers[c]] \cup {Absent}
        BY <1>1, <4>1 DEF Sound
      <4>3. QED
        BY <2>2, <3>1, <4>1, <4>2
    <3>4. QED
      BY <3>2, <3>3
  <2>4. ASSUME NEW j \in Kinds, NEW i \in DOMAIN rows'[j], NEW h \in DOMAIN rows'[j] \ {i},
               NEW c \in Table[j].unique
        PROVE  rows'[j][i][c] # rows'[j][h][c]
    <3>1. j \in Tables
      BY DEF Tables
    <3>2. CASE j = k /\ (i = id \/ h = id)
      BY <1>4, <2>1, <3>2 DEF Constraints
    <3>3. CASE ~(j = k /\ (i = id \/ h = id))
      BY <1>1, <2>1, <3>1, <3>3 DEF Sound
    <3>4. QED
      BY <3>2, <3>3
  <2>5. QED
    BY <2>3, <2>4 DEF Sound
<1>5. ASSUME NEW k \in {"project", "phase"}, NEW id \in DOMAIN rows[k],
             Edited(k, id, [rows[k][id] EXCEPT !.isArchive = TRUE])
      PROVE  Sound(rows)'
  <2> DEFINE row == [rows[k][id] EXCEPT !.isArchive = TRUE]
  <2>1. k \in Kinds /\ DOMAIN rows[k][id] = Table[k].columns
    BY <1>1 DEF Columned, Kinds
  <2>2. \A c \in DOMAIN Table[k].refers : row[c] = rows[k][id][c]
    BY <2>1, Schemas
  <2>3. Constraints(k, id, row)
    <3> HIDE DEF row
    <3>1. \A c \in DOMAIN Table[k].refers :
             rows[k][id][c] \in DOMAIN rows[Table[k].refers[c]] \cup {Absent}
      BY <1>1, <2>1 DEF Sound
    <3>2. Table[k].unique = {}
      BY Schemas
    <3>3. QED
      BY <2>2, <3>1, <3>2 DEF Constraints
  <2> HIDE DEF row
  <2>4. Edited(k, id, row)
    BY <1>5 DEF row
  <2>5. QED
    BY <1>4, <2>1, <2>3, <2>4
<1>6. QED
  BY <1>1, <1>2, <1>3, <1>4, <1>5, StoreStep

LEMMA NumberedStep == ASSUME IInv, Next PROVE Numbered'
BY StoreStep DEF IInv, StoreShape, Numbered, Same, Shrunk, Grown, Edited, Tables

LEMMA ToldGoneStep == ASSUME IInv, Next PROVE ToldGone'
BY StoreStep DEF IInv, StoreShape, Numbered, ToldGone, Same, Shrunk, Grown, Edited, Tables

--------------------------------------------------------------------------------
(* The threads.                                                            *)
LEMMA Overtaking ==
    ASSUME ThreadShape, NEW u \in Threads, note'[u] = Overtaken(u)
    PROVE  /\ DOMAIN note'[u] = {"calm", "mine", "was", "counted", "fresh", "spilled"}
           /\ note'[u].calm = FALSE /\ note'[u].counted \in BOOLEAN
           /\ note'[u].mine = note[u].mine /\ note'[u].was = note[u].was
           /\ note'[u].counted = note[u].counted /\ note'[u].spilled = note[u].spilled
           /\ note'[u].fresh = note[u].fresh \cup Appeared(u)
BY DEF ThreadShape, Overtaken

LEMMA Disturbing ==
    ASSUME ThreadShape, NEW t \in Threads, NEW mine, NEW was, NEW spilled,
           Disturb(t, mine, was, spilled)
    PROVE  /\ DOMAIN note' = Threads
           /\ \A u \in Threads :
                 /\ DOMAIN note'[u] = {"calm", "mine", "was", "counted", "fresh", "spilled"}
                 /\ note'[u].calm \in BOOLEAN /\ note'[u].counted \in BOOLEAN
           /\ note'[t].calm = note[t].calm /\ note'[t].mine = mine
           /\ note'[t].was = was /\ note'[t].spilled = spilled
           /\ note'[t].counted = note[t].counted /\ note'[t].fresh = note[t].fresh
           /\ \A u \in Threads : u # t =>
                 ~note'[u].calm /\ note'[u].mine = note[u].mine /\ note'[u] = Overtaken(u)
<1>1. /\ DOMAIN note' = Threads
      /\ \A u \in Threads : u # t => note'[u] = Overtaken(u)
      /\ note'[t] = [note[t] EXCEPT !.mine = mine, !.was = was, !.spilled = spilled]
  BY DEF Disturb
<1>2. \A u \in Threads : u # t =>
         /\ DOMAIN note'[u] = {"calm", "mine", "was", "counted", "fresh", "spilled"}
         /\ note'[u].calm = FALSE /\ note'[u].counted \in BOOLEAN /\ note'[u].mine = note[u].mine
  BY <1>1, Overtaking
<1>3. /\ DOMAIN note'[t] = {"calm", "mine", "was", "counted", "fresh", "spilled"}
      /\ note'[t].calm \in BOOLEAN /\ note'[t].counted \in BOOLEAN
      /\ note'[t].calm = note[t].calm /\ note'[t].mine = mine
      /\ note'[t].was = was /\ note'[t].spilled = spilled
      /\ note'[t].counted = note[t].counted /\ note'[t].fresh = note[t].fresh
  BY <1>1 DEF ThreadShape
<1>4. QED
  BY <1>1, <1>2, <1>3

LEMMA OutsideShape ==
    ASSUME ThreadShape, Elsewhere
    PROVE  ThreadShape'
<1>1. DOMAIN note' = Threads /\ \A u \in Threads : note'[u] = Overtaken(u)
  BY DEF Elsewhere
<1>2. \A u \in Threads : /\ DOMAIN note'[u] = {"calm", "mine", "was", "counted", "fresh", "spilled"}
                         /\ note'[u].calm \in BOOLEAN /\ note'[u].counted \in BOOLEAN
  BY <1>1, Overtaking
<1>3. QED
  BY <1>1, <1>2 DEF ThreadShape, Elsewhere

LEMMA ThreadShapeStep == ASSUME IInv, Next PROVE ThreadShape'
<1> USE DEF IInv, ThreadShape, NoReply, NoNote, NoLocals, Goto, Send
<1>1. ASSUME NEW t \in Threads, NEW offer \in Workloads, NEW r \in offer, Receive(t, r)
      PROVE  ThreadShape'
  BY <1>1, WorkloadsAssumption DEF Receive
<1>2. ASSUME NEW t \in Threads, Respond(t)
      PROVE  ThreadShape'
  BY <1>2 DEF Respond
<1>3. ASSUME NEW t \in Threads, CallFails(t)
      PROVE  ThreadShape'
  BY <1>3 DEF CallFails, Throw, Answer
<1>4. ASSUME NEW t \in Threads, CallFailsQuietly(t)
      PROVE  ThreadShape'
  BY <1>4 DEF CallFailsQuietly, Continue, Refuse, Answer
<1>5. ASSUME NEW t \in Threads, FindById(t)
      PROVE  ThreadShape'
  BY <1>5 DEF FindById, Refuse, Throw, Answer, Calm
<1>6. ASSUME NEW t \in Threads, Count(t)
      PROVE  ThreadShape'
  BY <1>6 DEF Count, Calm
<1>7. ASSUME NEW t \in Threads, Select(t)
      PROVE  ThreadShape'
  BY <1>7 DEF Select, Throw, Answer, Calm
<1>8. ASSUME NEW t \in Threads, ExistsByLogin(t)
      PROVE  ThreadShape'
  BY <1>8 DEF ExistsByLogin, Refuse, Answer, Continue, Calm
<1>9. ASSUME NEW t \in Threads, Insert(t)
      PROVE  ThreadShape'
  <2>1. \/ Throw(t) /\ Calm
        \/ Continue(t, "lastInsertId") /\ \E id : Disturb(t, id, << >>, {})
    BY <1>9 DEF Insert
  <2>2. QED
    BY <1>9, <2>1, Disturbing DEF Throw, Answer, Calm, Continue
<1>10. ASSUME NEW t \in Threads, LastInsertId(t)
      PROVE  ThreadShape'
  BY <1>10 DEF LastInsertId, Calm
<1>11. ASSUME NEW t \in Threads, Exists(t)
      PROVE  ThreadShape'
  BY <1>11 DEF Exists, Continue, Refuse, Answer, Calm
<1>12. ASSUME NEW t \in Threads, Update(t)
      PROVE  ThreadShape'
  <2>1. \/ Refuse(t) /\ Calm
        \/ Continue(t, "findById") /\ \E id, was : Disturb(t, id, was, {})
    BY <1>12 DEF Update
  <2>2. QED
    BY <1>12, <2>1, Disturbing DEF Refuse, Answer, Calm, Continue
<1>13. ASSUME NEW t \in Threads, Archive(t)
      PROVE  ThreadShape'
  <2>1. \/ Refuse(t) /\ Calm
        \/ Answer(t, 204) /\ \E id, was : Disturb(t, id, was, {})
    BY <1>13 DEF Archive
  <2>2. QED
    BY <1>13, <2>1, Disturbing DEF Refuse, Answer, Calm
<1>14. ASSUME NEW t \in Threads, UsageCount(t)
      PROVE  ThreadShape'
  BY <1>14 DEF UsageCount, Refuse, Answer, Continue, Calm
<1>15. ASSUME NEW t \in Threads, Remove(t)
      PROVE  ThreadShape'
  <2>1. \/ Refuse(t) /\ Calm
        \/ Send(t, [NoReply EXCEPT !.code = 204]) /\ \E id, b : Disturb(t, id, << >>, b)
    BY <1>15 DEF Remove
  <2>2. QED
    BY <1>15, <2>1, Disturbing DEF Refuse, Answer, Calm
<1>16. ASSUME NEW w \in Ids, DropWorkflow(w)
      PROVE  ThreadShape'
  BY <1>16, OutsideShape DEF DropWorkflow
<1>17. ASSUME NEW table, NEW k, NEW id, Use(table, k, id)
      PROVE  ThreadShape'
  BY <1>17, OutsideShape DEF Use
<1>18. QED
  BY <1>1, <1>2, <1>3, <1>4, <1>5, <1>6, <1>7, <1>8, <1>9, <1>10, <1>11, <1>12, <1>13, <1>14, <1>15,
     <1>16, <1>17
  DEF Next, Step, IInv, ThreadShape

LEMMA RoutedStep == ASSUME IInv, Next PROVE Routed'
<1> USE DEF IInv, ThreadShape, Routed, CallOf, Goto, Send
<1>1. ASSUME NEW t \in Threads, NEW offer \in Workloads, NEW r \in offer, Receive(t, r)
      PROVE  Routed'
  <2>1. r.kind \in Kinds /\ r.op \in Ops /\ r.id \in Nat \cup {Broken}
    BY WorkloadsAssumption DEF Ops
  <2>2. /\ req' = [req EXCEPT ![t] = r]
        /\ \/ pc' = [pc EXCEPT ![t] = "answer"]
           \/ pc' = [pc EXCEPT ![t] = Calls[r.kind][r.op]] /\ Rejection(r) = 0
    BY <1>1 DEF Receive
  <2>3. Rejection(r) = 0 /\ r.op \notin {"create", "list"} => r.id # Broken /\ r.id # 0
    BY DEF Rejection
  <2> HIDE DEF CallOf
  <2>4. QED
    BY <2>1, <2>2, <2>3, CallPicked DEF CallOf
<1>2. ASSUME NEW t \in Threads, Respond(t)
      PROVE  Routed'
  BY <1>2 DEF Respond
<1>3. ASSUME NEW t \in Threads, CallFails(t)
      PROVE  Routed'
  BY <1>3 DEF CallFails, Throw, Answer
<1>4. ASSUME NEW t \in Threads, CallFailsQuietly(t)
      PROVE  Routed'
  BY <1>4 DEF CallFailsQuietly, Continue, Refuse, Answer
<1>5. ASSUME NEW t \in Threads, FindById(t)
      PROVE  Routed'
  BY <1>5 DEF FindById, Refuse, Throw, Answer, Calm
<1>6. ASSUME NEW t \in Threads, Count(t)
      PROVE  Routed'
  BY <1>6 DEF Count, Calm
<1>7. ASSUME NEW t \in Threads, Select(t)
      PROVE  Routed'
  BY <1>7 DEF Select, Throw, Answer, Calm
<1>8. ASSUME NEW t \in Threads, ExistsByLogin(t)
      PROVE  Routed'
  BY <1>8 DEF ExistsByLogin, Refuse, Answer, Continue, Calm
<1>9. ASSUME NEW t \in Threads, Insert(t)
      PROVE  Routed'
  <2> HIDE DEF Goto, Send, CallOf, ThreadShape, Routed
  <2>1. Throw(t) \/ Continue(t, "lastInsertId")
    BY <1>9 DEF Insert
  <2>2. pc[t] = "insert"
    BY <1>9 DEF Insert
  <2>3. QED
    BY <2>1, <2>2 DEF Throw, Answer, Continue, Goto, Send, CallOf, ThreadShape, Routed
<1>10. ASSUME NEW t \in Threads, LastInsertId(t)
      PROVE  Routed'
  BY <1>10 DEF LastInsertId, Calm
<1>11. ASSUME NEW t \in Threads, Exists(t)
      PROVE  Routed'
  <2>1. \/ Refuse(t)
        \/ Continue(t, IF req[t].op = "update" THEN "update" ELSE Calls[req[t].kind].drop)
    BY <1>11 DEF Exists
  <2>2. /\ pc[t] = "exists" /\ req[t].kind \in Kinds /\ req[t].kind # "user"
        /\ req[t].op \in {"update", "delete"} /\ req[t].id # 0 /\ req[t].id \in Nat
    BY <1>11 DEF Exists
  <2>3. QED
    BY <2>1, <2>2, CallKinds DEF Refuse, Answer, Continue, Kinds
<1>12. ASSUME NEW t \in Threads, Update(t)
      PROVE  Routed'
  <2> HIDE DEF Goto, Send, CallOf, ThreadShape, Routed
  <2>1. Refuse(t) \/ Continue(t, "findById")
    BY <1>12 DEF Update
  <2>2. pc[t] = "update"
    BY <1>12 DEF Update
  <2>3. QED
    BY <2>1, <2>2 DEF Refuse, Answer, Continue, Goto, Send, CallOf, ThreadShape, Routed
<1>13. ASSUME NEW t \in Threads, Archive(t)
      PROVE  Routed'
  <2> HIDE DEF Goto, Send, CallOf, ThreadShape, Routed
  <2>1. Refuse(t) \/ Answer(t, 204)
    BY <1>13 DEF Archive
  <2>2. pc[t] = "archive"
    BY <1>13 DEF Archive
  <2>3. QED
    BY <2>1, <2>2 DEF Refuse, Answer, Goto, Send, CallOf, ThreadShape, Routed
<1>14. ASSUME NEW t \in Threads, UsageCount(t)
      PROVE  Routed'
  BY <1>14 DEF UsageCount, Refuse, Answer, Continue, Calm
<1>15. ASSUME NEW t \in Threads, Remove(t)
      PROVE  Routed'
  <2> HIDE DEF Goto, Send, CallOf, ThreadShape, Routed
  <2>1. Refuse(t) \/ Send(t, [NoReply EXCEPT !.code = 204])
    BY <1>15 DEF Remove
  <2>2. pc[t] = "remove"
    BY <1>15 DEF Remove
  <2>3. QED
    BY <2>1, <2>2 DEF Refuse, Answer, Goto, Send, CallOf, ThreadShape, Routed
<1>16. ASSUME NEW w \in Ids, DropWorkflow(w)
      PROVE  Routed'
  BY <1>16 DEF DropWorkflow, Elsewhere, Without
<1>17. ASSUME NEW table, NEW k, NEW id, Use(table, k, id)
      PROVE  Routed'
  BY <1>17 DEF Use, Elsewhere
<1>18. QED
  BY <1>1, <1>2, <1>3, <1>4, <1>5, <1>6, <1>7, <1>8, <1>9, <1>10, <1>11, <1>12, <1>13, <1>14, <1>15,
     <1>16, <1>17
  DEF Next, Step, IInv, ThreadShape

--------------------------------------------------------------------------------
(* What a step leaves to the other threads: everything, or at least what   *)
(* they know of themselves, and then they are not calm.                    *)
Undisturbed(u) == note'[u] = note[u] /\ rows' = rows /\ used' = used /\ last' = last
KeptFor(u) ==
    /\ pc'[u] = pc[u] /\ req'[u] = req[u] /\ loc'[u] = loc[u] /\ reply'[u] = reply[u]
    /\ note'[u].mine = note[u].mine
    /\ Undisturbed(u) \/ (~note'[u].calm /\ note'[u] = Overtaken(u))

(* Rows that point at ours do so by a foreign key.                         *)
LEMMA PointsStep == ASSUME IInv, Next PROVE Points(used)'
<1> USE DEF storeVars
<1>1. ASSUME NEW t \in Threads, Throw(t) \/ Refuse(t)
      PROVE  used' = used
  BY <1>1 DEF Throw, Refuse, Answer
<1>2. ASSUME NEW t \in Threads, Step(t)
      PROVE  used' \subseteq used
  <2>1. CASE (\E r \in offered : Receive(t, r)) \/ Respond(t) \/ FindById(t) \/ Count(t) \/ Select(t)
             \/ LastInsertId(t) \/ ExistsByLogin(t)
    BY <1>1, <2>1 DEF Receive, Respond, FindById, Count, Select, LastInsertId, ExistsByLogin
  <2>2. CASE CallFails(t) \/ CallFailsQuietly(t) \/ Exists(t) \/ UsageCount(t)
    BY <1>1, <2>2 DEF CallFails, CallFailsQuietly, Exists, UsageCount
  <2>3. CASE Insert(t) \/ Update(t) \/ Archive(t)
    BY <1>1, <2>3 DEF Insert, Update, Archive
  <2>4. CASE Remove(t)
    BY <1>1, <2>4 DEF Remove, Delete, Cascade
  <2>5. QED
    BY <1>2, <2>1, <2>2, <2>3, <2>4 DEF Step
<1>3. ASSUME NEW w, DropWorkflow(w)
      PROVE  used' \subseteq used
  BY <1>3 DEF DropWorkflow, Cascade
<1>4. ASSUME NEW table \in Writers, NEW k \in DOMAIN Pointing, NEW id, Use(table, k, id)
      PROVE  Points(used)'
  <2>1. \A u \in used' : u \in used \/ u = <<table, k, id>>
    BY <1>4 DEF Use
  <2>2. table \in Pointing[k]
    BY <1>4 DEF Use
  <2>3. QED
    BY <2>1, <2>2 DEF Points, IInv
<1>5. QED
  BY <1>2, <1>3, <1>4 DEF Next, Points, IInv

(* usageCount() asks every table that may hold rows pointing at the row.   *)
LEMMA CountsAll ==
    ASSUME Points(used), NEW k \in {"itemType", "fieldType"}, NEW id, ~InUse(k, id)
    PROVE  Dependents(k, id, rows["fieldType"], used) = {}
<1>1. \A u \in used : u[2] = k => u[1] \in Counted[k]
  BY DEF Points, Pointing, Counted
<1>2. k = "itemType" => "FieldType" \in Counted[k]
  BY DEF Counted
<1>3. Dependents(k, id, rows["fieldType"], used) \subseteq Counted[k]
  BY <1>1, <1>2 DEF Dependents
<1>4. QED
  BY <1>3 DEF InUse

LEMMA Others ==
    ASSUME IInv, NEW t \in Threads, Step(t), NEW u \in Threads, u # t
    PROVE  KeptFor(u)
<1> USE DEF IInv, ThreadShape, KeptFor, Undisturbed, Goto, Send, storeVars
<1>1. CASE \E r \in offered : Receive(t, r)
  BY <1>1 DEF Receive
<1>2. CASE Respond(t)
  BY <1>2 DEF Respond
<1>3. CASE CallFails(t)
  BY <1>3 DEF CallFails, Throw, Answer
<1>4. CASE CallFailsQuietly(t)
  BY <1>4 DEF CallFailsQuietly, Continue, Refuse, Answer
<1>5. CASE FindById(t)
  BY <1>5 DEF FindById, Refuse, Throw, Answer, Calm
<1>6. CASE Count(t)
  BY <1>6 DEF Count, Calm
<1>7. CASE Select(t)
  BY <1>7 DEF Select, Throw, Answer, Calm
<1>8. CASE ExistsByLogin(t)
  BY <1>8 DEF ExistsByLogin, Refuse, Answer, Continue, Calm
<1>9. CASE Insert(t)
  <2> HIDE DEF Goto, Send, ThreadShape, KeptFor, Undisturbed
  <2>1. \/ Throw(t) /\ Calm
        \/ Continue(t, "lastInsertId") /\ \E id : Disturb(t, id, << >>, {})
    BY <1>9 DEF Insert
  <2>2. QED
    BY <2>1, Disturbing DEF Throw, Answer, Calm, Continue, Goto, Send, ThreadShape, KeptFor, Undisturbed
<1>10. CASE LastInsertId(t)
  BY <1>10 DEF LastInsertId, Calm
<1>11. CASE Exists(t)
  BY <1>11 DEF Exists, Continue, Refuse, Answer, Calm
<1>12. CASE Update(t)
  <2> HIDE DEF Goto, Send, ThreadShape, KeptFor, Undisturbed
  <2>1. \/ Refuse(t) /\ Calm
        \/ Continue(t, "findById") /\ \E id, was : Disturb(t, id, was, {})
    BY <1>12 DEF Update
  <2>2. QED
    BY <2>1, Disturbing DEF Refuse, Answer, Calm, Continue, Goto, Send, ThreadShape, KeptFor, Undisturbed
<1>13. CASE Archive(t)
  <2> HIDE DEF Goto, Send, ThreadShape, KeptFor, Undisturbed
  <2>1. \/ Refuse(t) /\ Calm
        \/ Answer(t, 204) /\ Disturb(t, req[t].id, rows[req[t].kind][req[t].id], {})
    <3> HIDE DEF IInv
    <3>1. QED
      BY <1>13 DEF Archive
  <2>2. CASE Refuse(t) /\ Calm
    BY <2>2 DEF Refuse, Answer, Calm, Send, storeVars, ThreadShape, KeptFor, Undisturbed
  <2>3. CASE Answer(t, 204) /\ Disturb(t, req[t].id, rows[req[t].kind][req[t].id], {})
    <3>1. pc'[u] = pc[u] /\ req'[u] = req[u] /\ loc'[u] = loc[u] /\ reply'[u] = reply[u]
      BY <2>3 DEF Answer, Send, ThreadShape
    <3>2. note'[u].mine = note[u].mine /\ ~note'[u].calm /\ note'[u] = Overtaken(u)
      BY <2>3, Disturbing
    <3>3. QED
      BY <2>3, <3>1, <3>2, Disturbing DEF KeptFor
  <2>4. QED
    BY <2>1, <2>2, <2>3
<1>14. CASE UsageCount(t)
  BY <1>14 DEF UsageCount, Refuse, Answer, Continue, Calm
<1>15. CASE Remove(t)
  <2> HIDE DEF Goto, Send, ThreadShape, KeptFor, Undisturbed
  <2>1. \/ Refuse(t) /\ Calm
        \/ Send(t, [NoReply EXCEPT !.code = 204]) /\ \E id, b : Disturb(t, id, << >>, b)
    BY <1>15 DEF Remove
  <2>2. QED
    BY <2>1, Disturbing DEF Refuse, Answer, Calm, Goto, Send, ThreadShape, KeptFor, Undisturbed
<1>16. QED
  BY <1>1, <1>2, <1>3, <1>4, <1>5, <1>6, <1>7, <1>8, <1>9, <1>10, <1>11, <1>12, <1>13, <1>14, <1>15 DEF Step

LEMMA Outside ==
    ASSUME IInv, Elsewhere, NEW u \in Threads
    PROVE  KeptFor(u) /\ ~note'[u].calm
<1>1. note'[u] = Overtaken(u) /\ ThreadShape
  BY DEF Elsewhere, IInv
<1>2. ~note'[u].calm /\ note'[u].mine = note[u].mine
  BY <1>1, Overtaking
<1>3. QED
  BY <1>1, <1>2 DEF Elsewhere, KeptFor

LEMMA KeptElsewhere ==
    ASSUME ThreadShape, NEW u \in Threads, KeptFor(u), Spared(u), Minded(u), AnswerTrue(u)
    PROVE  Spared(u)' /\ Minded(u)' /\ AnswerTrue(u)'
<1>1. CASE Undisturbed(u)
  BY <1>1 DEF Undisturbed, KeptFor, Spared, Left, Minded, AnswerTrue, Readable
<1>2. CASE ~note'[u].calm /\ note'[u] = Overtaken(u)
  <2>1. Minded(u)' /\ AnswerTrue(u)'
    BY <1>2 DEF KeptFor, Minded, AnswerTrue
  <2>2. /\ note'[u].counted = note[u].counted /\ note'[u].spilled = note[u].spilled
        /\ note'[u].fresh = note[u].fresh \cup Appeared(u)
    BY <1>2, Overtaking
  <2>3. note[u].counted => Left(u)' \subseteq Left(u) \cup Appeared(u)
    <3> SUFFICES ASSUME note[u].counted PROVE Left(u)' \subseteq Left(u) \cup Appeared(u)
      OBVIOUS
    <3>1. req[u].op = "delete" /\ req[u].kind \in DOMAIN Counted
      BY DEF Spared, Counted
    <3>2. Left(u)' = Dependents(req[u].kind, req[u].id, rows'["fieldType"], used')
      BY DEF Left, KeptFor
    <3>3. Appeared(u) = Dependents(req[u].kind, req[u].id, rows'["fieldType"], used') \ Left(u)
      BY <3>1 DEF Appeared, Left
    <3>4. QED
      BY <3>2, <3>3
  <2>4. Spared(u)'
    BY <2>2, <2>3 DEF KeptFor, Spared
  <2>5. QED
    BY <2>1, <2>4
<1>3. QED
  BY <1>1, <1>2 DEF KeptFor

--------------------------------------------------------------------------------
(* The thread that takes the step.                                         *)
LEMMA CodeValues ==
    ASSUME NEW k \in Kinds
    PROVE  /\ Codes[k].refused \in {400, 409} /\ Codes[k].created = 201
           /\ Codes[k].updated \in {200, 204}
BY DEF Kinds, Codes, ProjectCodes, PhaseCodes, ItemTypeCodes, FieldTypeCodes, UserCodes

LEMMA ErrorValues ==
    ASSUME NEW r, r.kind \in Kinds
    PROVE  /\ Refusal(r) \in {400, 404, 409} /\ Thrown(r) \in {400, 500}
           /\ Rejection(r) \in {0, 400, 404, 409, 500}
<1>1. Refusal(r) \in {400, 404, 409}
  BY CodeValues DEF Refusal
<1>2. QED
  BY <1>1 DEF Thrown, Rejection

(* A call that reads, or one refused, writes nothing.                      *)
LEMMA Failing ==
    ASSUME IInv, NEW t \in Threads, pc[t] \notin {"idle", "answer"}, Throw(t) \/ Refuse(t),
           note'[t].mine = note[t].mine, note'[t].spilled = note[t].spilled,
           note'[t].counted = note[t].counted, note'[t].fresh = note[t].fresh,
           note'[t].calm => note[t].calm,
           note'[t].calm => note[t].mine = 0
    PROVE  Spared(t)' /\ Minded(t)' /\ AnswerTrue(t)'
<1>1. \E code \in {400, 404, 409, 500} : Send(t, [NoReply EXCEPT !.code = code]) /\ UNCHANGED rows
  <2>1. Refusal(req[t]) \in {400, 404, 409} /\ Thrown(req[t]) \in {400, 500}
    BY ErrorValues DEF IInv, Routed
  <2>2. QED
    BY <2>1 DEF Throw, Refuse, Answer, storeVars
<1>2. PICK code \in {400, 404, 409, 500} :
        pc'[t] = "answer" /\ reply'[t].code = code /\ req' = req
  BY <1>1 DEF Send, NoReply, IInv, ThreadShape
<1>3. QED
  BY <1>2 DEF IInv, ThreadShape, Spared, Minded, AnswerTrue

LEMMA NoteFails ==
    ASSUME ThreadShape, NEW t \in Threads, note' = [note EXCEPT ![t].calm = FALSE]
    PROVE  /\ ~note'[t].calm /\ note'[t].mine = note[t].mine /\ note'[t].spilled = note[t].spilled
           /\ note'[t].counted = note[t].counted /\ note'[t].fresh = note[t].fresh
BY DEF ThreadShape

(* On to the next call, without a write.                                   *)
LEMMA Calling ==
    ASSUME ThreadShape, NEW t \in Threads, NEW call, Continue(t, call)
    PROVE  pc'[t] = call /\ loc'[t] = loc[t] /\ req' = req
BY DEF ThreadShape, Continue, Goto

LEMMA Listing ==
    ASSUME IInv, NEW t \in Threads, pc[t] \in {"count", "select"}, note' = note, req' = req,
           pc'[t] = "select" \/ (pc'[t] = "answer" /\ reply'[t].code = 200)
    PROVE  Spared(t)' /\ Minded(t)' /\ AnswerTrue(t)'
<1>1. req[t].op = "list" /\ note[t].mine = 0
  BY DEF IInv, Routed, CallOf, Minded
<1>2. Spared(t) /\ ~note[t].counted
  BY <1>1 DEF IInv, Spared
<1>3. Spared(t)'
  BY <1>2 DEF Spared
<1>4. Minded(t)'
  BY <1>1 DEF Minded
<1>5. AnswerTrue(t)'
  BY <1>1 DEF AnswerTrue
<1>6. QED
  BY <1>3, <1>4, <1>5

LEMMA OwnStep ==
    ASSUME IInv, NEW t \in Threads, Step(t)
    PROVE  Spared(t)' /\ Minded(t)' /\ AnswerTrue(t)'
<1>1. ASSUME NEW r \in offered, Receive(t, r)
      PROVE  Spared(t)' /\ Minded(t)' /\ AnswerTrue(t)'
  <2>1. r.kind \in Kinds /\ r.op \in Ops
    BY WorkloadsAssumption DEF Ops, IInv, ThreadShape
  <2>2. /\ note'[t] = NoNote /\ req'[t] = r
        /\ \/ pc'[t] = "answer" /\ reply'[t].code = Rejection(r) /\ Rejection(r) # 0
           \/ pc'[t] = Calls[r.kind][r.op]
    <3>1. DOMAIN reply[t] = {"code", "id", "json", "ids", "total"} /\ DOMAIN pc = Threads
          /\ DOMAIN reply = Threads /\ DOMAIN note = Threads /\ DOMAIN req = Threads
      BY DEF IInv, ThreadShape
    <3>2. QED
      BY <1>1, <3>1 DEF Receive
  <2>3. Rejection(r) \in {0, 400, 404, 409, 500}
    BY <2>1, ErrorValues
  <2>4. CASE pc'[t] = Calls[r.kind][r.op]
    <3>1. /\ pc'[t] \in {"count", "findById", "existsByLogin", "insert", "update", "remove", "exists"}
          /\ pc'[t] = "findById" => r.op = "get"
          /\ pc'[t] = "remove" => r.kind = "user"
      BY <2>1, <2>4, CallKinds DEF Ops
    <3>2. req'[t] = r /\ note'[t].mine = 0 /\ note'[t].spilled = {} /\ note'[t].counted = FALSE
      BY <2>2 DEF NoNote
    <3>3. QED
      BY <2>1, <3>1, <3>2 DEF Ops, Spared, Minded, AnswerTrue
  <2>5. CASE pc'[t] = "answer" /\ Rejection(r) # 0 /\ reply'[t].code = Rejection(r)
    BY <2>2, <2>3, <2>5 DEF NoNote, Spared, Minded, AnswerTrue
  <2>6. QED
    BY <2>2, <2>4, <2>5
<1>2. CASE Respond(t)
  BY <1>2 DEF Respond, NoNote, IInv, ThreadShape, Spared, Minded, AnswerTrue
<1>3. CASE CallFails(t)
  BY <1>3, Failing, NoteFails DEF CallFails, IInv
<1>4. CASE CallFailsQuietly(t)
  <2>1. /\ Refuse(t) \/ Continue(t, "insert") \/ Continue(t, "remove")
        /\ note' = [note EXCEPT ![t].calm = FALSE]
        /\ pc[t] \in {"existsByLogin", "exists", "update", "archive", "usageCount", "remove"}
    BY <1>4 DEF CallFailsQuietly
  <2>2. /\ ~note'[t].calm /\ note'[t].mine = note[t].mine /\ note'[t].spilled = note[t].spilled
        /\ note'[t].counted = note[t].counted /\ note'[t].fresh = note[t].fresh
    BY <2>1, NoteFails DEF IInv
  <2>3. CASE Refuse(t)
    BY <2>1, <2>2, <2>3, Failing
  <2>4. CASE Continue(t, "insert") \/ Continue(t, "remove")
    <3>0. pc[t] \in {"existsByLogin", "usageCount"}
      BY <1>4, <2>4 DEF CallFailsQuietly, Continue, Goto, Refuse, Answer, Send, IInv, ThreadShape
    <3>1. /\ pc'[t] \in {"insert", "remove"} /\ note[t].mine = 0
          /\ note[t].spilled = {} /\ ~note[t].counted
      BY <2>1, <2>4, <3>0, Calling DEF IInv, Minded, Spared
    <3>2. QED
      BY <2>2, <3>1 DEF Spared, Minded, AnswerTrue
  <2>5. QED
    BY <2>1, <2>3, <2>4
<1>5. CASE FindById(t)
  <2> DEFINE k    == req[t].kind
             id   == IF req[t].op = "create" THEN loc[t].id ELSE req[t].id
             code == CASE req[t].op = "get"    -> 200
                       [] req[t].op = "create" -> Codes[k].created
                       [] req[t].op = "update" -> Codes[k].updated
  <2>1. /\ pc[t] = "findById" /\ note' = note /\ k \in Kinds
        /\ req[t].op \in {"get", "create", "update"}
    BY <1>5 DEF FindById, Calm, IInv, Routed, CallOf
  <2>2. Spared(t) /\ Minded(t) /\ ThreadShape
    BY DEF IInv
  <2>3. /\ req[t].op = "get" => note[t].mine = 0
        /\ req[t].op # "get" => note[t].mine # 0
        /\ req[t].op # "get" /\ note[t].calm => note[t].mine = id /\ id \in DOMAIN rows[k]
    BY <2>1, <2>2 DEF Minded
  <2>4. note[t].spilled = {} /\ ~note[t].counted
    BY <2>1, <2>2 DEF Spared
  <2>5. CASE id \notin DOMAIN rows[k] /\ Refuse(t)
    BY <2>1, <2>3, <2>5, Failing
  <2>6. CASE id \in DOMAIN rows[k] /\ ~Readable(k, rows[k][id]) /\ Throw(t)
    <3>1. /\ pc'[t] = "answer" /\ reply'[t].code \in {400, 500} /\ req' = req /\ rows' = rows
      BY <2>2, <2>6 DEF Throw, Answer, Thrown, Send, NoReply, storeVars, ThreadShape
    <3>2. QED
      <4>1. note'[t].calm /\ note'[t].mine # 0 =>
              note'[t].mine \in DOMAIN rows'[k] /\ ~Readable(k, rows[k][note'[t].mine])
        BY <2>1, <2>3, <2>6, <3>1
      <4>2. Readable(k, rows[k][note'[t].mine]) <=> Readable(req[t].kind, rows[req[t].kind][note[t].mine])'
        BY <2>1, <3>1 DEF Readable
      <4>3. Spared(t)' /\ Minded(t)'
        BY <2>1, <2>4, <3>1 DEF Spared, Minded
      <4>4. QED
        BY <2>1, <3>1, <4>1, <4>2, <4>3 DEF AnswerTrue
  <2> DEFINE json == IF code = 204 THEN << >> ELSE Json(k, id, rows[k][id])
  <2>7. ASSUME Send(t, [NoReply EXCEPT !.code = code, !.id = id, !.json = json])
        PROVE  Spared(t)' /\ Minded(t)' /\ AnswerTrue(t)'
    <3> DEFINE answer == [NoReply EXCEPT !.code = code, !.id = id, !.json = json]
    <3>0. answer.id = id /\ answer.code = code
      <4> HIDE DEF code, id, json
      <4>1. QED
        BY DEF NoReply
    <3> HIDE DEF answer
    <3>1. /\ pc'[t] = "answer" /\ reply'[t].id = id /\ req' = req /\ reply'[t].code = code
      <4>1. Send(t, answer)
        BY <2>7 DEF answer
      <4>2. reply'[t] = answer /\ pc'[t] = "answer" /\ req' = req
        BY <2>2, <4>1 DEF Send, ThreadShape
      <4>3. QED
        BY <3>0, <4>2
    <3>2. /\ code \in {200, 201, 204}
          /\ req[t].op = "get" => code = 200
          /\ req[t].op # "create" => code # 201
      BY <2>1, CodeValues
    <3> HIDE DEF code, id
    <3>3. QED
      BY <2>1, <2>3, <2>4, <3>1, <3>2 DEF Spared, Minded, AnswerTrue
  <2>8. QED
    <3>1. \/ id \notin DOMAIN rows[k] /\ Refuse(t)
          \/ id \in DOMAIN rows[k] /\ ~Readable(k, rows[k][id]) /\ Throw(t)
          \/ Send(t, [NoReply EXCEPT !.code = code, !.id = id, !.json = json])
      BY <1>5 DEF FindById
    <3>2. QED
      BY <2>5, <2>6, <2>7, <3>1
<1>6. CASE Count(t)
  <2>1. /\ pc[t] = "count" /\ note' = note /\ req' = req
        /\ \/ Goto(t, "select")
           \/ \E total : Send(t, [NoReply EXCEPT !.code = 200, !.total = total])
    BY <1>6 DEF Count, Calm, Goto, Send
  <2>2. CASE Goto(t, "select")
    <3>1. pc'[t] = "select"
      BY <2>2 DEF Goto, IInv, ThreadShape
    <3>2. QED
      BY <2>1, <3>1, Listing
  <2>3. ASSUME NEW total, Send(t, [NoReply EXCEPT !.code = 200, !.total = total])
        PROVE  Spared(t)' /\ Minded(t)' /\ AnswerTrue(t)'
    <3>1. pc'[t] = "answer" /\ reply'[t].code = 200
      BY <2>3 DEF Send, NoReply, IInv, ThreadShape
    <3>2. QED
      BY <2>1, <3>1, Listing
  <2>4. QED
    BY <2>1, <2>2, <2>3
<1>7. CASE Select(t)
  <2>1. /\ pc[t] = "select" /\ note' = note
        /\ \/ Throw(t)
           \/ \E ids, total : Send(t, [NoReply EXCEPT !.code = 200, !.ids = ids, !.total = total])
    BY <1>7 DEF Select, Calm
  <2>2. CASE Throw(t)
    <3>1. note[t].mine = 0
      BY <2>1 DEF IInv, Minded
    <3>2. QED
      BY <2>1, <2>2, <3>1, Failing
  <2>3. ASSUME NEW ids, NEW total, Send(t, [NoReply EXCEPT !.code = 200, !.ids = ids, !.total = total])
        PROVE  Spared(t)' /\ Minded(t)' /\ AnswerTrue(t)'
    <3>1. pc'[t] = "answer" /\ reply'[t].code = 200 /\ req' = req
      BY <2>3 DEF Send, NoReply, IInv, ThreadShape
    <3>2. QED
      BY <2>1, <3>1, Listing
  <2>4. QED
    BY <2>1, <2>2, <2>3
<1>8. CASE ExistsByLogin(t)
  <2>1. /\ pc[t] = "existsByLogin" /\ note' = note
        /\ Refuse(t) \/ Continue(t, "insert")
    BY <1>8 DEF ExistsByLogin, Calm
  <2>2. Spared(t) /\ note[t].mine = 0 /\ ThreadShape
    BY <2>1 DEF IInv, Minded
  <2>3. CASE Refuse(t)
    BY <2>1, <2>2, <2>3, Failing
  <2>4. CASE Continue(t, "insert")
    BY <2>1, <2>2, <2>4, Calling DEF Spared, Minded, AnswerTrue
  <2>5. QED
    BY <2>1, <2>3, <2>4
<1>9. CASE Insert(t)
  <2>1. pc[t] = "insert"
    BY <1>9 DEF Insert
  <2>2. Spared(t) /\ note[t].mine = 0 /\ ThreadShape /\ StoreShape /\ Routed /\ req[t].op = "create"
    BY <2>1 DEF IInv, Minded, Routed, CallOf
  <2>3. CASE Throw(t) /\ Calm
    BY <2>1, <2>2, <2>3, Failing DEF Calm
  <2>4. CASE ~(Throw(t) /\ Calm)
    <3> DEFINE k == req[t].kind
    <3>1. /\ Continue(t, "lastInsertId") /\ Disturb(t, seq[k] + 1, << >>, {})
          /\ last' = seq[k] + 1
      BY <1>9, <2>4 DEF Insert, NextId
    <3>2. seq[k] + 1 # 0 /\ seq[k] + 1 \in DOMAIN rows'[k]
      <4>1. k \in Kinds /\ DOMAIN rows'[k] = DOMAIN rows[k] \cup {seq[k] + 1}
        BY <1>9, <2>2, <2>4, InsertGrows DEF Grown
      <4>2. QED
        BY <2>2, <4>1 DEF StoreShape
    <3>3. /\ pc'[t] = "lastInsertId" /\ req' = req /\ note'[t].mine = seq[k] + 1
          /\ note'[t].spilled = {} /\ note'[t].counted = note[t].counted
      BY <2>2, <3>1, Calling, Disturbing
    <3>4. QED
      BY <2>2, <3>1, <3>2, <3>3 DEF Spared, Minded, AnswerTrue
  <2>5. QED
    BY <2>3, <2>4
<1>10. CASE LastInsertId(t)
  <2>1. /\ pc[t] = "lastInsertId" /\ note' = note /\ rows' = rows
        /\ loc' = [loc EXCEPT ![t].id = last] /\ Goto(t, "findById")
    BY <1>10 DEF LastInsertId, Calm, storeVars
  <2>2. Spared(t) /\ Minded(t) /\ ThreadShape /\ req[t].op = "create"
    BY <2>1 DEF IInv, Routed, CallOf
  <2>3. pc'[t] = "findById" /\ loc'[t].id = last /\ req' = req
    BY <2>1, <2>2 DEF ThreadShape, Goto
  <2>4. QED
    BY <2>1, <2>2, <2>3 DEF Spared, Minded, AnswerTrue
<1>11. CASE Exists(t)
  <2>1. /\ pc[t] = "exists" /\ note' = note
        /\ \/ Refuse(t)
           \/ Continue(t, IF req[t].op = "update" THEN "update" ELSE Calls[req[t].kind].drop)
    BY <1>11 DEF Exists, Calm
  <2>2. /\ req[t].op \in {"update", "delete"} /\ req[t].kind \in Kinds /\ req[t].kind # "user"
        /\ Spared(t) /\ note[t].mine = 0 /\ ThreadShape
    BY <2>1 DEF IInv, Routed, CallOf, Minded
  <2> DEFINE next == IF req[t].op = "update" THEN "update" ELSE Calls[req[t].kind].drop
  <2>3. next \in {"update", "archive", "usageCount"}
    BY <2>2, CallKinds
  <2> HIDE DEF next
  <2>4. CASE Refuse(t)
    BY <2>1, <2>2, <2>4, Failing
  <2>5. CASE Continue(t, next)
    <3>1. pc'[t] = next
      BY <2>2, <2>5, Calling
    <3>2. QED
      BY <2>1, <2>2, <2>3, <3>1 DEF Spared, Minded, AnswerTrue
  <2>6. QED
    BY <2>1, <2>4, <2>5 DEF next
<1>12. CASE Update(t)
  <2>1. pc[t] = "update"
    BY <1>12 DEF Update
  <2>2. /\ req[t].op = "update" /\ req[t].id # 0 /\ note[t].mine = 0 /\ req[t].kind \in Kinds
        /\ Spared(t) /\ ThreadShape /\ StoreShape /\ Routed
    BY <2>1 DEF IInv, Minded, Routed, CallOf
  <2>3. CASE Refuse(t) /\ Calm
    BY <2>1, <2>2, <2>3, Failing DEF Calm
  <2>4. CASE ~(Refuse(t) /\ Calm)
    <3>1. req[t].id \in DOMAIN rows'[req[t].kind]
      BY <1>12, <2>2, <2>4, UpdateEdits DEF Edited, Tables
    <3>2. Continue(t, "findById") /\ Disturb(t, req[t].id, rows[req[t].kind][req[t].id], {})
      BY <1>12, <2>4 DEF Update
    <3>3. /\ pc'[t] = "findById" /\ req' = req /\ note'[t].mine = req[t].id
          /\ note'[t].calm = note[t].calm /\ note'[t].spilled = {}
          /\ note'[t].counted = note[t].counted
      BY <2>2, <3>2, Calling, Disturbing
    <3>4. QED
      BY <2>2, <3>1, <3>3 DEF Spared, Minded, AnswerTrue
  <2>5. QED
    BY <2>3, <2>4
<1>13. CASE Archive(t)
  <2>1. pc[t] = "archive"
    BY <1>13 DEF Archive
  <2>2. /\ req[t].op = "delete" /\ req[t].id # 0 /\ note[t].mine = 0
        /\ Spared(t) /\ ThreadShape
    BY <2>1 DEF IInv, Minded, Routed, CallOf
  <2>3. CASE Refuse(t) /\ Calm
    BY <2>1, <2>2, <2>3, Failing DEF Calm
  <2>4. CASE Answer(t, 204) /\ Disturb(t, req[t].id, rows[req[t].kind][req[t].id], {})
    <3>1. /\ pc'[t] = "answer" /\ reply'[t].code = 204 /\ req' = req /\ note'[t].mine = req[t].id
          /\ note'[t].calm = note[t].calm /\ note'[t].spilled = {}
          /\ note'[t].counted = note[t].counted
      BY <2>2, <2>4, Disturbing DEF Answer, Send, NoReply, ThreadShape
    <3>2. QED
      BY <2>2, <3>1 DEF Spared, Minded, AnswerTrue
  <2>5. QED
    BY <1>13, <2>3, <2>4 DEF Archive
<1>14. CASE UsageCount(t)
  <2>1. pc[t] = "usageCount"
    BY <1>14 DEF UsageCount
  <2>2. /\ Spared(t) /\ note[t].mine = 0 /\ ThreadShape /\ Points(used)
        /\ req[t].op = "delete" /\ req[t].kind \in {"itemType", "fieldType"}
    BY <2>1 DEF IInv, Minded, Routed, CallOf
  <2>3. CASE Refuse(t) /\ Calm
    BY <2>1, <2>2, <2>3, Failing DEF Calm
  <2>4. CASE /\ ~InUse(req[t].kind, req[t].id) /\ Continue(t, "remove") /\ UNCHANGED storeVars
             /\ note' = [note EXCEPT ![t].counted = TRUE]
    <3>1. /\ pc'[t] = "remove" /\ req' = req /\ rows' = rows /\ used' = used
          /\ note'[t].mine = 0 /\ note'[t].spilled = {}
      BY <2>1, <2>2, <2>4, Calling DEF storeVars, ThreadShape, Spared
    <3>2. Left(t)' = {}
      BY <2>2, <2>4, <3>1, CountsAll DEF Left
    <3>3. Spared(t)'
      BY <2>2, <3>1, <3>2 DEF Spared
    <3>4. QED
      BY <3>1, <3>3 DEF Minded, AnswerTrue
  <2>5. QED
    BY <1>14, <2>3, <2>4 DEF UsageCount
<1>15. CASE Remove(t)
  <2>1. pc[t] = "remove"
    BY <1>15 DEF Remove
  <2>2. /\ req[t].op = "delete" /\ req[t].id # 0 /\ note[t].mine = 0
        /\ Spared(t) /\ ThreadShape
    BY <2>1 DEF IInv, Minded, Routed, CallOf
  <2>4. CASE Refuse(t) /\ Calm
    BY <2>1, <2>2, <2>4, Failing DEF Calm
  <2>5. CASE Send(t, [NoReply EXCEPT !.code = 204]) /\ Disturb(t, req[t].id, << >>, Left(t))
    <3>1. /\ note'[t].mine = req[t].id /\ note'[t].calm = note[t].calm /\ note'[t].spilled = Left(t)
          /\ note'[t].counted = note[t].counted /\ note'[t].fresh = note[t].fresh
      BY <2>2, <2>5, Disturbing
    <3>2. pc'[t] = "answer" /\ reply'[t].code = 204 /\ req' = req
      BY <2>2, <2>5 DEF Send, NoReply, ThreadShape
    <3>3. Spared(t)'
      BY <2>1, <2>2, <3>1, <3>2 DEF Spared
    <3>4. QED
      BY <2>2, <3>1, <3>2, <3>3 DEF Minded, AnswerTrue
  <2>6. QED
    BY <1>15, <2>4, <2>5 DEF Remove, Left
<1>16. QED
  BY <1>1, <1>2, <1>3, <1>4, <1>5, <1>6, <1>7, <1>8, <1>9, <1>10, <1>11, <1>12, <1>13, <1>14, <1>15
  DEF Step

--------------------------------------------------------------------------------
LEMMA Initial == Init => IInv
<1> SUFFICES ASSUME Init PROVE IInv
  OBVIOUS
<1>1. ASSUME NEW k \in Kinds
      PROVE  /\ Cardinality(DOMAIN SeedRows[k]) \in Nat
             /\ DOMAIN SeedRows[k] = 1 .. Cardinality(DOMAIN SeedRows[k])
  BY SeedAssumption, FS_CardinalityType
<1>2. StoreShape /\ Numbered
  BY <1>1, SeedAssumption DEF Init, StoreShape, Numbered, Tables
<1>3. Columned /\ Sound(rows)
  BY SeedAssumption DEF Init, Columned, IsRow
<1>4. ThreadShape /\ Routed /\ ToldGone
  BY DEF Init, ThreadShape, Routed, ToldGone, NoNote, NoReply, NoLocals
<1>5. \A t \in Threads : Spared(t) /\ Minded(t) /\ AnswerTrue(t)
  BY DEF Init, Spared, Minded, AnswerTrue, NoNote
<1>6. Points(used)
  BY SeedAssumption DEF Init
<1>7. QED
  BY <1>2, <1>3, <1>4, <1>5, <1>6 DEF IInv

LEMMA ThreadsStep ==
    ASSUME IInv, Next
    PROVE  \A t \in Threads : (Spared(t) /\ Minded(t) /\ AnswerTrue(t))'
<1> SUFFICES ASSUME NEW u \in Threads
             PROVE  Spared(u)' /\ Minded(u)' /\ AnswerTrue(u)'
  OBVIOUS
<1>1. Spared(u) /\ Minded(u) /\ AnswerTrue(u) /\ ThreadShape
  BY DEF IInv
<1>2. ASSUME NEW t \in Threads, Step(t)
      PROVE  Spared(u)' /\ Minded(u)' /\ AnswerTrue(u)'
  <2>1. CASE t = u
    BY <1>2, <2>1, OwnStep
  <2>2. CASE t # u
    BY <1>1, <1>2, <2>2, Others, KeptElsewhere
  <2>3. QED
    BY <2>1, <2>2
<1>3. ASSUME Elsewhere
      PROVE  Spared(u)' /\ Minded(u)' /\ AnswerTrue(u)'
  BY <1>1, <1>3, Outside, KeptElsewhere
<1>4. QED
  BY <1>2, <1>3 DEF Next, DropWorkflow, Use

(* The inductive invariant holds of every behaviour of the handlers.       *)
THEOREM Invariance == Spec => []IInv
<1>1. Init => IInv
  BY Initial
<1>2. IInv /\ [Next]_vars => IInv'
  <2> SUFFICES ASSUME IInv, [Next]_vars PROVE IInv'
    OBVIOUS
  <2>1. CASE Next
    BY <2>1, StoreShapeStep, ThreadShapeStep, RoutedStep, NumberedStep, ToldGoneStep, ColumnedStep,
       SoundStep, PointsStep, ThreadsStep DEF IInv
  <2>2. CASE UNCHANGED vars
    BY <2>2 DEF vars, storeVars, threadVars, IInv, StoreShape, ThreadShape, Routed, Numbered,
                ToldGone, Columned, Sound, Points, Spared, Left, Minded, AnswerTrue, Readable
  <2>3. QED
    BY <2>1, <2>2
<1>3. QED
  BY <1>1, <1>2, PTL DEF Spec

(* However many clients write to the five resources, and whatever fails,   *)
(* no row refers to one that is not there and no two users share a login   *)
(* or an email.                                                            *)
THEOREM TablesSound == Spec => []RowsSound
<1>1. IInv => RowsSound
  BY DEF IInv, RowsSound
<1>2. QED
  BY <1>1, Invariance, PTL

(* A 204 that told of a deletion stays true: no later insert, update or    *)
(* archive brings the row back.                                            *)
THEOREM GoneForGood == Spec => []DeletedStaysGone
<1>1. IInv => DeletedStaysGone
  BY DEF IInv, ToldGone, DeletedStaysGone
<1>2. QED
  BY <1>1, Invariance, PTL

(* usageCount() before the DELETE of an item type or a field type: it asks  *)
(* every table the cascade would take rows of, so that rows only go with    *)
(* the type if such a row came between the count and the DELETE.            *)
THEOREM DeletesAlone == Spec => []DeleteSparesUsed
<1>1. IInv => DeleteSparesUsed
  BY DEF IInv, Spared, DeleteSparesUsed
<1>2. QED
  BY <1>1, Invariance, PTL

(* The answers of every handler: success only after a statement of the     *)
(* request's own wrote, and with nobody else writing an error only when    *)
(* none did, and the identifier of a 201 that of the row inserted.         *)
THEOREM AnswersHold == Spec => []AnswersTrue
<1>1. IInv => AnswersTrue
  BY DEF IInv, AnswerTrue, AnswersTrue
<1>2. QED
  BY <1>1, Invariance, PTL

--------------------------------------------------------------------------------
(* What the rows hold, and what a client is shown of the one it wrote.       *)

(* The bodies a handler goes on with could be parsed; what could not be     *)
(* read of them is Wrong.                                                   *)
Parsed(r) ==
    /\ r.doc # Broken
    /\ \A f \in DOMAIN r.doc \cap DOMAIN Table[r.kind].dto.fields :
          r.doc[f] \in Offered[Table[r.kind].dto.fields[f]] \cup {Null, Wrong}

Writing == {"existsByLogin", "insert", "lastInsertId", "exists", "update", "findById"}

BodyRead(t) ==
    /\ pc[t] \in Writing /\ req[t].op \in {"create", "update"} => Parsed(req[t])
    /\ pc[t] \in {"existsByLogin", "insert"} => Accepts(req[t].kind, Body(req[t]))

(* Tables hold typed rows, under the identifiers a table can give out.     *)
Filed ==
    \A k \in Kinds :
       /\ seq[k] <= MaxId
       /\ \A i \in DOMAIN rows[k] : IsRow(k, rows[k][i])

(* Until it is read again, the row a thread wrote is what its body says.   *)
Wanted(t) ==
    IF req[t].op = "create" THEN RowOf(req[t].kind, Body(req[t]))
    ELSE Updated(req[t].kind, note[t].was, Body(req[t]))

Kept(t) ==
    (note[t].calm /\ pc[t] \in {"lastInsertId", "findById"} /\ req[t].op \in {"create", "update"}) =>
       /\ rows[req[t].kind][note[t].mine] = Wanted(t)
       /\ req[t].op = "update" => IsRow(req[t].kind, note[t].was)

(* What EchoesBody says of one thread; no row is shown before the answer.  *)
Echoed(t) ==
    /\ pc[t] # "answer" => reply[t].json = << >>
    /\ (pc[t] = "answer" /\ reply[t].json # << >> /\ req[t].op \in {"create", "update"} /\ note[t].calm)
           => Shows(reply[t].json, req[t], note[t].was)

EchoInv == Filed /\ \A t \in Threads : BodyRead(t) /\ Kept(t) /\ Echoed(t)

(* The columns of a table are fields of its class, and only the date of a  *)
(* phase is converted.                                                     *)
LEMMA ColumnKinds ==
    ASSUME NEW k \in Kinds, NEW c \in Table[k].columns
    PROVE  /\ c \in DOMAIN Table[k].dto.fields /\ c # "id" /\ DOMAIN Table[k].dto.constant = {}
           /\ Table[k].dto.fields[c] \in {"int", "string", "bool", "time"}
           /\ Table[k].dto.fields[c] = "time" <=> c = "beginDate"
           /\ c \in {"isArchive", "isBlocked"} => Table[k].dto.fields[c] = "bool"
<1>1. CASE k = "project"
  BY <1>1 DEF Table, ProjectTable, Project, Dto
<1>2. CASE k = "phase"
  BY <1>2 DEF Table, PhaseTable, Phase, Dto
<1>3. CASE k = "itemType"
  BY <1>3 DEF Table, ItemTypeTable, ItemType, Dto
<1>4. CASE k = "fieldType"
  BY <1>4 DEF Table, FieldTypeTable, FieldType, Dto
<1>5. CASE k = "user"
  BY <1>5 DEF Table, UserTable, User, Dto
<1>6. QED
  BY <1>1, <1>2, <1>3, <1>4, <1>5 DEF Kinds

LEMMA ValueKinds ==
    /\ Values["int"] = Longs /\ Values["time"] = {seconds \in Longs : seconds * Ticks \in Longs}
    /\ Values["bool"] = BOOLEAN /\ Values["string"] = DOMAIN Rank
    /\ \A kind \in {"int", "string", "bool", "time"} : Absent \notin Values[kind]
<1>1. Longs \subseteq Int
  BY LongAssumption DEF Longs
<1>2. Absent \notin Longs /\ Absent \notin BOOLEAN /\ Absent \notin DOMAIN Rank
  BY <1>1, MarksAssumption, AbsentAssumption
<1> DEFINE times == {seconds \in Longs : seconds * Ticks \in Longs}
<1>3. times \subseteq Longs
  OBVIOUS
<1>4. Values = [int |-> Longs, string |-> DOMAIN Rank, bool |-> BOOLEAN, time |-> times]
  BY DEF Values
<1> HIDE DEF times
<1>5. /\ Values["int"] = Longs /\ Values["time"] = times /\ Values["bool"] = BOOLEAN
      /\ Values["string"] = DOMAIN Rank
  BY <1>4
<1>6. QED
  BY <1>2, <1>3, <1>5 DEF times

(* What is sent for a column is of a type fromJson() takes.                *)
LEMMA OfferedFits ==
    ASSUME NEW kind \in {"int", "string", "bool", "time"}, NEW value \in Offered[kind],
           value \notin {Null, Wrong}
    PROVE  Fits(kind, value)
<1>1. Absent \notin Int /\ Absent \notin BOOLEAN /\ Absent \notin DOMAIN Cut
  BY MarksAssumption DEF Typical, Samples
<1>2. CASE kind \in {"int", "time"}
  BY <1>1, <1>2 DEF Offered, Fits
<1>3. CASE kind = "string"
  BY <1>3, AbsentAssumption, RankAssumption DEF Offered, Fits
<1>4. CASE kind = "bool"
  <2>1. BOOLEAN \cap DOMAIN Cut = {}
    BY MarksAssumption DEF Typical, Samples
  <2>2. QED
    BY <1>1, <1>4, <2>1 DEF Offered, Fits
<1>5. QED
  BY <1>2, <1>3, <1>4

(* What a column gets of it.                                               *)
LEMMA ColumnWritten ==
    ASSUME NEW kind \in {"int", "string", "bool", "time"}, NEW value \in Offered[kind],
           value \notin {Null, Wrong}
    PROVE  LET col == Write(kind, Read(kind, value))
           IN  /\ Read(kind, value) # Absent /\ col \in Values[kind]
               /\ Exact(kind, Rounded(value)) => col = Rounded(value)
<1> DEFINE col == Write(kind, Read(kind, value))
<1>1. /\ Read(kind, value) # Absent /\ kind \in FieldKinds
      /\ Exact(kind, Rounded(value)) => col = Rounded(value)
  BY OfferedFits, ReadWritten DEF FieldKinds
<1> SUFFICES col \in Values[kind]
  BY <1>1
<1>2. CASE kind = "int"
  <2>1. value \in Int \cup DOMAIN Cut
    BY <1>2 DEF Offered
  <2>2. col = Whole(value)
    BY <1>2 DEF Read, Write
  <2>3. Whole(value) \in Longs
    BY <2>1, WholeIsLong
  <2> HIDE DEF col
  <2>4. QED
    BY <1>2, <2>2, <2>3, ValueKinds
<1>3. CASE kind = "time"
  <2> DEFINE w == Whole(value)
  <2>0. value \in Int \cup DOMAIN Cut
    BY <1>3 DEF Offered
  <2>1. w \in Int /\ Ticks \in Int
    <3>1. w \in Longs
      BY <2>0, WholeIsLong
    <3>2. QED
      BY <3>1, TicksAssumption, LongAssumption DEF Longs
  <2>2. col = TimePointToSeconds(SecondsToTimePoint(w))
    BY <1>3 DEF Read, Write
  <2> HIDE DEF w, col
  <2>3. w * Ticks \in Int
    BY <2>1
  <2>4. SecondsToTimePoint(w) \in Longs
    BY <2>3, LongIsLong DEF SecondsToTimePoint
  <2>5. col \in Longs /\ col * Ticks \in Longs
    BY <2>2, <2>4, SecondsOf
  <2>6. col \in Values[kind]
    BY <1>3, <2>5, ValueKinds
  <2>7. QED
    BY <2>6 DEF col
<1>4. CASE kind \in {"string", "bool"}
  <2>1. value \in Values[kind]
    BY <1>4, ValueKinds DEF Offered
  <2>2. col = value
    BY <1>4 DEF Read, Write
  <2>3. QED
    BY <2>1, <2>2
<1>5. QED
  BY <1>2, <1>3, <1>4

(* What the DTO made of a parsed body holds, and a column gets of it.      *)
LEMMA BodyFields ==
    ASSUME NEW r, r.kind \in Kinds, Parsed(r), NEW c \in Table[r.kind].columns
    PROVE  LET kind == Table[r.kind].dto.fields[c]
               col  == Write(kind, Body(r)[c])
           IN  /\ Sent(r, c) => /\ Body(r)[c] # Absent /\ col \in Values[kind]
                                /\ Exact(kind, Rounded(r.doc[c])) => col = Rounded(r.doc[c])
               /\ ~Sent(r, c) => Body(r)[c] = Absent
<1> DEFINE kind == Table[r.kind].dto.fields[c]
<1>1. c \in DOMAIN Table[r.kind].dto.fields /\ kind \in {"int", "string", "bool", "time"}
  BY ColumnKinds
<1>2. Body(r)[c] = IF ~IsSet(r.doc, c) THEN Absent
                   ELSE IF r.doc[c] = Wrong THEN Absent ELSE Read(kind, r.doc[c])
  BY <1>1 DEF Body, Construct, FromJson, Blank
<1>3. Sent(r, c) => r.doc[c] \in Offered[kind] /\ r.doc[c] \notin {Null, Wrong}
  BY <1>1 DEF Parsed, Sent
<1>4. ~Sent(r, c) => Body(r)[c] = Absent
  BY <1>2 DEF Sent, IsSet
<1>5. Sent(r, c) => Body(r)[c] = Read(kind, r.doc[c])
  BY <1>2 DEF Sent, IsSet
<1> HIDE DEF kind
<1>6. QED
  BY <1>1, <1>3, <1>4, <1>5, ColumnWritten DEF kind

LEMMA RowColumn ==
    ASSUME NEW k \in Kinds, NEW b, NEW c \in Table[k].columns
    PROVE  /\ c = "beginDate" =>
                 RowOf(k, b)[c] = IF b[c] = Absent THEN Absent ELSE TimePointToSeconds(b[c])
           /\ c \in {"isArchive", "isBlocked"} => RowOf(k, b)[c] = WithDefault(b[c], FALSE)
           /\ c \notin {"beginDate", "isArchive", "isBlocked"} => RowOf(k, b)[c] = b[c]
<1>1. CASE k = "project"
  <2>1. RowOf(k, b) = ProjectRow(b)
    BY <1>1 DEF RowOf
  <2>2. c \in {"parentId", "caption", "isArchive"}
    BY <1>1 DEF Table, ProjectTable
  <2>3. c \in {"parentId", "caption"} => ProjectRow(b)[c] = b[c]
    BY DEF ProjectRow
  <2>4. ProjectRow(b)["isArchive"] = WithDefault(b["isArchive"], FALSE)
    BY DEF ProjectRow
  <2>5. QED
    BY <2>1, <2>2, <2>3, <2>4
<1>2. CASE k = "phase"
  <2>1. RowOf(k, b) = PhaseRow(b)
    BY <1>2 DEF RowOf
  <2>2. c \in {"projectId", "caption", "beginDate", "isArchive"}
    BY <1>2 DEF Table, PhaseTable
  <2>3. c \in {"projectId", "caption"} => PhaseRow(b)[c] = b[c]
    BY DEF PhaseRow
  <2>4. PhaseRow(b)["isArchive"] = WithDefault(b["isArchive"], FALSE)
    BY DEF PhaseRow
  <2>5. PhaseRow(b)["beginDate"] =
           IF b["beginDate"] = Absent THEN Absent ELSE TimePointToSeconds(b["beginDate"])
    BY DEF PhaseRow
  <2>6. QED
    BY <2>1, <2>2, <2>3, <2>4, <2>5
<1>3. CASE k = "itemType"
  <2>1. RowOf(k, b) = ItemTypeRow(b)
    BY <1>3 DEF RowOf
  <2>2. c \in {"workflowId", "caption", "kind"}
    BY <1>3 DEF Table, ItemTypeTable
  <2>3. c \in {"workflowId", "caption", "kind"} => ItemTypeRow(b)[c] = b[c]
    BY DEF ItemTypeRow
  <2>4. QED
    BY <2>1, <2>2, <2>3
<1>4. CASE k = "fieldType"
  <2>1. RowOf(k, b) = FieldTypeRow(b)
    BY <1>4 DEF RowOf
  <2>2. c \in {"itemTypeId", "caption", "valueType"}
    BY <1>4 DEF Table, FieldTypeTable
  <2>3. c \in {"itemTypeId", "caption", "valueType"} => FieldTypeRow(b)[c] = b[c]
    BY DEF FieldTypeRow
  <2>4. QED
    BY <2>1, <2>2, <2>3
<1>5. CASE k = "user"
  <2>1. RowOf(k, b) = UserRow(b)
    BY <1>5 DEF RowOf
  <2>2. c \in {"login", "email", "isBlocked"}
    BY <1>5 DEF Table, UserTable
  <2>3. c \in {"login", "email"} => UserRow(b)[c] = b[c]
    BY DEF UserRow
  <2>4. UserRow(b)["isBlocked"] = WithDefault(b["isBlocked"], FALSE)
    BY DEF UserRow
  <2>5. QED
    BY <2>1, <2>2, <2>3, <2>4
<1>6. QED
  BY <1>1, <1>2, <1>3, <1>4, <1>5 DEF Kinds

(* The row create() inserts.                                               *)
LEMMA CreatedRow ==
    ASSUME NEW r, r.kind \in Kinds, Parsed(r), NEW c \in Table[r.kind].columns
    PROVE  LET kind == Table[r.kind].dto.fields[c]
               col  == RowOf(r.kind, Body(r))[c]
           IN  /\ col \in Values[kind] \cup {Absent}
               /\ IF Sent(r, c)
                  THEN col # Absent /\ (Exact(kind, Rounded(r.doc[c])) => col = Rounded(r.doc[c]))
                  ELSE col = IF c \in {"isArchive", "isBlocked"} THEN FALSE ELSE Absent
<1> DEFINE b    == Body(r)
           kind == Table[r.kind].dto.fields[c]
           col  == RowOf(r.kind, b)[c]
<1>1. /\ Sent(r, c) => /\ b[c] # Absent /\ Write(kind, b[c]) \in Values[kind]
                       /\ Exact(kind, Rounded(r.doc[c])) => Write(kind, b[c]) = Rounded(r.doc[c])
      /\ ~Sent(r, c) => b[c] = Absent
  BY BodyFields
<1>2. kind = "time" <=> c = "beginDate"
  BY ColumnKinds
<1>3. FALSE \in Values["bool"] /\ Absent \notin Values[kind]
  BY ColumnKinds, ValueKinds
<1>4. c \in {"isArchive", "isBlocked"} => kind = "bool"
  BY ColumnKinds
<1>5. /\ c = "beginDate" => col = IF b[c] = Absent THEN Absent ELSE TimePointToSeconds(b[c])
      /\ c \in {"isArchive", "isBlocked"} => col = WithDefault(b[c], FALSE)
      /\ c \notin {"beginDate", "isArchive", "isBlocked"} => col = b[c]
  BY RowColumn
<1> HIDE DEF b, kind, col
<1>6. Sent(r, c) => col = Write(kind, b[c])
  BY <1>1, <1>2, <1>5 DEF Write, WithDefault
<1>7. ~Sent(r, c) => col = IF c \in {"isArchive", "isBlocked"} THEN FALSE ELSE Absent
  BY <1>1, <1>5 DEF WithDefault
<1>8. QED
  BY <1>1, <1>3, <1>4, <1>6, <1>7 DEF b, kind, col

(* The columns a request has to send for its list to be sorted.            *)
LEMMA FilledColumns ==
    ASSUME NEW k \in Kinds, NEW c \in Filled[k], NEW b
    PROVE  /\ c \in Table[k].columns
           /\ c \notin {"isArchive", "isBlocked", "beginDate"}
           /\ Accepts(k, b) => b[c] # Absent
<1>0. Absent \notin ItemKinds
  BY AbsentAssumption
<1>1. CASE k = "itemType"
  BY <1>0, <1>1 DEF Filled, Table, ItemTypeTable, Accepts, ItemTypeAccepts
<1>2. CASE k = "fieldType"
  BY <1>2 DEF Filled, Table, FieldTypeTable, Accepts, FieldTypeAccepts
<1>3. QED
  BY <1>1, <1>2 DEF Filled, Kinds

(* The row update() writes: the columns a body holds, but for users' logins. *)
LEMMA UpdatedRow ==
    ASSUME NEW r, r.kind \in Kinds, Parsed(r), NEW was, IsRow(r.kind, was),
           NEW c \in Table[r.kind].columns
    PROVE  LET row == Updated(r.kind, was, Body(r))
           IN  /\ DOMAIN row = Table[r.kind].columns
               /\ r.kind # "user" =>
                     IF Sent(r, c)
                     THEN /\ row[c] # Absent
                          /\ Exact(Table[r.kind].dto.fields[c], Rounded(r.doc[c]))
                                => row[c] = Rounded(r.doc[c])
                     ELSE row[c] = was[c]
               /\ row[c] \in Values[Table[r.kind].dto.fields[c]] \cup {Absent}
               /\ c \in Filled[r.kind] => row[c] # Absent
<1> DEFINE b    == Body(r)
           kind == Table[r.kind].dto.fields[c]
           row  == Updated(r.kind, was, b)
<1>1. /\ Sent(r, c) => /\ b[c] # Absent /\ Write(kind, b[c]) \in Values[kind]
                       /\ Exact(kind, Rounded(r.doc[c])) => Write(kind, b[c]) = Rounded(r.doc[c])
      /\ ~Sent(r, c) => b[c] = Absent
  BY BodyFields
<1>2. /\ DOMAIN was = Table[r.kind].columns
      /\ was[c] \in Values[kind] \cup {Absent}
      /\ c \in Filled[r.kind] => was[c] # Absent
  BY DEF IsRow
<1>3. /\ DOMAIN row = Table[r.kind].columns
      /\ row[c] = IF c \in Settable[r.kind] /\ b[c] # Absent THEN Write(kind, b[c]) ELSE was[c]
  BY <1>2 DEF Updated
<1>4. r.kind # "user" => c \in Settable[r.kind]
  BY DEF Kinds, Table, ProjectTable, PhaseTable, ItemTypeTable, FieldTypeTable,
         Settable, ProjectSettable, PhaseSettable, ItemTypeSettable, FieldTypeSettable
<1>5. Absent \notin Values[kind]
  BY ColumnKinds, ValueKinds
<1> HIDE DEF b, kind, row
<1>6. QED
  BY <1>1, <1>2, <1>3, <1>4, <1>5 DEF b, kind, row

LEMMA RowsWritten ==
    ASSUME NEW r, r.kind \in Kinds, Parsed(r)
    PROVE  /\ Accepts(r.kind, Body(r)) => IsRow(r.kind, RowOf(r.kind, Body(r)))
           /\ \A was : IsRow(r.kind, was) => IsRow(r.kind, Updated(r.kind, was, Body(r)))
<1>1. ASSUME Accepts(r.kind, Body(r))
      PROVE  IsRow(r.kind, RowOf(r.kind, Body(r)))
  <2>1. ASSUME NEW c \in Filled[r.kind]
        PROVE  RowOf(r.kind, Body(r))[c] # Absent
    <3>1. c \in Table[r.kind].columns /\ c \notin {"isArchive", "isBlocked", "beginDate"}
      BY FilledColumns
    <3>2. RowOf(r.kind, Body(r))[c] = Body(r)[c]
      BY <3>1, RowColumn
    <3>3. QED
      BY <1>1, <3>2, FilledColumns
  <2>2. QED
    BY <2>1, RowColumns, CreatedRow DEF IsRow
<1>2. ASSUME NEW was, IsRow(r.kind, was)
      PROVE  IsRow(r.kind, Updated(r.kind, was, Body(r)))
  <2> DEFINE row == Updated(r.kind, was, Body(r))
  <2>1. \A c \in Table[r.kind].columns :
           /\ row[c] \in Values[Table[r.kind].dto.fields[c]] \cup {Absent}
           /\ c \in Filled[r.kind] => row[c] # Absent
    BY <1>2, UpdatedRow
  <2>2. DOMAIN row = Table[r.kind].columns
    BY <1>2 DEF Updated, IsRow
  <2>3. QED
    BY <2>1, <2>2, FilledColumns DEF IsRow
<1>3. QED
  BY <1>1, <1>2

LEMMA RowArchived ==
    ASSUME NEW k \in {"project", "phase"}, NEW row, IsRow(k, row)
    PROVE  IsRow(k, [row EXCEPT !.isArchive = TRUE])
<1>1. k \in Kinds /\ Filled[k] = {}
  BY DEF Kinds, Filled
<1>2. TRUE \in Values["bool"]
  BY ValueKinds
<1>3. QED
  BY <1>1, <1>2, ColumnKinds DEF IsRow

(* A row that is read shows its columns as they are.                       *)
LEMMA JsonRow ==
    ASSUME NEW k \in Kinds, NEW i, NEW row, IsRow(k, row), NEW c \in Table[k].columns
    PROVE  (IF c \in DOMAIN Json(k, i, row) THEN Json(k, i, row)[c] ELSE Absent) = row[c]
<1> DEFINE kind == Table[k].dto.fields[c]
           obj  == Mapped(k, i, row)
<1>1. /\ c \in DOMAIN Table[k].dto.fields /\ c # "id" /\ DOMAIN Table[k].dto.constant = {}
      /\ kind \in {"int", "string", "bool", "time"}
  BY ColumnKinds
<1>2. c \in DOMAIN row /\ row[c] \in Values[kind] \cup {Absent}
  BY DEF IsRow
<1>3. obj[c] = IF row[c] # Absent THEN FromColumn(kind, row[c]) ELSE Absent
  BY <1>1, <1>2 DEF Mapped
<1>4. /\ c \in DOMAIN Json(k, i, row) <=> obj[c] # Absent
      /\ obj[c] # Absent => Json(k, i, row)[c] = Write(kind, obj[c])
  BY <1>1 DEF Json, ToJson, Written
<1> HIDE DEF kind, obj
<1>5. ASSUME row[c] # Absent
      PROVE  FromColumn(kind, row[c]) # Absent /\ Write(kind, FromColumn(kind, row[c])) = row[c]
  <2>1. CASE kind = "time"
    <3>1. row[c] \in Longs /\ row[c] * Ticks \in Longs
      BY <1>2, <1>5, <2>1, ValueKinds
    <3>2. Longs \subseteq Int /\ Absent \notin Int
      BY LongAssumption, MarksAssumption DEF Longs
    <3>3. QED
      BY <2>1, <3>1, <3>2, ThereAndBack DEF FromColumn, Write
  <2>2. CASE kind # "time"
    BY <1>5, <2>2 DEF FromColumn, Write
  <2>3. QED
    BY <2>1, <2>2
<1>6. QED
  BY <1>3, <1>4, <1>5

--------------------------------------------------------------------------------
(* Rows are added and changed by create(), update() and DELETE of archives. *)
LEMMA FiledStep ==
    ASSUME IInv, EchoInv, Next
    PROVE  Filed'
<1>1. StoreShape /\ Routed /\ Columned /\ Filed
  BY DEF IInv, EchoInv
<1>2. CASE Same
  BY <1>1, <1>2 DEF Same, Filed
<1>3. CASE Shrunk
  BY <1>1, <1>3 DEF Shrunk, Filed, Tables
<1>4. ASSUME NEW t \in Threads, Insert(t), ~(Throw(t) /\ Calm)
      PROVE  Filed'
  <2> DEFINE k   == req[t].kind
             id  == seq[k] + 1
             row == RowOf(k, Body(req[t]))
  <2>1. k \in Kinds /\ Grown(k, id, row)
    BY <1>1, <1>4, InsertGrows
  <2>2. pc[t] = "insert" /\ req[t].op = "create" /\ id \in Ids
    BY <1>1, <1>4 DEF Insert, NextId, Routed, CallOf
  <2>3. IsRow(k, row)
    BY <2>1, <2>2, RowsWritten DEF EchoInv, BodyRead, Writing
  <2>4. id <= MaxId
    BY <2>2 DEF Ids
  <2> HIDE DEF k, id, row
  <2>5. QED
    BY <1>1, <2>1, <2>3, <2>4 DEF Grown, Filed, Tables
<1>5. ASSUME NEW t \in Threads, Update(t), ~(Refuse(t) /\ Calm)
      PROVE  Filed'
  <2> DEFINE k   == req[t].kind
             id  == req[t].id
             row == Updated(k, rows[k][id], Body(req[t]))
  <2>1. k \in Kinds /\ id \in DOMAIN rows[k] /\ Edited(k, id, row)
    BY <1>1, <1>5, UpdateEdits
  <2>2. pc[t] = "update" /\ req[t].op = "update"
    BY <1>1, <1>5 DEF Update, Routed, CallOf
  <2>3. IsRow(k, rows[k][id])
    BY <1>1, <2>1 DEF Filed
  <2>4. IsRow(k, row)
    BY <2>1, <2>2, <2>3, RowsWritten DEF EchoInv, BodyRead, Writing
  <2> HIDE DEF k, id, row
  <2>5. QED
    BY <1>1, <2>1, <2>4 DEF Edited, Filed, Tables
<1>6. ASSUME NEW t \in Threads, Archive(t), ~(Refuse(t) /\ Calm)
      PROVE  Filed'
  <2> DEFINE k   == req[t].kind
             id  == req[t].id
             row == [rows[k][id] EXCEPT !.isArchive = TRUE]
  <2>1. k \in {"project", "phase"} /\ id \in DOMAIN rows[k] /\ Edited(k, id, row)
    BY <1>1, <1>6, ArchiveEdits
  <2>2. k \in Kinds /\ IsRow(k, rows[k][id])
    BY <1>1, <2>1 DEF Filed, Kinds
  <2>3. IsRow(k, row)
    BY <2>1, <2>2, RowArchived
  <2> HIDE DEF k, id, row
  <2>4. QED
    BY <1>1, <2>1, <2>2, <2>3 DEF Edited, Filed, Tables
<1>7. ASSUME NEW t \in Threads, (Throw(t) /\ Calm) \/ (Refuse(t) /\ Calm)
      PROVE  Same
  BY <1>7 DEF Throw, Refuse, Answer, Same, storeVars
<1>8. QED
  BY <1>1, <1>2, <1>3, <1>4, <1>5, <1>6, <1>7, FewerOrSame

(* A call that neither shows a row nor leads to one that does.             *)
Moves(t) ==
    /\ req'[t] = req[t]
    /\ reply'[t].json = << >>
    /\ pc'[t] \in Writing => pc[t] \in Writing
    /\ pc'[t] \in {"existsByLogin", "insert"} => pc[t] = "existsByLogin"
    /\ pc'[t] \notin {"lastInsertId", "findById"}

LEMMA MovesKeep ==
    ASSUME NEW t, Moves(t), BodyRead(t)
    PROVE  BodyRead(t)' /\ Kept(t)' /\ Echoed(t)'
<1>1. BodyRead(t)'
  BY DEF Moves, BodyRead, Parsed, Accepts, Writing
<1>2. Kept(t)'
  BY DEF Moves, Kept
<1>3. Echoed(t)'
  BY DEF Moves, Echoed
<1>4. QED
  BY <1>1, <1>2, <1>3

LEMMA Ended ==
    ASSUME IInv, NEW t \in Threads, Throw(t) \/ Refuse(t)
    PROVE  Moves(t)
<1>1. ThreadShape
  BY DEF IInv
<1>2. \E code : Send(t, [NoReply EXCEPT !.code = code])
  BY DEF Throw, Refuse, Answer
<1>3. QED
  BY <1>1, <1>2 DEF Send, NoReply, ThreadShape, Moves, Writing

LEMMA Called ==
    ASSUME IInv, NEW t \in Threads, NEW call, Goto(t, call), pc[t] # "answer", Echoed(t),
           call \in Writing => pc[t] \in Writing,
           call \in {"existsByLogin", "insert"} => pc[t] = "existsByLogin",
           call \notin {"lastInsertId", "findById"}
    PROVE  Moves(t)
<1>1. ThreadShape
  BY DEF IInv
<1>2. QED
  BY <1>1 DEF Goto, ThreadShape, Moves, Echoed

LEMMA OtherCalls ==
    ASSUME IInv, NEW t \in Threads, Echoed(t),
           \/ CallFails(t) \/ CallFailsQuietly(t) \/ Count(t) \/ Select(t)
           \/ ExistsByLogin(t) \/ Exists(t) \/ Archive(t) \/ UsageCount(t) \/ Remove(t)
    PROVE  Moves(t)
<1>0. ThreadShape /\ Routed
  BY DEF IInv
<1>1. ASSUME NEW answer, Send(t, answer), answer.json = << >>
      PROVE  Moves(t)
  BY <1>0, <1>1 DEF Send, ThreadShape, Moves, Writing
<1>2. CASE CallFails(t)
  BY <1>2, Ended DEF CallFails
<1>3. CASE CallFailsQuietly(t)
  BY <1>3, Ended, Called DEF CallFailsQuietly, Continue, Writing
<1>4. CASE Count(t)
  <2>1. ASSUME NEW total, Send(t, [NoReply EXCEPT !.code = 200, !.total = total])
        PROVE  Moves(t)
    BY <1>1, <2>1 DEF NoReply
  <2>2. QED
    BY <1>4, <2>1, Called DEF Count, Writing
<1>5. CASE Select(t)
  <2>1. ASSUME NEW ids, NEW total, Send(t, [NoReply EXCEPT !.code = 200, !.ids = ids, !.total = total])
        PROVE  Moves(t)
    BY <1>1, <2>1 DEF NoReply
  <2>2. PICK page : \/ Send(t, [NoReply EXCEPT !.code = 200, !.ids = page, !.total = loc[t].total])
                    \/ Throw(t)
    BY <1>5 DEF Select
  <2>3. QED
    BY <2>1, <2>2, Ended
<1>6. CASE ExistsByLogin(t)
  BY <1>6, Ended, Called DEF ExistsByLogin, Continue, Writing
<1>7. CASE Exists(t)
  <2>1. /\ pc[t] = "exists" /\ req[t].op \in {"update", "delete"}
        /\ req[t].kind \in Kinds /\ req[t].kind # "user"
    BY <1>0, <1>7 DEF Exists, Routed, CallOf
  <2> DEFINE next == IF req[t].op = "update" THEN "update" ELSE Calls[req[t].kind].drop
  <2>2. next \in {"update", "archive", "usageCount"}
    BY <2>1, CallKinds
  <2>3. Refuse(t) \/ Goto(t, next)
    BY <1>7 DEF Exists, Continue
  <2> HIDE DEF next
  <2>4. QED
    BY <2>1, <2>2, <2>3, Ended, Called DEF Writing
<1>8. CASE Archive(t)
  <2>1. Refuse(t) \/ Send(t, [NoReply EXCEPT !.code = 204])
    BY <1>8 DEF Archive, Answer
  <2>2. QED
    BY <1>1, <2>1, Ended DEF NoReply
<1>9. CASE UsageCount(t)
  BY <1>9, Ended, Called DEF UsageCount, Continue, Writing
<1>10. CASE Remove(t)
  <2>1. Refuse(t) \/ Send(t, [NoReply EXCEPT !.code = 204])
    BY <1>10 DEF Remove
  <2>2. QED
    BY <1>1, <2>1, Ended DEF NoReply
<1>11. QED
  BY <1>2, <1>3, <1>4, <1>5, <1>6, <1>7, <1>8, <1>9, <1>10

(* The thread that takes the step.                                         *)
LEMMA OwnEcho ==
    ASSUME IInv, EchoInv, NEW t \in Threads, Step(t)
    PROVE  BodyRead(t)' /\ Kept(t)' /\ Echoed(t)'
<1>1. ThreadShape /\ Routed /\ StoreShape /\ Minded(t)
  BY DEF IInv
<1>2. Filed /\ BodyRead(t) /\ Kept(t) /\ Echoed(t)
  BY DEF EchoInv
<1>3. ASSUME Moves(t)
      PROVE  BodyRead(t)' /\ Kept(t)' /\ Echoed(t)'
  BY <1>2, <1>3, MovesKeep
<1>4. ASSUME NEW r \in offered, Receive(t, r)
      PROVE  BodyRead(t)' /\ Kept(t)' /\ Echoed(t)'
  <2>1. r.kind \in Kinds /\ r.op \in Ops
    BY <1>1, WorkloadsAssumption DEF Ops, ThreadShape
  <2>2. /\ pc[t] = "idle" /\ req'[t] = r /\ reply'[t].json = reply[t].json
        /\ \/ pc'[t] = "answer"
           \/ pc'[t] = Calls[r.kind][r.op] /\ Rejection(r) = 0
    BY <1>1, <1>4 DEF Receive, ThreadShape
  <2>3. reply'[t].json = << >>
    BY <1>2, <2>2 DEF Echoed
  <2>4. Rejection(r) = 0 /\ r.op \in {"create", "update"} =>
           /\ r.doc # Broken
           /\ r.op = "create" => Accepts(r.kind, Body(r))
    BY <2>1, CodeValues DEF Rejection, Refusal
  <2>5. Rejection(r) = 0 /\ r.op \in {"create", "update"} => Parsed(r)
    BY <1>1, <2>4, DocumentsAssumption DEF Parsed, ThreadShape
  <2>6. pc'[t] = Calls[r.kind][r.op] =>
           /\ pc'[t] \notin {"answer", "lastInsertId"}
           /\ pc'[t] = "findById" => r.op = "get"
           /\ pc'[t] \in {"existsByLogin", "insert"} => r.op = "create"
    BY <2>1, CallKinds DEF Ops
  <2>7. BodyRead(t)'
    BY <2>2, <2>4, <2>5, <2>6 DEF BodyRead, Writing, Parsed, Accepts
  <2>8. Kept(t)'
    BY <2>2, <2>6 DEF Kept
  <2>9. Echoed(t)'
    BY <2>3 DEF Echoed
  <2>10. QED
    BY <2>7, <2>8, <2>9
<1>5. CASE Respond(t)
  <2>1. pc'[t] = "idle" /\ reply'[t].json = << >>
    BY <1>1, <1>5 DEF Respond, NoReply, ThreadShape
  <2>2. QED
    BY <2>1 DEF BodyRead, Kept, Echoed, Writing
<1>6. CASE FindById(t)
  <2> DEFINE k    == req[t].kind
             id   == IF req[t].op = "create" THEN loc[t].id ELSE req[t].id
             code == CASE req[t].op = "get"    -> 200
                       [] req[t].op = "create" -> Codes[k].created
                       [] req[t].op = "update" -> Codes[k].updated
             json == IF code = 204 THEN << >> ELSE Json(k, id, rows[k][id])
             answer == [NoReply EXCEPT !.code = code, !.id = id, !.json = json]
  <2>1. /\ pc[t] = "findById" /\ note' = note /\ k \in Kinds
        /\ req[t].op \in {"get", "create", "update"}
    BY <1>1, <1>6 DEF FindById, Calm, Routed, CallOf
  <2>2. \/ Refuse(t) \/ Throw(t)
        \/ id \in DOMAIN rows[k] /\ Send(t, answer)
    BY <1>6 DEF FindById
  <2>3. ASSUME id \in DOMAIN rows[k], Send(t, answer)
        PROVE  BodyRead(t)' /\ Kept(t)' /\ Echoed(t)'
    <3>0. answer.json = json
      <4> HIDE DEF json, code, id
      <4>1. QED
        BY DEF NoReply
    <3>1. pc'[t] = "answer" /\ reply'[t].json = json /\ req' = req
      <4> HIDE DEF answer, json
      <4>1. QED
        BY <1>1, <2>3, <3>0 DEF Send, ThreadShape
    <3>2. ASSUME req[t].op \in {"create", "update"}, note[t].calm, json # << >>
          PROVE  Shows(json, req[t], note[t].was)
      <4>1. Parsed(req[t])
        BY <1>2, <2>1, <3>2 DEF BodyRead, Writing
      <4>2. id = note[t].mine
        BY <1>1, <2>1, <3>2 DEF Minded
      <4>3. /\ rows[k][id] = Wanted(t)
            /\ req[t].op = "update" => IsRow(k, note[t].was)
        BY <1>2, <2>1, <3>2, <4>2 DEF Kept
      <4>4. json = Json(k, id, rows[k][id])
        BY <3>2
      <4>5. req[t].op = "update" => k # "user"
        BY <2>1, <3>2 DEF Codes, UserCodes
      <4>6. IsRow(k, rows[k][id])
        BY <1>2, <2>1, <2>3 DEF Filed
      <4> HIDE DEF json, id
      <4>7. ASSUME NEW c \in Table[k].columns
            PROVE  LET shown == IF c \in DOMAIN json THEN json[c] ELSE Absent
                       sent  == Rounded(req[t].doc[c])
                   IN  IF Sent(req[t], c)
                       THEN shown # Absent /\ (Exact(Table[k].dto.fields[c], sent) => shown = sent)
                       ELSE shown = IF req[t].op = "update" THEN note[t].was[c]
                                    ELSE IF c \in {"isArchive", "isBlocked"} THEN FALSE ELSE Absent
        <5>1. (IF c \in DOMAIN json THEN json[c] ELSE Absent) = rows[k][id][c]
          BY <2>1, <4>4, <4>6, JsonRow
        <5>2. CASE req[t].op = "create"
          <6>1. rows[k][id][c] = RowOf(k, Body(req[t]))[c]
            BY <4>3, <5>2 DEF Wanted
          <6>2. QED
            BY <2>1, <4>1, <5>1, <5>2, <6>1, CreatedRow
        <5>3. CASE req[t].op = "update"
          <6>1. rows[k][id][c] = Updated(k, note[t].was, Body(req[t]))[c] /\ IsRow(k, note[t].was)
            BY <4>3, <5>3 DEF Wanted
          <6>2. QED
            BY <2>1, <4>1, <4>5, <5>1, <5>3, <6>1, UpdatedRow
        <5>4. QED
          BY <3>2, <5>2, <5>3
      <4>8. QED
        BY <4>7 DEF Shows
    <3> HIDE DEF json
    <3>3. Echoed(t)'
      BY <2>1, <3>1, <3>2 DEF Echoed, Shows, Sent
    <3>4. QED
      BY <3>1, <3>3 DEF BodyRead, Kept, Writing
  <2>4. QED
    BY <1>3, <2>2, <2>3, Ended
<1>7. CASE Insert(t)
  <2>1. pc[t] = "insert" /\ req[t].op = "create"
    BY <1>1, <1>7 DEF Insert, Routed, CallOf
  <2>2. CASE Throw(t) /\ Calm
    BY <1>3, <2>2, Ended
  <2>3. CASE ~(Throw(t) /\ Calm)
    <3> DEFINE k  == req[t].kind
               id == seq[k] + 1
    <3>1. rows'[k][id] = RowOf(k, Body(req[t]))
      BY <1>1, <1>7, <2>3, InsertGrows DEF Grown
    <3>2. Continue(t, "lastInsertId") /\ Disturb(t, id, << >>, {})
      BY <1>7, <2>3 DEF Insert, NextId
    <3>3. pc'[t] = "lastInsertId" /\ req' = req /\ reply' = reply /\ note'[t].mine = id
      BY <1>1, <3>2, Calling, Disturbing DEF Continue, Goto
    <3>4. BodyRead(t)' /\ Echoed(t)'
      BY <1>2, <2>1, <3>3 DEF BodyRead, Echoed, Writing, Parsed
    <3>5. Kept(t)'
      BY <2>1, <3>1, <3>3 DEF Kept, Wanted
    <3>6. QED
      BY <3>4, <3>5
  <2>4. QED
    BY <2>2, <2>3
<1>8. CASE LastInsertId(t)
  <2>1. /\ pc[t] = "lastInsertId" /\ pc'[t] = "findById" /\ req' = req /\ reply' = reply
        /\ note' = note /\ rows' = rows
    BY <1>1, <1>8 DEF LastInsertId, Goto, Calm, storeVars, ThreadShape
  <2>2. req[t].op = "create"
    BY <1>1, <2>1 DEF Routed, CallOf
  <2>3. QED
    BY <1>2, <2>1, <2>2 DEF BodyRead, Kept, Wanted, Echoed, Writing, Parsed
<1>9. CASE Update(t)
  <2>1. pc[t] = "update" /\ req[t].op = "update"
    BY <1>1, <1>9 DEF Update, Routed, CallOf
  <2>2. CASE Refuse(t) /\ Calm
    BY <1>3, <2>2, Ended
  <2>3. CASE ~(Refuse(t) /\ Calm)
    <3> DEFINE k  == req[t].kind
               id == req[t].id
               was == rows[k][id]
    <3>1. k \in Kinds /\ id \in DOMAIN rows[k] /\ rows'[k][id] = Updated(k, was, Body(req[t]))
      BY <1>1, <1>9, <2>3, UpdateEdits DEF Edited
    <3>2. Continue(t, "findById") /\ Disturb(t, id, was, {})
      BY <1>9, <2>3 DEF Update
    <3>3. pc'[t] = "findById" /\ req' = req /\ reply' = reply
      BY <1>1, <3>2, Calling DEF Continue, Goto
    <3>4. note'[t].mine = id /\ note'[t].was = was
      <4> HIDE DEF was, id
      <4>1. QED
        BY <1>1, <3>2, Disturbing
    <3>5. BodyRead(t)' /\ Echoed(t)'
      BY <1>2, <2>1, <3>3 DEF BodyRead, Echoed, Writing, Parsed
    <3>6. IsRow(k, was)
      BY <1>2, <3>1 DEF Filed
    <3> HIDE DEF was
    <3>7. Kept(t)'
      BY <2>1, <3>1, <3>3, <3>4, <3>6 DEF Kept, Wanted
    <3>8. QED
      BY <3>5, <3>7
  <2>4. QED
    BY <2>2, <2>3
<1>10. QED
  BY <1>2, <1>3, <1>4, <1>5, <1>6, <1>7, <1>8, <1>9, OtherCalls DEF Step

(* A thread that takes no step: a write of another only makes it not calm. *)
LEMMA EchoElsewhere ==
    ASSUME NEW u \in Threads, KeptFor(u), BodyRead(u), Kept(u), Echoed(u)
    PROVE  BodyRead(u)' /\ Kept(u)' /\ Echoed(u)'
<1>1. BodyRead(u)'
  BY DEF KeptFor, BodyRead, Parsed, Accepts
<1>2. CASE Undisturbed(u)
  BY <1>1, <1>2 DEF Undisturbed, KeptFor, Kept, Wanted, Echoed, Shows, Sent
<1>3. CASE ~note'[u].calm
  BY <1>1, <1>3 DEF KeptFor, Kept, Echoed
<1>4. QED
  BY <1>2, <1>3 DEF KeptFor

LEMMA EchoStep ==
    ASSUME IInv, EchoInv, Next
    PROVE  EchoInv'
<1>1. ASSUME NEW u \in Threads
      PROVE  BodyRead(u)' /\ Kept(u)' /\ Echoed(u)'
  <2>1. BodyRead(u) /\ Kept(u) /\ Echoed(u)
    BY DEF EchoInv
  <2>2. ASSUME NEW t \in Threads, Step(t)
        PROVE  BodyRead(u)' /\ Kept(u)' /\ Echoed(u)'
    <3>1. CASE t = u
      BY <2>2, <3>1, OwnEcho
    <3>2. CASE t # u
      BY <2>1, <2>2, <3>2, Others, EchoElsewhere
    <3>3. QED
      BY <3>1, <3>2
  <2>3. CASE Elsewhere
    BY <2>1, <2>3, Outside, EchoElsewhere
  <2>4. QED
    BY <2>2, <2>3 DEF Next, DropWorkflow, Use
<1>2. QED
  BY <1>1, FiledStep DEF EchoInv

LEMMA EchoInvariance == Spec => []EchoInv
<1>1. Init => EchoInv
  <2> SUFFICES ASSUME Init PROVE EchoInv
    OBVIOUS
  <2>1. Filed
    BY SeedAssumption DEF Init, Filed
  <2>2. \A t \in Threads : BodyRead(t) /\ Kept(t) /\ Echoed(t)
    BY DEF Init, NoReply, BodyRead, Kept, Echoed, Writing
  <2>3. QED
    BY <2>1, <2>2 DEF EchoInv
<1>2. IInv /\ EchoInv /\ [Next]_vars => EchoInv'
  <2> SUFFICES ASSUME IInv, EchoInv, [Next]_vars PROVE EchoInv'
    OBVIOUS
  <2>1. CASE Next
    BY <2>1, EchoStep
  <2>2. CASE UNCHANGED vars
    <3>1. rows' = rows /\ seq' = seq /\ pc' = pc /\ req' = req /\ reply' = reply /\ note' = note
      BY <2>2 DEF vars, storeVars, threadVars
    <3>2. ASSUME NEW t \in Threads
          PROVE  BodyRead(t)' /\ Kept(t)' /\ Echoed(t)'
      <4>1. BodyRead(t)'
        BY <3>1 DEF EchoInv, BodyRead, Parsed, Accepts
      <4>2. Kept(t)'
        BY <3>1 DEF EchoInv, Kept, Wanted
      <4>3. Echoed(t)'
        BY <3>1 DEF EchoInv, Echoed, Shows, Sent
      <4>4. QED
        BY <4>1, <4>2, <4>3
    <3>3. QED
      BY <3>1, <3>2 DEF EchoInv, Filed
  <2>3. QED
    BY <2>1, <2>2
<1>3. QED
  BY <1>1, <1>2, Invariance, PTL DEF Spec

(* create() and update() and the findById() they end with, when nobody     *)
(* else wrote: every column of the row in a 201 or a 200 that the body had *)
(* a readable value for has it, through DTO, columns and DTO, and no other *)
(* column has changed.  The value is the one sent but for its fraction, if *)
(* an int64_t, and for a date the clock, holds it; if not, it is some      *)
(* other: fromJson() folds numbers without a word.                         *)
THEOREM AnswersEcho == Spec => []EchoesBody
<1>1. EchoInv => EchoesBody
  BY DEF EchoInv, Echoed, EchoesBody
<1>2. QED
  BY <1>1, EchoInvariance, PTL

--------------------------------------------------------------------------------
(* Pages.  In the lists of projects, users and phases the keys end with    *)
(* the identifier: comparing them is comparing numbers one after the other. *)
LEMMA ByOne ==
    ASSUME NEW k \in {"project", "user"}, NEW i, NEW j
    PROVE  Before(k, i, j) <=> i < j
<1>1. /\ Ranked(k, i, rows[k][i]) = <<i>>
      /\ Ranked(k, j, rows[k][j]) = <<j>>
  BY DEF Ranked, ProjectKey, UserKey
<1> DEFINE p == <<i>>
           q == <<j>>
           Less(n) == p[n] < q[n] /\ \A m \in 1 .. n - 1 : p[m] = q[m]
<1>2. Before(k, i, j) <=> \E n \in DOMAIN p : Less(n)
  BY <1>1, Zenon DEF Before
<1>3. DOMAIN p = {1}
  OBVIOUS
<1>4. Less(1) <=> i < j
  OBVIOUS
<1> HIDE DEF Less
<1>5. QED
  BY <1>2, <1>3, <1>4

LEMMA ByTwo ==
    ASSUME NEW k, NEW i, NEW j, NEW a \in Int, NEW b \in Int,
           Ranked(k, i, rows[k][i]) = <<a, i>>, Ranked(k, j, rows[k][j]) = <<b, j>>
    PROVE  Before(k, i, j) <=> a < b \/ (a = b /\ i < j)
<1> DEFINE p == <<a, i>>
           q == <<b, j>>
           Less(n) == p[n] < q[n] /\ \A m \in 1 .. n - 1 : p[m] = q[m]
<1>1. Before(k, i, j) <=> \E n \in 1 .. 2 : Less(n)
  <2>1. DOMAIN p = 1 .. 2
    OBVIOUS
  <2>2. Before(k, i, j) <=> \E n \in DOMAIN p : Less(n)
    BY Zenon DEF Before
  <2>3. QED
    BY <2>1, <2>2
<1>2. Less(1) <=> a < b
  OBVIOUS
<1>3. Less(2) <=> a = b /\ i < j
  <2>1. 1 .. 2 - 1 = {1}
    OBVIOUS
  <2>2. QED
    BY <2>1
<1> HIDE DEF Less
<1>4. 1 .. 2 = {1, 2}
  OBVIOUS
<1>5. QED
  BY <1>1, <1>2, <1>3, <1>4

(* No order of theirs leaves it open which of two rows comes first.        *)
LEMMA Apart ==
    ASSUME StoreShape, Numbered, Filed, NEW k \in {"project", "phase", "user"}, NEW i \in DOMAIN rows[k]
    PROVE  Distinct(k, i)
<1>0. \A j \in DOMAIN rows[k] : j \in Int
  BY DEF Numbered, StoreShape, Kinds
<1>1. CASE k \in {"project", "user"}
  BY <1>0, <1>1, ByOne DEF Distinct
<1>2. CASE k = "phase"
  <2> DEFINE Date(j) == WithDefault(rows[k][j].beginDate, -LongHalf - 1)
  <2>1. \A j \in DOMAIN rows[k] : Date(j) \in Int
    <3>1. "beginDate" \in Table["phase"].columns /\ Table["phase"].dto.fields["beginDate"] = "time"
      BY DEF Table, PhaseTable, Phase, Dto
    <3>2. Values["time"] \subseteq Longs /\ Longs \subseteq Int
      BY ValueKinds, LongAssumption DEF Longs
    <3>3. \A j \in DOMAIN rows[k] : rows[k][j]["beginDate"] \in Int \cup {Absent}
      BY <1>2, <3>1, <3>2 DEF Filed, IsRow, Kinds
    <3>4. -LongHalf - 1 \in Int
      BY LongAssumption
    <3>5. QED
      BY <3>3, <3>4 DEF WithDefault
  <2>2. \A j \in DOMAIN rows[k] : Ranked(k, j, rows[k][j]) = <<Date(j), j>>
    BY <1>2 DEF Ranked, PhaseKey
  <2> HIDE DEF Date
  <2>3. \A h, j \in DOMAIN rows[k] :
           Before(k, h, j) <=> Date(h) < Date(j) \/ (Date(h) = Date(j) /\ h < j)
    BY <2>1, <2>2, ByTwo
  <2>4. QED
    BY <1>0, <2>1, <2>3 DEF Distinct
<1>3. QED
  BY <1>1, <1>2

LEMMA FewRows ==
    ASSUME StoreShape, Numbered, Filed, NEW k \in Kinds
    PROVE  IsFiniteSet(DOMAIN rows[k]) /\ Cardinality(DOMAIN rows[k]) \in 0 .. MaxId
<1> DEFINE S == DOMAIN rows[k]
<1>1. S \in SUBSET (1 .. MaxId) /\ MaxId \in Nat
  BY MaxIdAssumption DEF Numbered, Filed, StoreShape
<1>2. IsFiniteSet(1 .. MaxId) /\ Cardinality(1 .. MaxId) <= MaxId
  BY <1>1, FS_Interval
<1>3. IsFiniteSet(S) /\ Cardinality(S) <= Cardinality(1 .. MaxId)
  BY <1>1, <1>2, FS_Subset
<1>4. Cardinality(S) \in Nat /\ Cardinality(1 .. MaxId) \in Nat
  BY <1>2, <1>3, FS_CardinalityType
<1>5. QED
  BY <1>1, <1>2, <1>3, <1>4

(* In a numbering of a finite set an element has the number of those       *)
(* before it.                                                              *)
LEMMA Standing ==
    ASSUME NEW S, IsFiniteSet(S), NEW o \in [S -> 0 .. Cardinality(S) - 1],
           \A h, j \in S : h # j => o[h] # o[j], NEW i \in S
    PROVE  Cardinality({j \in S : o[j] < o[i]}) = o[i]
<1> DEFINE n     == Cardinality(S)
           T     == 0 .. n - 1
           m     == o[i]
           U     == 0 .. m - 1
           ahead == {j \in S : o[j] < o[i]}
           g     == [j \in ahead |-> o[j]]
<1>1. n \in Nat /\ IsFiniteSet(T) /\ Cardinality(T) = n
  <2>1. n \in Nat
    BY FS_CardinalityType
  <2> HIDE DEF n
  <2>2. IsFiniteSet(0 .. n - 1) /\ Cardinality(0 .. n - 1) = IF 0 > n - 1 THEN 0 ELSE n - 1 - 0 + 1
    BY <2>1, FS_Interval
  <2>3. QED
    BY <2>1, <2>2
<1>2. o \in [S -> T]
  OBVIOUS
<1>3. m \in Nat /\ m < n
  <2> HIDE DEF n
  <2>1. QED
    BY <1>1, <1>2
<1> HIDE DEF n, m
<1>4. o \in Injection(S, T)
  BY <1>2 DEF Injection, IsInjective
<1>5. o \in Surjection(S, T)
  <2>1. Cardinality(S) = Cardinality(T)
    BY <1>1 DEF n
  <2> HIDE DEF T
  <2>2. QED
    BY <1>1, <1>4, <2>1, FS_Injection
<1>6. IsFiniteSet(U) /\ Cardinality(U) = m
  <2>1. m - 1 \in Int
    BY <1>3
  <2>2. \A b \in Int : /\ IsFiniteSet(0 .. b)
                      /\ Cardinality(0 .. b) = IF 0 > b THEN 0 ELSE b - 0 + 1
    BY FS_Interval
  <2>3. m > 0 => ~(0 > m - 1) /\ m - 1 - 0 + 1 = m
    BY <1>3
  <2>4. ~(m > 0) => 0 > m - 1 /\ m = 0
    BY <1>3
  <2>5. IsFiniteSet(0 .. m - 1) /\ Cardinality(0 .. m - 1) = IF 0 > m - 1 THEN 0 ELSE m - 1 - 0 + 1
    BY <2>1, <2>2
  <2>6. QED
    BY <2>3, <2>4, <2>5
<1>7. \A j \in ahead : j \in S /\ o[j] \in Int /\ 0 <= o[j] /\ o[j] < m
  BY <1>1, <1>2 DEF m
<1>8. g \in [ahead -> U]
  <2> HIDE DEF ahead
  <2>1. QED
    BY <1>3, <1>7
<1>9. g \in Injection(ahead, U)
  <2>1. \A h, j \in ahead : g[h] = g[j] => h = j
    BY <1>7
  <2> HIDE DEF g, ahead, U
  <2>2. QED
    BY <1>8, <2>1 DEF Injection, IsInjective
<1>10. g \in Surjection(ahead, U)
  <2>1. ASSUME NEW x \in U
        PROVE  \E j \in ahead : g[j] = x
    <3>1. x \in T /\ x < m
      BY <1>1, <1>3
    <3>2. PICK j \in S : o[j] = x
      BY <1>5, <3>1 DEF Surjection
    <3>3. j \in ahead
      BY <3>1, <3>2 DEF m
    <3>4. QED
      BY <3>2, <3>3
  <2> HIDE DEF g, ahead, U
  <2>2. QED
    BY <1>8, <2>1 DEF Surjection
<1> HIDE DEF g, ahead, U
<1>11. Cardinality(ahead) = Cardinality(U)
  BY <1>6, <1>9, <1>10, FS_Injection
<1>12. QED
  BY <1>6, <1>11 DEF ahead, m

(* The place of a row that equals no other is the same in every list.      *)
Place(k, i) == Cardinality({j \in DOMAIN rows[k] \ {i} : Before(k, j, i)})

LEMMA Placed ==
    ASSUME StoreShape, Numbered, Filed, NEW k \in Kinds, NEW i \in DOMAIN rows[k], Distinct(k, i),
           NEW o \in Orders(k, DOMAIN rows[k])
    PROVE  o[i] = Place(k, i)
<1> DEFINE S == DOMAIN rows[k]
<1>1. /\ o \in [S -> 0 .. Cardinality(S) - 1]
      /\ \A h, j \in S : h # j => o[h] # o[j] /\ (Before(k, h, j) => o[h] < o[j])
  BY DEF Orders
<1>2. IsFiniteSet(S) /\ Cardinality(S) \in Int
  BY FewRows, MaxIdAssumption
<1>3. \A j \in S : o[j] \in Int
  <2> HIDE DEF S
  <2>1. QED
    BY <1>1, <1>2
<1>4. {j \in S : o[j] < o[i]} = {j \in S \ {i} : Before(k, j, i)}
  <2>1. \A j \in S \ {i} : o[j] < o[i] <=> Before(k, j, i)
    BY <1>1, <1>3 DEF Distinct
  <2>2. ~(o[i] < o[i])
    BY <1>3
  <2>3. QED
    BY <2>1, <2>2
<1>5. Cardinality({j \in S : o[j] < o[i]}) = o[i]
  <2> HIDE DEF S
  <2>1. i \in S
    BY DEF S
  <2>2. QED
    BY <1>1, <1>2, <2>1, Standing
<1>6. QED
  BY <1>4, <1>5 DEF Place

LEMMA PlaceInRange ==
    ASSUME StoreShape, Numbered, Filed, NEW k \in Kinds, NEW i \in DOMAIN rows[k]
    PROVE  Place(k, i) \in 0 .. Cardinality(DOMAIN rows[k]) - 1 /\ Place(k, i) \in 0 .. MaxId - 1
<1> DEFINE S     == DOMAIN rows[k]
           ahead == {j \in S \ {i} : Before(k, j, i)}
<1>1. IsFiniteSet(S) /\ Cardinality(S) \in 0 .. MaxId /\ MaxId \in Nat
  BY FewRows, MaxIdAssumption
<1>2. ahead \in SUBSET (S \ {i}) /\ i \in S
  OBVIOUS
<1> HIDE DEF ahead, S
<1>3. IsFiniteSet(S \ {i}) /\ Cardinality(S \ {i}) = Cardinality(S) - 1
  BY <1>1, <1>2, FS_RemoveElement
<1>4. IsFiniteSet(ahead) /\ Cardinality(ahead) <= Cardinality(S \ {i})
  BY <1>2, <1>3, FS_Subset
<1>5. Cardinality(ahead) \in Nat
  BY <1>4, FS_CardinalityType
<1>6. QED
  BY <1>1, <1>3, <1>4, <1>5 DEF Place, ahead, S

(* The offset of no page overflows an int.                                 *)
LEMMA OffsetFits ==
    ASSUME NEW size \in Ids, size * MaxId <= Half, NEW p \in Ids
    PROVE  Offset(p, size) = (p - 1) * size /\ (p - 1) * size >= 0
<1>1. /\ MaxId \in Nat /\ Half \in Nat /\ Half > 0 /\ p \in Nat /\ p - 1 \in Nat /\ p <= MaxId
      /\ size \in Nat /\ size > 0
  BY MaxIdAssumption, HalfAssumption DEF Ids
<1> DEFINE n == (p - 1) * size
<1>2. n \in Nat
  BY <1>1
<1>3. n + size <= MaxId * size
  <2>1. n + size = p * size
    BY <1>1
  <2>2. MaxId - p \in Nat
    BY <1>1
  <2>3. (MaxId - p) * size \in Nat
    BY <1>1, <2>2
  <2>4. (MaxId - p) * size = MaxId * size - p * size
    BY <1>1
  <2>5. QED
    BY <1>1, <2>1, <2>3, <2>4
<1>4. MaxId * size = size * MaxId
  BY <1>1
<1> HIDE DEF n
<1>5. n < Half
  <2>1. size * MaxId \in Int
    BY <1>1
  <2>2. QED
    BY <1>1, <1>2, <1>3, <1>4, <2>1
<1>6. Int32(n) = n
  <2>1. (n + Half) \in 0 .. 2 * Half - 1
    BY <1>1, <1>2, <1>5
  <2>2. (n + Half) % (2 * Half) = n + Half
    BY <1>1, <2>1
  <2>3. QED
    BY <1>1, <1>2, <2>2 DEF Int32
<1>7. QED
  BY <1>2, <1>6 DEF Offset, n

(* A place is within one page: the pages cut the list into pieces of size.  *)
LEMMA OnePage ==
    ASSUME NEW size \in Nat, size > 0, NEW place \in 0 .. MaxId - 1
    PROVE  \E p \in Ids : \A q \in Ids :
              (q - 1) * size <= place /\ place < (q - 1) * size + size <=> q = p
<1> DEFINE d == place \div size
<1>1. MaxId \in Nat /\ place \in Nat /\ place < MaxId
  BY MaxIdAssumption
<1>2. d \in Nat /\ d * size <= place /\ place < d * size + size
  BY <1>1
<1> HIDE DEF d
<1>3. d <= place
  <2>1. d * size - d = d * (size - 1)
    BY <1>2
  <2>2. d * (size - 1) \in Nat
    BY <1>2
  <2>3. d * size \in Int
    BY <1>2
  <2>4. QED
    BY <1>1, <1>2, <2>1, <2>2, <2>3
<1>4. d + 1 \in Ids
  BY <1>1, <1>2, <1>3 DEF Ids
<1>5. ASSUME NEW q \in Ids, (q - 1) * size <= place, place < (q - 1) * size + size
      PROVE  q = d + 1
  <2>0. q - 1 \in Nat /\ q \in Nat
    BY <1>1 DEF Ids
  <2>1. CASE q - 1 < d
    <3>1. d - q \in Nat /\ (d - q) * size \in Nat
      BY <1>2, <2>0, <2>1
    <3>2. (d - q) * size = d * size - (q - 1) * size - size
      BY <1>2, <2>0
    <3>3. (q - 1) * size \in Int /\ d * size \in Int
      BY <1>2, <2>0
    <3>4. QED
      BY <1>1, <1>2, <1>5, <3>1, <3>2, <3>3
  <2>2. CASE d < q - 1
    <3>1. q - 2 - d \in Nat /\ (q - 2 - d) * size \in Nat
      BY <1>2, <2>0, <2>2
    <3>2. (q - 2 - d) * size = (q - 1) * size - d * size - size
      BY <1>2, <2>0
    <3>3. (q - 1) * size \in Int /\ d * size \in Int
      BY <1>2, <2>0
    <3>4. QED
      BY <1>1, <1>2, <1>5, <3>1, <3>2, <3>3
  <2>3. QED
    BY <1>2, <2>0, <2>1, <2>2
<1>6. QED
  <2>1. (d + 1) - 1 = d
    BY <1>2
  <2>2. WITNESS d + 1 \in Ids
  <2>3. QED
    BY <1>2, <1>5, <2>1

(* A page holds the rows of some order whose place is on it.               *)
LEMMA PageRows ==
    ASSUME StoreShape, Numbered, Filed, NEW k \in Kinds, NEW size \in Ids, size * MaxId <= Half,
           NEW p \in Ids, NEW page \in Pages(k, size)[p]
    PROVE  \/ /\ page = {}
              /\ \A place \in 0 .. Cardinality(DOMAIN rows[k]) - 1 : ~((p - 1) * size <= place)
           \/ \E o \in Orders(k, DOMAIN rows[k]) :
                 page = {j \in DOMAIN rows[k] : (p - 1) * size <= o[j] /\ o[j] < (p - 1) * size + size}
<1> DEFINE S    == DOMAIN rows[k]
           from == (p - 1) * size
<1>1. Offset(p, size) = from /\ from >= 0
  BY OffsetFits
<1>2. Cardinality(S) \in Int /\ size \in Int /\ from \in Int
  BY FewRows, MaxIdAssumption DEF Ids
<1>3. CASE PastTheEnd(k, Cardinality(S), p, size)
  <2>1. page = {}
    BY <1>3 DEF Pages
  <2>2. Cardinality(S) = 0 \/ from >= Cardinality(S)
    BY <1>1, <1>3 DEF PastTheEnd
  <2> HIDE DEF S, from
  <2>3. \A place \in 0 .. Cardinality(S) - 1 : ~(from <= place)
    BY <1>2, <2>2
  <2>4. QED
    BY <2>1, <2>3 DEF S, from
<1>4. CASE ~PastTheEnd(k, Cardinality(S), p, size)
  <2>1. PICK o \in Orders(k, S) : page = Window(o, p, size)
    BY <1>4 DEF Pages, Selected
  <2>2. DOMAIN o = S
    BY DEF Orders
  <2> HIDE DEF from
  <2>3. ~(Offset(p, size) < 0)
    BY <1>1, <1>2
  <2>4. Window(o, p, size) = {j \in S : from <= o[j] /\ o[j] < from + size}
    BY <1>1, <2>2, <2>3 DEF Window
  <2>5. QED
    BY <2>1, <2>4 DEF from
<1>5. QED
  BY <1>3, <1>4

LEMMA PagesRight ==
    ASSUME StoreShape, Numbered, Filed
    PROVE  PagesCover
<1>0. ASSUME NEW k \in Kinds, k \in {"project", "phase", "user"}
      PROVE  \A i \in DOMAIN rows[k] : Distinct(k, i)
  BY <1>0, Apart
<1> SUFFICES ASSUME NEW k \in Kinds, NEW size \in {n \in Ids : n * MaxId <= Half}
             PROVE  LET pages == Pages(k, size)
                    IN  /\ \A i \in DOMAIN rows[k] : Distinct(k, i) =>
                              \E p \in Ids : \A q \in Ids : \A page \in pages[q] : i \in page <=> q = p
                        /\ \A p \in Ids : \A page \in pages[p] : Cardinality(page) <= size
  BY <1>0 DEF PagesCover
<1> DEFINE S     == DOMAIN rows[k]
           pages == Pages(k, size)
<1>1. size \in Ids /\ size \in Nat /\ size > 0 /\ size * MaxId <= Half
  BY MaxIdAssumption DEF Ids
<1>2. IsFiniteSet(S) /\ Cardinality(S) \in 0 .. MaxId
  BY FewRows
<1>3. \A o \in Orders(k, S) : /\ o \in [S -> 0 .. Cardinality(S) - 1]
                              /\ \A h, j \in S : h # j => o[h] # o[j]
  BY DEF Orders
<1>4. ASSUME NEW i \in S, Distinct(k, i)
      PROVE  \E p \in Ids : \A q \in Ids : \A page \in pages[q] : i \in page <=> q = p
  <2> DEFINE place == Place(k, i)
  <2>1. place \in 0 .. Cardinality(S) - 1 /\ place \in 0 .. MaxId - 1
    BY <1>4, PlaceInRange
  <2>2. PICK p \in Ids : \A q \in Ids :
           (q - 1) * size <= place /\ place < (q - 1) * size + size <=> q = p
    <3> HIDE DEF place
    <3>1. QED
      BY <1>1, <2>1, OnePage
  <2>3. ASSUME NEW q \in Ids, NEW page \in pages[q]
        PROVE  i \in page <=> q = p
    <3>1. \A o \in Orders(k, S) : o[i] = place
      BY <1>4, Placed
    <3> HIDE DEF place, pages, S
    <3>2. CASE /\ page = {}
               /\ \A n \in 0 .. Cardinality(S) - 1 : ~((q - 1) * size <= n)
      BY <2>1, <2>2, <3>2
    <3>3. ASSUME NEW o \in Orders(k, S),
                 page = {j \in S : (q - 1) * size <= o[j] /\ o[j] < (q - 1) * size + size}
          PROVE  i \in page <=> q = p
      BY <1>4, <2>2, <3>1, <3>3
    <3>4. QED
      BY <1>1, <2>3, <3>2, <3>3, PageRows DEF pages, S
  <2>4. QED
    BY <2>2, <2>3
<1>5. ASSUME NEW p \in Ids, NEW page \in pages[p]
      PROVE  Cardinality(page) <= size
  <2> DEFINE from == (p - 1) * size
             span == from .. from + size - 1
  <2>1. CASE page = {}
    BY <1>1, <2>1, FS_EmptySet
  <2>2. ASSUME NEW o \in Orders(k, S), page = {j \in S : from <= o[j] /\ o[j] < from + size}
        PROVE  Cardinality(page) <= size
    <3> DEFINE place == [i \in page |-> o[i]]
    <3>1. from \in Int /\ page \in SUBSET S
      BY <1>1, <2>2, MaxIdAssumption DEF Ids
    <3>2. \A i \in S : o[i] \in Int
      <4> HIDE DEF S
      <4>1. QED
        BY <1>2, <1>3, MaxIdAssumption
    <3> HIDE DEF from, S, pages
    <3>3. place \in [page -> span]
      BY <1>1, <2>2, <3>1, <3>2
    <3>4. IsFiniteSet(span) /\ Cardinality(span) = size
      BY <1>1, <3>1, FS_Interval
    <3>5. IsFiniteSet(page)
      BY <1>2, <3>1, FS_Subset
    <3>6. \A i, j \in page : place[i] = place[j] => i = j
      BY <1>3, <3>1
    <3>7. Cardinality(page) \in Nat /\ size \in Nat
      BY <1>1, <3>5, FS_CardinalityType
    <3> HIDE DEF place, span
    <3>8. ~(Cardinality(span) < Cardinality(page))
      BY <3>3, <3>4, <3>5, <3>6, FS_PigeonHole
    <3>9. QED
      BY <3>4, <3>7, <3>8
  <2>3. QED
    <3>1. \/ page = {}
          \/ \E o \in Orders(k, S) : page = {j \in S : from <= o[j] /\ o[j] < from + size}
      BY <1>1, PageRows
    <3> HIDE DEF S, from
    <3>2. QED
      BY <2>1, <2>2, <3>1
<1>6. QED
  BY <1>4, <1>5

(* The pages of every list between requests, whatever its rows, whatever    *)
(* order SQLite lists equal rows in and however large a page is while      *)
(* offsets fit an int: a row that equals no other in the ORDER BY is on     *)
(* exactly one of them, OFFSET does not overflow and LIMIT is kept.  Every  *)
(* project, phase and user is such a row; two item types of one kind and   *)
(* caption and two field types of one caption are not, whose ORDER BY is    *)
(* not total.                                                              *)
THEOREM PagesPartition == Spec => []PagesCover
<1>1. IInv /\ EchoInv => PagesCover
  BY PagesRight DEF IInv, EchoInv
<1>2. QED
  BY <1>1, Invariance, EchoInvariance, PTL

--------------------------------------------------------------------------------
(* The DTOs the handlers read requests into and write answers from: this   *)
(* is of the classes alone, and DtosProofs has it.                         *)
THEOREM DtosCarry == Spec => []DtosCarryFields
<1>1. DtosCarryFields
  BY ClassesCarry DEF DtosCarryFields
<1>2. QED
  BY <1>1, PTL

================================================================================
