-------------------------------- MODULE Catalog --------------------------------
(***************************************************************************)
(* Request threads in the handlers, services and repositories of projects, *)
(* phases, item types, field types and users, over their SQLite tables.    *)
(*                                                                         *)
(* The five resources are built alike, and what differs between them is    *)
(* said in a section each.  As in WorkflowServices a request is a chain of *)
(* repository calls, each a statement of its own on the shared connection: *)
(* pc[t] names the call thread t makes next, and each call is one step.    *)
(***************************************************************************)
EXTENDS Integers, FiniteSets, Dtos

CONSTANTS
    Threads,      \* request threads of the REST listener
    Workloads,    \* the sets of requests clients may be sending
    Patience,     \* bound: requests, and changes from elsewhere, in all
    MaxId,        \* bound: the last identifier of a table
    Half,         \* an int is one of -Half .. Half - 1
    Rank,         \* text -> its place in SQLite's order of texts
    Dated,        \* texts SqliteResultSet::value() takes for a date
    Broken,       \* a body that is not JSON, a number that is none or too long
    Failures,     \* whether a database call may fail
    Writers,      \* bound: the tables other programs write, of those in Pointing
    SeedRows, SeedUsed    \* the database at the start

Kinds == {"project", "phase", "itemType", "fieldType", "user"}
Ids   == 1 .. MaxId

ASSUME MaxIdAssumption == MaxId \in Nat
ASSUME HalfAssumption  == Half \in Nat \ {0}

(* What clients ask for: matchRoute() lets only digits into an identifier,   *)
(* but any number of them.                                                  *)
ASSUME WorkloadsAssumption ==
    \A offer \in Workloads : \A r \in offer :
        /\ r.kind \in Kinds /\ r.op \in {"list", "get", "create", "update", "delete"}
        /\ r.id \in Nat \cup {Broken}

VARIABLES
    rows,      \* table -> id -> column -> value; "workflow" has no columns here
    used,      \* <<table, kind, id>>: table has a row that points at this one of kind
    seq,       \* sqlite_sequence: table -> the last identifier it gave out
    last,      \* sqlite3_last_insert_rowid of the shared connection
    offered,   \* the workload
    left,      \* requests and changes from elsewhere still to come
    pc,        \* thread -> the repository call it makes next
    req,       \* thread -> the request it serves
    loc,       \* thread -> local variables of the service method
    reply,     \* thread -> the answer it is about to send
    note,      \* thread -> ghost: what happened since its request came
    told       \* ghost: <<table, id>> of the rows a client was told are deleted

storeVars  == <<rows, used, seq, last>>
threadVars == <<offered, left, pc, req, loc, reply, told>>
vars       == <<storeVars, threadVars, note>>

NoRequest == [kind |-> "none", op |-> "none", id |-> 0, doc |-> << >>, filter |-> << >>,
              page |-> 0, size |-> 0]
NoLocals  == [id |-> 0, total |-> 0]
NoReply   == [code |-> 0, id |-> 0, json |-> << >>, ids |-> {}, total |-> 0]

(* calm: no other thread wrote and no call of its own failed; mine: the row *)
(* its own statement wrote, was: what that row was before; counted: whether *)
(* usageCount() found nothing; fresh: the tables in which rows pointing at  *)
(* the one to delete have come since the request; spilled: the tables of    *)
(* which its DELETE took rows along.                                        *)
NoNote == [calm |-> TRUE, mine |-> 0, was |-> << >>, counted |-> FALSE, fresh |-> {}, spilled |-> {}]

WithDefault(x, d) == IF x = Absent THEN d ELSE x

(* int arithmetic wraps.                                                    *)
Int32(n) == ((n + Half) % (2 * Half)) - Half

-----------------------------------------------------------------------------
(* Projects                                                                 *)

ProjectTable ==
    [dto |-> Project, columns |-> {"parentId", "caption", "isArchive"},
     refers |-> [parentId |-> "project"], unique |-> {}]

ProjectAccepts(b) == b.caption \notin {Absent, ""}

ProjectRow(b) ==
    [parentId |-> b.parentId, caption |-> b.caption, isArchive |-> WithDefault(b.isArchive, FALSE)]

ProjectSettable == {"parentId", "caption", "description", "isArchive"}

(* The query parameters of the list that choose rows.                       *)
ProjectFilters == {"parentId", "isArchive"}

(* ORDER BY id                                                              *)
ProjectKey(i, row) == <<i>>

ProjectCalls == [list |-> "count", get |-> "findById", create |-> "insert", update |-> "exists",
                 delete |-> "exists", drop |-> "archive"]

ProjectCodes == [refused |-> 400, created |-> 201, updated |-> 200]

-----------------------------------------------------------------------------
(* Phases                                                                   *)

PhaseTable ==
    [dto |-> Phase, columns |-> {"projectId", "caption", "beginDate", "isArchive"},
     refers |-> [projectId |-> "project"], unique |-> {}]

PhaseAccepts(b) == b.caption \notin {Absent, ""} /\ b.projectId # Absent

PhaseRow(b) ==
    [projectId |-> b.projectId, caption |-> b.caption,
     beginDate |-> IF b.beginDate = Absent THEN Absent ELSE TimePointToSeconds(b.beginDate),
     isArchive |-> WithDefault(b.isArchive, FALSE)]

NoDates       == {"projectId", "caption", "description", "isArchive"}    \* seeded fault
PhaseSettable == {"projectId", "caption", "description", "beginDate", "endDate", "isArchive"}

PhaseFilters == {"projectId", "isArchive"}

(* ORDER BY beginDate, id: NULL comes first.                                *)
PhaseKey(i, row) == <<WithDefault(row.beginDate, -LongHalf - 1), i>>

PhaseCalls == ProjectCalls

PhaseCodes == [refused |-> 400, created |-> 201, updated |-> 200]

-----------------------------------------------------------------------------
(* Item types                                                               *)

ItemKinds == {"issue", "folder", "test-case", "test-cycle", "test-execution", "requirement"}

ItemTypeTable ==
    [dto |-> ItemType, columns |-> {"workflowId", "caption", "kind"},
     refers |-> [workflowId |-> "workflow"], unique |-> {}]

ItemTypeAccepts(b) ==
    /\ b.caption \notin {Absent, ""}
    /\ b.workflowId # Absent
    /\ b.kind \in ItemKinds

ItemTypeRow(b) == [workflowId |-> b.workflowId, caption |-> b.caption, kind |-> b.kind]

ItemTypeSettable == {"workflowId", "defaultStateId", "caption", "kind", "defaultContent"}

ItemTypeFilters == {"workflowId", "kind"}

(* ORDER BY kind, caption                                                   *)
ItemTypeKey(i, row) == <<Rank[row.kind], Rank[row.caption]>>

ItemTypeCalls == [ProjectCalls EXCEPT !.drop = "usageCount"]

ItemTypeCodes == [refused |-> 400, created |-> 201, updated |-> 200]

-----------------------------------------------------------------------------
(* Field types                                                              *)

ValueTypes ==
    {"String", "MarkdownText", "Integer", "Float", "Bool", "DateTime", "Date", "Uri",
     "Select", "SelectMulti", "ItemId", "UserId", "ProjectId", "PhaseId",
     "ItemsIds", "UsersIds", "ProjectsIds", "PhasesIds"}

FieldTypeTable ==
    [dto |-> FieldType, columns |-> {"itemTypeId", "caption", "valueType"},
     refers |-> [itemTypeId |-> "itemType"], unique |-> {}]

FieldTypeAccepts(b) ==
    /\ b.caption \notin {Absent, ""}
    /\ b.itemTypeId # Absent
    /\ b.valueType \in ValueTypes

FieldTypeRow(b) == [itemTypeId |-> b.itemTypeId, caption |-> b.caption, valueType |-> b.valueType]

FieldTypeSettable == {"itemTypeId", "caption", "description", "valueType", "isBoardVisible"}

FieldTypeFilters == {"itemTypeId", "valueType"}

(* ORDER BY caption                                                         *)
FieldTypeKey(i, row) == <<Rank[row.caption]>>

FieldTypeCalls == [ProjectCalls EXCEPT !.drop = "usageCount"]

FieldTypeCodes == [refused |-> 400, created |-> 201, updated |-> 200]

-----------------------------------------------------------------------------
(* Users                                                                    *)

UserTable ==
    [dto |-> User, columns |-> {"login", "email", "isBlocked"},
     refers |-> << >>, unique |-> {"login", "email"}]

(* The handler answers 400 to a field that is not there, the service        *)
(* refuses an empty one; the password is no field of dto::User.             *)
HasPassword(doc)     == "password" \in DOMAIN doc /\ doc.password \notin {Null, Wrong, ""}
UserComplete(doc, b) == b.login # Absent /\ b.email # Absent /\ HasPassword(doc)
UserAccepts(b)       == b.login # "" /\ b.email # ""

UserRow(b) == [login |-> b.login, email |-> b.email, isBlocked |-> WithDefault(b.isBlocked, FALSE)]

UserSettable == {"firstName", "middleName", "lastName", "email", "needChangePassword",
                 "isBlocked", "isSuperAdmin", "isHidden"}

UserFilters == {}

UserKey(i, row) == <<i>>

UserCalls == [list |-> "count", get |-> "findById", create |-> "existsByLogin",
              update |-> "update", delete |-> "remove", drop |-> "remove"]

UserCodes == [refused |-> 409, created |-> 201, updated |-> 204]

-----------------------------------------------------------------------------
(* What is said of every resource                                           *)

Table    == [project |-> ProjectTable, phase |-> PhaseTable, itemType |-> ItemTypeTable,
             fieldType |-> FieldTypeTable, user |-> UserTable]
Settable == [project |-> ProjectSettable, phase |-> PhaseSettable, itemType |-> ItemTypeSettable,
             fieldType |-> FieldTypeSettable, user |-> UserSettable]
Filters  == [project |-> ProjectFilters, phase |-> PhaseFilters, itemType |-> ItemTypeFilters,
             fieldType |-> FieldTypeFilters, user |-> UserFilters]
Calls    == [project |-> ProjectCalls, phase |-> PhaseCalls, itemType |-> ItemTypeCalls,
             fieldType |-> FieldTypeCalls, user |-> UserCalls]
Codes    == [project |-> ProjectCodes, phase |-> PhaseCodes, itemType |-> ItemTypeCodes,
             fieldType |-> FieldTypeCodes, user |-> UserCodes]

Accepts(k, b) ==
    CASE k = "project"   -> ProjectAccepts(b)
      [] k = "phase"     -> PhaseAccepts(b)
      [] k = "itemType"  -> ItemTypeAccepts(b)
      [] k = "fieldType" -> FieldTypeAccepts(b)
      [] k = "user"      -> UserAccepts(b)

RowOf(k, b) ==
    CASE k = "project"   -> ProjectRow(b)
      [] k = "phase"     -> PhaseRow(b)
      [] k = "itemType"  -> ItemTypeRow(b)
      [] k = "fieldType" -> FieldTypeRow(b)
      [] k = "user"      -> UserRow(b)

(* update() checks the values that have a CHECK, and always dates a project. *)
Settles(k, b) ==
    /\ k = "itemType" => b.kind \in ItemKinds \cup {Absent}
    /\ k = "fieldType" => b.valueType \in ValueTypes \cup {Absent}
    /\ k = "project" \/ \E f \in Settable[k] : b[f] # Absent

Ranked(k, i, row) ==
    CASE k = "project"   -> ProjectKey(i, row)
      [] k = "phase"     -> PhaseKey(i, row)
      [] k = "itemType"  -> ItemTypeKey(i, row)
      [] k = "fieldType" -> FieldTypeKey(i, row)
      [] k = "user"      -> UserKey(i, row)

(* mapRow...: columns to a DTO, which valueString() may refuse.             *)
Readable(k, row) ==
    \A c \in DOMAIN row : Table[k].dto.fields[c] = "string" => row[c] \notin Dated

FromColumn(kind, value) == IF kind = "time" THEN SecondsToTimePoint(value) ELSE value

Mapped(k, i, row) ==
    [f \in DOMAIN Table[k].dto.fields |->
        IF f = "id" THEN i
        ELSE IF f \in DOMAIN row /\ row[f] # Absent THEN FromColumn(Table[k].dto.fields[f], row[f])
        ELSE Absent]

Json(k, i, row) == ToJson(Table[k].dto, Mapped(k, i, row))

(* What a column can hold, and what a body may have for it, by kind.        *)
Values ==
    [int |-> Longs, string |-> DOMAIN Rank, bool |-> BOOLEAN,
     time |-> {seconds \in Longs : seconds * Ticks \in Longs}]
Offered ==
    [int |-> Int \cup DOMAIN Cut, string |-> DOMAIN Rank, bool |-> BOOLEAN,
     time |-> Int \cup DOMAIN Cut]

(* A text is no number.                                                     *)
ASSUME RankAssumption   == Rank \in [DOMAIN Rank -> Int] /\ DOMAIN Rank \cap DOMAIN Cut = {}
ASSUME AbsentAssumption == Absent \notin DOMAIN Rank \cup ItemKinds

(* What is not Wrong in a body is of a type its field takes: any number for  *)
(* an int64_t or a time.                                                    *)
ASSUME DocumentsAssumption ==
    \A offer \in Workloads : \A r \in offer :
        (r.op \in {"create", "update"} /\ r.doc # Broken) =>
           \A f \in DOMAIN r.doc \cap DOMAIN Table[r.kind].dto.fields :
              r.doc[f] \in Offered[Table[r.kind].dto.fields[f]] \cup {Null, Wrong}

(* The DTO the handler makes of the body; PUT puts the path's id into it.   *)
Body(r) == Construct(Table[r.kind].dto, r.doc)

-----------------------------------------------------------------------------
(* The tables                                                               *)

Put(f, k, v)  == [x \in DOMAIN f \cup {k} |-> IF x = k THEN v ELSE f[x]]
Without(k, S) == [i \in DOMAIN rows[k] \ S |-> rows[k][i]]

(* What the schema refuses: a reference to no row, a value another row has. *)
KeysOnly(k, i, row) ==                                   \* seeded fault
    \A c \in DOMAIN Table[k].refers :
       row[c] = Absent \/ row[c] \in DOMAIN rows[Table[k].refers[c]]
Constraints(k, i, row) ==
    /\ \A c \in DOMAIN Table[k].refers :
          row[c] = Absent \/ row[c] \in DOMAIN rows[Table[k].refers[c]]
    /\ \A c \in Table[k].unique : \A j \in DOMAIN rows[k] \ {i} : rows[k][j][c] # row[c]

(* An UPDATE of the columns the body holds.                                 *)
Updated(k, row, b) ==
    [c \in DOMAIN row |->
        IF c \in Settable[k] /\ b[c] # Absent THEN Write(Table[k].dto.fields[c], b[c]) ELSE row[c]]

(* The tables with a foreign key to an item type, a field type or a user,   *)
(* all of them ON DELETE CASCADE, and those of them with one to Item.       *)
Pointing ==
    [itemType  |-> {"Item", "LinkType", "RuleItemType"},
     fieldType |-> {"ItemField", "FieldTypePossibleValue"},
     user      |-> {"UserTeamRole", "ItemHistory", "ItemUserState", "Document", "Comment", "UserDay",
                    "PrivateMessage", "TeamMessage", "UserNotification", "UserAction", "UserTodo",
                    "ItemPlanning"}]
WithItems == {"ItemField", "ItemHistory", "ItemUserState", "Comment", "UserNotification", "ItemPlanning"}

FieldsOf(T) == {i \in DOMAIN rows["fieldType"] : rows["fieldType"][i].itemTypeId \in T}

(* The tables with rows that point at row id of kind k.                     *)
Dependents(k, id, fields, uses) ==
    {u[1] : u \in {x \in uses : x[2] = k /\ x[3] = id}}
    \cup {table \in {"FieldType"} :
              k = "itemType" /\ \E i \in DOMAIN fields : fields[i].itemTypeId = id}

(* What goes with "gone": an item takes what is of it, and a link or a      *)
(* message has two ends.                                                    *)
TakenAlong(gone) ==
    {u \in used \ gone :
        \E g \in gone : \/ g[1] = "Item" /\ u[1] \in WithItems
                        \/ g[1] = u[1] /\ u[1] \in {"LinkType", "PrivateMessage"}}

Cascade(gone) == \E more \in SUBSET TakenAlong(gone) : used' = used \ (gone \cup more)

PointingAt(types, fields, users) ==
    {u \in used : \/ u[2] = "itemType" /\ u[3] \in types
                  \/ u[2] = "fieldType" /\ u[3] \in fields
                  \/ u[2] = "user" /\ u[3] \in users}

(* ON DELETE CASCADE: an item type takes its field types, a row what points *)
(* at it.                                                                   *)
Delete(types, fields, users) ==
    /\ rows' = [rows EXCEPT !["itemType"]  = Without("itemType", types),
                            !["fieldType"] = Without("fieldType", fields \cup FieldsOf(types)),
                            !["user"]      = Without("user", users)]
    /\ Cascade(PointingAt(types, fields \cup FieldsOf(types), users))

(* SELECT ... ORDER BY ... LIMIT size OFFSET offset; a negative OFFSET is 0. *)
(* Other query parameters are not looked at, and parentId=0 asks for roots.  *)
Matching(k, filter) ==
    {i \in DOMAIN rows[k] :
        \A c \in DOMAIN filter \cap Filters[k] :
           rows[k][i][c] = IF c = "parentId" /\ filter[c] = 0 THEN Absent ELSE filter[c]}

Before(k, i, j) ==
    LET p == Ranked(k, i, rows[k][i])
        q == Ranked(k, j, rows[k][j])
    IN  \E n \in DOMAIN p : p[n] < q[n] /\ \A m \in 1 .. n - 1 : p[m] = q[m]

NextPage(page, size) == Int32(page * size)               \* seeded fault
Offset(page, size)   == Int32((page - 1) * size)

(* The orders SQLite may list S in: ORDER BY leaves open how rows that are  *)
(* equal under it come, and one statement need not do it as another did.    *)
Orders(k, S) ==
    {place \in [S -> 0 .. Cardinality(S) - 1] :
        \A i, j \in S : i # j => place[i] # place[j] /\ (Before(k, i, j) => place[i] < place[j])}

Window(place, page, size) ==
    LET from == IF Offset(page, size) < 0 THEN 0 ELSE Offset(page, size)
    IN  {i \in DOMAIN place : from <= place[i] /\ place[i] < from + size}

Selected(orders, page, size) == {Window(place, page, size) : place \in orders}

(* findAll() asks for no page past the total; for users it always asks.     *)
PastTheEnd(k, total, page, size) ==
    total = 0 \/ (k # "user" /\ Offset(page, size) >= total)

(* The tables usageCount() asks.                                            *)
NoLinks ==                                               \* seeded fault
    [itemType  |-> {"Item", "FieldType", "RuleItemType"},
     fieldType |-> {"ItemField", "FieldTypePossibleValue"}]
Counted ==
    [itemType  |-> {"Item", "FieldType", "LinkType", "RuleItemType"},
     fieldType |-> {"ItemField", "FieldTypePossibleValue"}]

-----------------------------------------------------------------------------
(* The thread                                                               *)

Goto(t, call) ==
    /\ pc' = [pc EXCEPT ![t] = call]
    /\ UNCHANGED <<offered, left, req, reply, told>>

Continue(t, call) == Goto(t, call) /\ UNCHANGED loc

Send(t, answer) ==
    /\ pc' = [pc EXCEPT ![t] = "answer"]
    /\ reply' = [reply EXCEPT ![t] = answer]
    /\ loc' = [loc EXCEPT ![t] = NoLocals]
    /\ UNCHANGED <<offered, left, req>>

Answer(t, code) == Send(t, [NoReply EXCEPT !.code = code]) /\ UNCHANGED told

(* Where rows have come that point at the one thread s is to delete.        *)
Appeared(s) ==
    LET k == req[s].kind IN
    IF req[s].op = "delete" /\ k \in DOMAIN Counted
    THEN Dependents(k, req[s].id, rows'["fieldType"], used')
         \ Dependents(k, req[s].id, rows["fieldType"], used)
    ELSE {}

Overtaken(s) == [note[s] EXCEPT !.calm = FALSE, !.fresh = @ \cup Appeared(s)]

(* A write of t: the others are not calm any more.                          *)
Disturb(t, mine, was, spilled) ==
    note' = [s \in Threads |->
               IF s = t THEN [note[s] EXCEPT !.mine = mine, !.was = was, !.spilled = spilled]
               ELSE Overtaken(s)]

Calm == UNCHANGED note

(* What a method that returns nullopt or false is answered with.            *)
GoneIsFine(r) ==                                         \* seeded fault
    IF r.op = "create" THEN Codes[r.kind].refused ELSE IF r.op = "delete" THEN 204 ELSE 404
Refusal(r) == IF r.op = "create" THEN Codes[r.kind].refused ELSE 404

(* POST and PUT handlers catch, the listener answers for the others.        *)
Thrown(r) == IF r.op \in {"create", "update"} THEN 400 ELSE 500

Refuse(t) == Answer(t, Refusal(req[t])) /\ UNCHANGED storeVars
Throw(t)  == Answer(t, Thrown(req[t])) /\ UNCHANGED storeVars

(* The answer that needs no repository, or 0.                               *)
Rejection(r) ==
    IF r.op = "list"
    THEN IF \/ Broken \in {r.page, r.size}
            \/ \E c \in DOMAIN r.filter \cap Filters[r.kind] : r.filter[c] = Broken
         THEN 500 ELSE 0
    ELSE IF r.op # "create" /\ r.id = Broken THEN 500
    ELSE IF r.op # "create" /\ r.id = 0 THEN 400
    ELSE IF r.op \in {"create", "update"} /\ r.doc = Broken THEN 400
    ELSE IF r.op # "create" THEN 0
    ELSE IF r.kind = "user" /\ ~UserComplete(r.doc, Body(r)) THEN 400
    ELSE IF ~Accepts(r.kind, Body(r)) THEN Refusal(r)
    ELSE 0

Receive(t, r) ==
    /\ pc[t] = "idle" /\ left > 0
    /\ left' = left - 1
    /\ req' = [req EXCEPT ![t] = r]
    /\ note' = [note EXCEPT ![t] = NoNote]
    /\ \/ /\ Rejection(r) # 0
          /\ pc' = [pc EXCEPT ![t] = "answer"]
          /\ reply' = [reply EXCEPT ![t].code = Rejection(r)]
       \/ /\ Rejection(r) = 0
          /\ pc' = [pc EXCEPT ![t] = Calls[r.kind][r.op]]
          /\ UNCHANGED reply
    /\ UNCHANGED <<storeVars, offered, loc, told>>

Respond(t) ==
    /\ pc[t] = "answer"
    /\ pc' = [pc EXCEPT ![t] = "idle"]
    /\ req' = [req EXCEPT ![t] = NoRequest]
    /\ reply' = [reply EXCEPT ![t] = NoReply]
    /\ note' = [note EXCEPT ![t] = NoNote]
    /\ UNCHANGED <<storeVars, offered, left, loc, told>>

(* findById(), findAll() and create() pass an exception on.                 *)
CallFails(t) ==
    /\ Failures /\ pc[t] \in {"findById", "count", "select", "insert"}
    /\ Throw(t)
    /\ note' = [note EXCEPT ![t].calm = FALSE]

(* The other methods answer false, and usageCount() zero.                   *)
CallFailsQuietly(t) ==
    /\ Failures /\ pc[t] \in {"existsByLogin", "exists", "update", "archive", "usageCount", "remove"}
    /\ \/ pc[t] = "existsByLogin" /\ Continue(t, "insert") /\ UNCHANGED storeVars
       \/ pc[t] = "usageCount" /\ Continue(t, "remove") /\ UNCHANGED storeVars
       \/ pc[t] \in {"exists", "update", "archive", "remove"} /\ Refuse(t)
    /\ note' = [note EXCEPT ![t].calm = FALSE]

-----------------------------------------------------------------------------
(* Reading                                                                  *)

(* get, and what create and update methods end with.                        *)
FindById(t) ==
    /\ pc[t] = "findById"
    /\ LET k     == req[t].kind
           id    == IF req[t].op = "create" THEN loc[t].id ELSE req[t].id
           code  == CASE req[t].op = "get"    -> 200
                      [] req[t].op = "create" -> Codes[k].created
                      [] req[t].op = "update" -> Codes[k].updated
           found == id \in DOMAIN rows[k]
       IN \/ ~found /\ Refuse(t)
          \/ found /\ ~Readable(k, rows[k][id]) /\ Throw(t)
          \/ /\ found /\ Readable(k, rows[k][id])
             /\ Send(t, [NoReply EXCEPT !.code = code, !.id = id,
                                        !.json = IF code = 204 THEN << >> ELSE Json(k, id, rows[k][id])])
             /\ UNCHANGED <<storeVars, told>>
    /\ Calm

(* The service gives a page or a size below 1 its default.                  *)
PageOf(r) == IF r.page < 1 THEN 1 ELSE r.page
SizeOf(r) == IF r.size < 1 THEN 20 ELSE r.size

Count(t) ==
    /\ pc[t] = "count"
    /\ LET k     == req[t].kind
           total == Cardinality(Matching(k, req[t].filter))
       IN \/ /\ PastTheEnd(k, total, PageOf(req[t]), SizeOf(req[t]))
             /\ Send(t, [NoReply EXCEPT !.code = 200, !.total = total])
             /\ UNCHANGED <<storeVars, told>>
          \/ /\ ~PastTheEnd(k, total, PageOf(req[t]), SizeOf(req[t]))
             /\ loc' = [loc EXCEPT ![t].total = total]
             /\ Goto(t, "select") /\ UNCHANGED storeVars
    /\ Calm

(* A second statement, on the rows of its own moment.                       *)
Select(t) ==
    /\ pc[t] = "select"
    /\ LET k == req[t].kind IN
       \E page \in Selected(Orders(k, Matching(k, req[t].filter)), PageOf(req[t]), SizeOf(req[t])) :
          \/ /\ \A i \in page : Readable(k, rows[k][i])
             /\ Send(t, [NoReply EXCEPT !.code = 200, !.ids = page, !.total = loc[t].total])
             /\ UNCHANGED <<storeVars, told>>
          \/ (\E i \in page : ~Readable(k, rows[k][i])) /\ Throw(t)
    /\ Calm

-----------------------------------------------------------------------------
(* Writing                                                                  *)

ExistsByLogin(t) ==
    /\ pc[t] = "existsByLogin"
    /\ LET taken == \E i \in DOMAIN rows["user"] : rows["user"][i].login = Body(req[t]).login
       IN \/ taken /\ Refuse(t)
          \/ ~taken /\ Continue(t, "insert") /\ UNCHANGED storeVars
    /\ Calm

LargestPlusOne(k) ==                                     \* seeded fault: no AUTOINCREMENT
    IF DOMAIN rows[k] = {} THEN 1 ELSE 1 + CHOOSE i \in DOMAIN rows[k] : \A j \in DOMAIN rows[k] : j <= i
NextId(k) == seq[k] + 1

Insert(t) ==
    /\ pc[t] = "insert"
    /\ LET k   == req[t].kind
           id  == NextId(k)
           row == RowOf(k, Body(req[t]))
       IN \/ /\ ~Constraints(k, id, row)
             /\ Throw(t) /\ Calm
          \/ /\ Constraints(k, id, row) /\ id \in Ids
             /\ rows' = [rows EXCEPT ![k] = Put(@, id, row)]
             /\ seq' = [seq EXCEPT ![k] = id]
             /\ last' = id
             /\ Continue(t, "lastInsertId")
             /\ UNCHANGED used
             /\ Disturb(t, id, << >>, {})

(* The shared connection's identifier, whoever inserted last into whatever.  *)
LastInsertId(t) ==
    /\ pc[t] = "lastInsertId"
    /\ loc' = [loc EXCEPT ![t].id = last]
    /\ Goto(t, "findById") /\ UNCHANGED storeVars /\ Calm

Exists(t) ==
    /\ pc[t] = "exists"
    /\ \/ /\ req[t].id \in DOMAIN rows[req[t].kind]
          /\ Continue(t, IF req[t].op = "update" THEN "update" ELSE Calls[req[t].kind].drop)
          /\ UNCHANGED storeVars
       \/ req[t].id \notin DOMAIN rows[req[t].kind] /\ Refuse(t)
    /\ Calm

(* No row, nothing to set, a value the schema refuses: false.               *)
Update(t) ==
    /\ pc[t] = "update"
    /\ LET k    == req[t].kind
           id   == req[t].id
           row  == Updated(k, rows[k][id], Body(req[t]))
           sets == id \in DOMAIN rows[k] /\ Settles(k, Body(req[t])) /\ Constraints(k, id, row)
       IN \/ /\ sets
             /\ rows' = [rows EXCEPT ![k][id] = row]
             /\ Continue(t, "findById")
             /\ UNCHANGED <<used, seq, last>>
             /\ Disturb(t, id, rows[k][id], {})
          \/ ~sets /\ Refuse(t) /\ Calm

(* DELETE of a project or a phase only sets isArchive.                      *)
Archive(t) ==
    /\ pc[t] = "archive"
    /\ LET k  == req[t].kind
           id == req[t].id
       IN \/ /\ id \in DOMAIN rows[k]
             /\ rows' = [rows EXCEPT ![k][id].isArchive = TRUE]
             /\ Answer(t, 204)
             /\ UNCHANGED <<used, seq, last>>
             /\ Disturb(t, id, rows[k][id], {})
          \/ id \notin DOMAIN rows[k] /\ Refuse(t) /\ Calm

InUse(k, id) == Dependents(k, id, rows["fieldType"], used) \cap Counted[k] # {}

UsageCount(t) ==
    /\ pc[t] = "usageCount"
    /\ \/ InUse(req[t].kind, req[t].id) /\ Refuse(t) /\ Calm
       \/ /\ ~InUse(req[t].kind, req[t].id)
          /\ Continue(t, "remove") /\ UNCHANGED storeVars
          /\ note' = [note EXCEPT ![t].counted = TRUE]

(* The DELETE cascades; a user's comes without any look at what points at   *)
(* the row.                                                                 *)
Remove(t) ==
    /\ pc[t] = "remove"
    /\ LET k  == req[t].kind
           id == req[t].id
           Of(table) == IF k = table THEN {id} ELSE {}
       IN \/ /\ id \in DOMAIN rows[k]
             /\ Delete(Of("itemType"), Of("fieldType"), Of("user"))
             /\ Send(t, [NoReply EXCEPT !.code = 204])
             /\ told' = told \cup {<<k, id>>}
             /\ Disturb(t, id, << >>, Dependents(k, id, rows["fieldType"], used))
             /\ UNCHANGED <<seq, last>>
          \/ id \notin DOMAIN rows[k] /\ Refuse(t) /\ Calm

-----------------------------------------------------------------------------
(* The rest of the system                                                   *)

Elsewhere ==
    /\ left > 0 /\ left' = left - 1
    /\ note' = [s \in Threads |-> Overtaken(s)]
    /\ UNCHANGED <<seq, last, offered, pc, req, loc, reply, told>>

(* WorkflowService deletes a workflow: its item types go, with all of       *)
(* theirs, and its states, with what items and users have in them.          *)
DropWorkflow(w) ==
    /\ w \in DOMAIN rows["workflow"]
    /\ LET types  == {i \in DOMAIN rows["itemType"] : rows["itemType"][i].workflowId = w}
           fields == FieldsOf(types)
       IN /\ rows' = [rows EXCEPT !["workflow"]  = Without("workflow", {w}),
                                  !["itemType"]  = Without("itemType", types),
                                  !["fieldType"] = Without("fieldType", fields)]
          /\ \E inStates \in SUBSET {u \in used : u[1] \in {"Item", "ItemUserState"}} :
                Cascade(PointingAt(types, fields, {}) \cup inStates)
    /\ Elsewhere

(* Another program writes a row that points at one of ours.                 *)
Use(table, k, id) ==
    /\ table \in Pointing[k] /\ id \in DOMAIN rows[k]
    /\ <<table, k, id>> \notin used
    /\ used' = used \cup {<<table, k, id>>}
    /\ UNCHANGED rows
    /\ Elsewhere

(* Every reference leads to a row, and no two users share a unique value.   *)
Sound(store) ==
    \A k \in Kinds : \A i \in DOMAIN store[k] :
       /\ \A c \in DOMAIN Table[k].refers :
             store[k][i][c] \in DOMAIN store[Table[k].refers[c]] \cup {Absent}
       /\ \A j \in DOMAIN store[k] \ {i} : \A c \in Table[k].unique : store[k][i][c] # store[k][j][c]

(* Columns hold values of their fields' kinds or NULL; those a list is      *)
(* sorted by are NOT NULL, but for the date of a phase.                     *)
Filled == [project |-> {}, phase |-> {}, itemType |-> {"kind", "caption"}, fieldType |-> {"caption"},
           user |-> {}]
IsRow(k, row) ==
    /\ DOMAIN row = Table[k].columns
    /\ \A c \in Table[k].columns : row[c] \in Values[Table[k].dto.fields[c]] \cup {Absent}
    /\ \A c \in Filled[k] : row[c] # Absent

(* Only tables with such a foreign key have rows that point at ours.        *)
Points(uses) == \A u \in uses : u[2] \in DOMAIN Pointing /\ u[1] \in Pointing[u[2]]

ASSUME SeedAssumption ==
    /\ Points(SeedUsed)
    /\ DOMAIN SeedRows = Kinds \cup {"workflow"}
    /\ Sound(SeedRows)
    /\ \A k \in Kinds :
          /\ IsFiniteSet(DOMAIN SeedRows[k]) /\ Cardinality(DOMAIN SeedRows[k]) <= MaxId
          /\ DOMAIN SeedRows[k] = 1 .. Cardinality(DOMAIN SeedRows[k])
          /\ \A i \in DOMAIN SeedRows[k] : IsRow(k, SeedRows[k][i])

Init ==
    /\ rows = SeedRows
    /\ used = SeedUsed
    /\ seq = [k \in Kinds |-> Cardinality(DOMAIN SeedRows[k])]
    /\ last = 0
    /\ offered \in Workloads
    /\ left = Patience
    /\ pc = [t \in Threads |-> "idle"]
    /\ req = [t \in Threads |-> NoRequest]
    /\ loc = [t \in Threads |-> NoLocals]
    /\ reply = [t \in Threads |-> NoReply]
    /\ note = [t \in Threads |-> NoNote]
    /\ told = {}

Step(t) ==
    \/ \E r \in offered : Receive(t, r)
    \/ Respond(t)
    \/ CallFails(t) \/ CallFailsQuietly(t)
    \/ FindById(t) \/ Count(t) \/ Select(t)
    \/ ExistsByLogin(t) \/ Insert(t) \/ LastInsertId(t)
    \/ Exists(t) \/ Update(t) \/ Archive(t) \/ UsageCount(t) \/ Remove(t)

Next ==
    \/ \E t \in Threads : Step(t)
    \/ \E w \in Ids : DropWorkflow(w)
    \/ \E table \in Writers, k \in DOMAIN Pointing, id \in Ids : Use(table, k, id)

Spec == Init /\ [][Next]_vars

-----------------------------------------------------------------------------
(* Properties                                                               *)

(* However requests interleave and fail, no row refers to one that is not   *)
(* there and no two users share a login or an email: neither create() nor   *)
(* update() checks either, and the services check by statements of their    *)
(* own what another request may change before the write.                    *)
RowsSound == Sound(rows)

(* A client that is told its row was written or deleted was not told so     *)
(* because of another's statement, whatever ran between the calls of its    *)
(* request.  One told of an error, when nobody wrote meanwhile and no call  *)
(* failed, wrote nothing, unless the row it wrote cannot be read back; and  *)
(* the row a 201 shows is then the one the request inserted.                *)
AnswersTrue ==
    \A t \in Threads : pc[t] = "answer" =>
       LET k       == req[t].kind
           mine    == note[t].mine
           success == reply[t].code \in {201, 204} \/ (reply[t].code = 200 /\ req[t].op = "update")
       IN  /\ success => mine # 0
           /\ (reply[t].code >= 400 /\ note[t].calm /\ mine # 0) =>
                 mine \in DOMAIN rows[k] /\ ~Readable(k, rows[k][mine])
           /\ (reply[t].code = 201 /\ note[t].calm) => reply[t].id = mine

(* A row a client was told is deleted is never there again, under no later  *)
(* request and no failure: identifiers are not used twice, and no handler   *)
(* that read the row before writes it back.                                 *)
DeletedStaysGone == \A d \in told : d[2] \notin DOMAIN rows[d[1]]

(* An item type or a field type whose usageCount() could be asked takes     *)
(* nothing along when it is deleted, but for rows of a table in which one   *)
(* that points at it came while the request ran: usageCount() counts every  *)
(* table the cascade of the DELETE would take rows of.  Nothing is said of  *)
(* users, whose DELETE takes along whatever points at them.                 *)
DeleteSparesUsed ==
    \A t \in Threads :
       (pc[t] = "answer" /\ reply[t].code = 204 /\ note[t].counted) => note[t].spilled \subseteq note[t].fresh

(* The row shown to a client that wrote it, with the database to itself, is *)
(* what it sent and nothing else: the fields of its body that could be read *)
(* have the values sent, through DTO, columns and DTO, and the others those *)
(* they had, or the default in a new row.  A fraction is cut; of a number   *)
(* too large for its field or the clock it is only said that some value is  *)
(* there.                                                                   *)
Sent(r, c) == c \in DOMAIN r.doc /\ r.doc[c] \notin {Null, Wrong}

Shows(json, r, was) ==
    \A c \in Table[r.kind].columns :
       LET shown == IF c \in DOMAIN json THEN json[c] ELSE Absent
           sent  == Rounded(r.doc[c])
       IN  IF Sent(r, c)
           THEN shown # Absent /\ (Exact(Table[r.kind].dto.fields[c], sent) => shown = sent)
           ELSE shown = IF r.op = "update" THEN was[c]
                        ELSE IF c \in {"isArchive", "isBlocked"} THEN FALSE ELSE Absent

EchoesBody ==
    \A t \in Threads :
       (pc[t] = "answer" /\ reply[t].json # << >> /\ req[t].op \in {"create", "update"} /\ note[t].calm)
           => Shows(reply[t].json, req[t], note[t].was)

(* Between requests, a client that goes through the pages of a table alone  *)
(* sees each row that no other equals in the ORDER BY on one of them and    *)
(* never on another, in whatever order the statements list rows that are    *)
(* equal, and no page holds more than it asked for: no page is skipped or   *)
(* shown twice, whatever the page size while offsets fit an int.  Projects, *)
(* phases and users never equal one another; item types of one kind and     *)
(* caption do, and field types of one caption, and may be missed.           *)
Distinct(k, i) == \A j \in DOMAIN rows[k] \ {i} : Before(k, i, j) \/ Before(k, j, i)

Pages(k, size) ==
    LET S      == DOMAIN rows[k]
        orders == Orders(k, S)
    IN  [p \in Ids |-> IF PastTheEnd(k, Cardinality(S), p, size) THEN {{}} ELSE Selected(orders, p, size)]

Quiet == \A t \in Threads : pc[t] = "idle"

PagesCover == Quiet =>
    \A k \in Kinds :
       /\ k \in {"project", "phase", "user"} => \A i \in DOMAIN rows[k] : Distinct(k, i)
       /\ \A size \in {n \in Ids : n * MaxId <= Half} :
             LET pages == Pages(k, size)
             IN  /\ \A i \in DOMAIN rows[k] : Distinct(k, i) =>
                       \E p \in Ids : \A q \in Ids : \A page \in pages[q] : i \in page <=> q = p
                 /\ \A p \in Ids : \A page \in pages[p] : Cardinality(page) <= size

(* Whatever a client sends, an object carries it all the way: a field that  *)
(* is null, missing or of the wrong type never costs another field its      *)
(* value, reading and writing a document gives back the fields that could   *)
(* be read and no others, with the values sent but for the fractions of     *)
(* numbers, unless they are numbers no int64_t or no time point holds or no *)
(* list, and writing and reading an object loses only the fractions of its  *)
(* seconds and not its validity.  This is of every class and of no state in *)
(* particular, so it is asked before the first request.                     *)
DtosCarryFields == left = Patience => \A dto \in Classes : CarriesFields(dto)
=============================================================================
