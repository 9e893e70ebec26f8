--------------------------------- MODULE Dtos ---------------------------------
(***************************************************************************)
(* The data transfer objects of common/dto: how fromJson() fills an object *)
(* from a JSON document, what toJson() writes of it and what isValid()     *)
(* asks of it, and the fields of every class.                              *)
(*                                                                         *)
(* A document is a function from the names it holds to JSON values.  A     *)
(* value of a type its field does not take is Wrong, whatever it is; a     *)
(* number with a fraction, or one beyond 64 bits, is a name in Cut.  A     *)
(* time point counts the ticks of the system clock.                        *)
(***************************************************************************)
EXTENDS Integers, Sequences, Functions

CONSTANTS
    Absent,     \* std::nullopt, and a column's NULL
    Null,       \* the JSON null
    Wrong,      \* a JSON value of another type than the field's
    Cut,        \* JSON floating-point number -> what get<int64_t>() makes of it
    Single,     \* JSON string or object -> the strings a loop over it finds
    Ticks,      \* ticks of the system clock in a second
    LongHalf    \* an int64_t is one of -LongHalf .. LongHalf - 1

Longs == -LongHalf .. LongHalf - 1

ASSUME TicksAssumption == Ticks \in Nat \ {0}
ASSUME LongAssumption  == LongHalf \in Nat /\ LongHalf > 7 /\ LongHalf >= 2 * Ticks
ASSUME CutAssumption   == \A v \in DOMAIN Cut : v \notin Int /\ Cut[v] \in Longs
ASSUME SingleAssumption ==
    \A v \in DOMAIN Single : Single[v] \notin {Absent, Null, Wrong} \cup DOMAIN Single

(* A class: the kinds of its fields, those isValid() wants set, those it    *)
(* also wants filled, and what toJson() always writes.                      *)
Dto(fields, required, filled) ==
    [fields |-> fields, required |-> required, filled |-> filled, constant |-> << >>]

-----------------------------------------------------------------------------
(* fromJson(), toJson(), isValid()                                          *)

(* int64_t arithmetic wraps, as get<int64_t>() of an unsigned number does.  *)
Long(n) == ((n + LongHalf) % (2 * LongHalf)) - LongHalf

(* from_time_t() counts in ticks; duration_cast drops the fraction.         *)
SecondsToTimePoint(seconds) == Long(seconds * Ticks)
TimePointToSeconds(time)    == IF time >= 0 THEN time \div Ticks ELSE -((-time) \div Ticks)

(* get<int64_t>(), and the loop over a list that may be none.               *)
Whole(value)  == IF value \in DOMAIN Cut THEN Cut[value] ELSE Long(value)
Listed(value) == IF value \in DOMAIN Single THEN Single[value] ELSE value

Read(kind, value) ==
    CASE kind = "int"     -> Whole(value)
      [] kind = "time"    -> SecondsToTimePoint(Whole(value))
      [] kind = "strings" -> Listed(value)
      [] OTHER            -> value
Write(kind, value) == IF kind = "time" THEN TimePointToSeconds(value) ELSE value

Blank(dto) == [f \in DOMAIN dto.fields |-> Absent]

IsSet(doc, f) == f \in DOMAIN doc /\ doc[f] # Null

(* Each field has a try block of its own: a Wrong value leaves the field as *)
(* it was and the fields after it are read.                                 *)
OneTry(dto, doc, old) ==                                 \* seeded fault
    [f \in DOMAIN dto.fields |->
        IF \E g \in DOMAIN dto.fields : IsSet(doc, g) /\ doc[g] = Wrong THEN old[f]
        ELSE IF IsSet(doc, f) THEN Read(dto.fields[f], doc[f])
        ELSE Absent]
FromJson(dto, doc, old) ==
    [f \in DOMAIN dto.fields |->
        IF ~IsSet(doc, f) THEN Absent
        ELSE IF doc[f] = Wrong THEN old[f]
        ELSE Read(dto.fields[f], doc[f])]

(* The constructor drops the success flag of fromJson().                    *)
Construct(dto, doc) == FromJson(dto, doc, Blank(dto))

(* An empty list is not written.                                            *)
Written(dto, obj) ==
    {f \in DOMAIN dto.fields : obj[f] # Absent /\ (dto.fields[f] = "strings" => obj[f] # << >>)}

ToJson(dto, obj) ==
    [f \in Written(dto, obj) \cup DOMAIN dto.constant |->
        IF f \in DOMAIN dto.constant THEN dto.constant[f] ELSE Write(dto.fields[f], obj[f])]

IsValid(dto, obj) ==
    /\ \A f \in dto.required : obj[f] # Absent
    /\ \A f \in dto.filled : obj[f] # ""

-----------------------------------------------------------------------------
(* The classes                                                              *)

AuthRequest ==
    Dto([login |-> "string", password |-> "string"],
        {"login", "password"}, {"login", "password"})

AuthResponse ==
    [Dto([accessToken |-> "string"], {}, {})
        EXCEPT !.constant = [tokenType |-> "Bearer"]]

Board ==
    Dto([id |-> "int", workflowId |-> "int", projectId |-> "int",
         phaseId |-> "int", caption |-> "string", description |-> "string"],
        {"workflowId", "caption"}, {"caption"})

BoardColumn ==
    Dto([id |-> "int", boardId |-> "int", stateId |-> "int",
         orderNumber |-> "int", settings |-> "string"],
        {"boardId", "stateId", "orderNumber"}, {})

ChangePasswordRequest ==
    Dto([oldPassword |-> "string", newPassword |-> "string"],
        {"oldPassword", "newPassword"}, {"oldPassword", "newPassword"})

Comment ==
    Dto([id |-> "int", userId |-> "int", itemId |-> "int",
         createdAt |-> "time", content |-> "string"],
        {"userId", "itemId", "content"}, {"content"})

CommentDocument ==
    Dto([id |-> "int", commentId |-> "int", documentId |-> "int"],
        {"commentId", "documentId"}, {})

Document ==
    Dto([id |-> "int", caption |-> "string", description |-> "string",
         path |-> "string", filename |-> "string", size |-> "int",
         mimeType |-> "string", uploadedAt |-> "time",
         uploadedByUserId |-> "int"],
        {"caption"}, {"caption"})

Edge ==
    Dto([id |-> "int", beginStateId |-> "int", endStateId |-> "int"],
        {"beginStateId", "endStateId"}, {})

ErrorResponse ==
    Dto([code |-> "int", message |-> "string", details |-> "string"],
        {"code"}, {})

FieldType ==
    Dto([id |-> "int", itemTypeId |-> "int", caption |-> "string",
         description |-> "string", valueType |-> "string",
         isBoardVisible |-> "bool"],
        {"itemTypeId", "caption", "valueType"}, {"caption", "valueType"})

FieldTypePossibleValue ==
    Dto([id |-> "int", fieldTypeId |-> "int", value |-> "string"],
        {"fieldTypeId", "value"}, {"value"})

Item ==
    Dto([id |-> "int", itemTypeId |-> "int", parentId |-> "int",
         stateId |-> "int", phaseId |-> "int", caption |-> "string",
         content |-> "string", isDeleted |-> "bool"],
        {"itemTypeId", "stateId", "phaseId", "caption"}, {"caption"})

ItemDocument ==
    Dto([id |-> "int", itemId |-> "int", documentId |-> "int"],
        {"itemId", "documentId"}, {})

ItemField ==
    Dto([id |-> "int", itemId |-> "int", fieldTypeId |-> "int",
         value |-> "string"],
        {"itemId", "fieldTypeId"}, {})

ItemHistory ==
    Dto([id |-> "int", itemId |-> "int", userId |-> "int",
         timestamp |-> "time", diff |-> "string"],
        {"itemId", "userId", "timestamp"}, {})

ItemLink ==
    Dto([id |-> "int", linkTypeId |-> "int", sourceItemId |-> "int",
         destinationItemId |-> "int"],
        {"linkTypeId", "sourceItemId", "destinationItemId"}, {})

ItemType ==
    Dto([id |-> "int", workflowId |-> "int", defaultStateId |-> "int",
         caption |-> "string", kind |-> "string",
         defaultContent |-> "string"],
        {"workflowId", "defaultStateId", "caption", "kind"},
        {"caption", "kind"})

ItemUserState ==
    Dto([id |-> "int", itemId |-> "int", userId |-> "int",
         stateId |-> "int", comment |-> "string", timestamp |-> "time"],
        {"itemId", "userId", "stateId", "timestamp"}, {})

LinkType ==
    Dto([id |-> "int", sourceItemTypeId |-> "int",
         destinationItemTypeId |-> "int", isBidirectional |-> "bool",
         caption |-> "string"],
        {"sourceItemTypeId", "destinationItemTypeId", "isBidirectional", "caption"},
        {"caption"})

PageResponse ==
    Dto([items |-> "strings", totalCount |-> "int", page |-> "int",
         pageSize |-> "int"],
        {}, {})

Phase ==
    Dto([id |-> "int", projectId |-> "int", caption |-> "string",
         description |-> "string", beginDate |-> "time",
         endDate |-> "time", isArchive |-> "bool"],
        {"projectId", "caption"}, {"caption"})

PrivateMessage ==
    Dto([id |-> "int", senderUserId |-> "int", receiverUserId |-> "int",
         creationTimestamp |-> "time", content |-> "string",
         isViewed |-> "bool"],
        {"senderUserId", "receiverUserId", "creationTimestamp", "content"},
        {"content"})

Project ==
    Dto([id |-> "int", parentId |-> "int", caption |-> "string",
         description |-> "string", createdAt |-> "time",
         updatedAt |-> "time", isArchive |-> "bool"],
        {"caption"}, {"caption"})

ProjectTeam ==
    Dto([id |-> "int", projectId |-> "int", teamId |-> "int"],
        {"projectId", "teamId"}, {})

Role ==
    Dto([id |-> "int", caption |-> "string", description |-> "string"],
        {"caption"}, {"caption"})

RoleMenuItem ==
    Dto([id |-> "int", roleId |-> "int", caption |-> "string",
         link |-> "string", icon |-> "string"],
        {"roleId", "caption", "link"}, {"caption", "link"})

Rule ==
    Dto([id |-> "int", roleId |-> "int", isRootProjectCreator |-> "bool"],
        {"roleId"}, {})

RuleItemType ==
    Dto([id |-> "int", ruleId |-> "int", itemTypeId |-> "int",
         isReader |-> "bool", isWriter |-> "bool"],
        {"ruleId", "itemTypeId"}, {})

RuleProject ==
    Dto([id |-> "int", ruleId |-> "int", projectId |-> "int",
         isReader |-> "bool", isWriter |-> "bool",
         isProjectEditor |-> "bool", isPhaseEditor |-> "bool",
         isBoardEditor |-> "bool"],
        {"ruleId", "projectId"}, {})

RuleState ==
    Dto([id |-> "int", ruleId |-> "int", stateId |-> "int",
         isStateAllowed |-> "bool"],
        {"ruleId", "stateId"}, {})

SpecialDay ==
    Dto([id |-> "int", date |-> "time", isWorkDay |-> "bool",
         beginWorkTime |-> "string", endWorkTime |-> "string",
         breakDuration |-> "int"],
        {"date"}, {})

StandardDay ==
    Dto([id |-> "int", weekDayNumber |-> "int", weekOrder |-> "int",
         isWorkDay |-> "bool", beginWorkTime |-> "string",
         endWorkTime |-> "string", breakDuration |-> "int"],
        {"weekDayNumber", "weekOrder", "isWorkDay"}, {})

State ==
    Dto([id |-> "int", workflowId |-> "int", caption |-> "string",
         description |-> "string", weight |-> "int", orderNumber |-> "int",
         isArchive |-> "bool", isQueue |-> "bool"],
        {"workflowId", "caption"}, {"caption"})

Team ==
    Dto([id |-> "int", caption |-> "string", description |-> "string"],
        {"caption"}, {"caption"})

TeamMessage ==
    Dto([id |-> "int", senderUserId |-> "int", teamId |-> "int",
         creationTimestamp |-> "time", content |-> "string"],
        {"senderUserId", "teamId", "creationTimestamp", "content"},
        {"content"})

User ==
    Dto([id |-> "int", login |-> "string", firstName |-> "string",
         middleName |-> "string", lastName |-> "string",
         email |-> "string", needChangePassword |-> "bool",
         isBlocked |-> "bool", isSuperAdmin |-> "bool", isHidden |-> "bool"],
        {"login"}, {"login"})

UserAction ==
    Dto([id |-> "int", userId |-> "int", timestamp |-> "time",
         caption |-> "string", description |-> "string"],
        {"userId", "timestamp", "caption"}, {"caption"})

UserDay ==
    Dto([id |-> "int", userId |-> "int", date |-> "time",
         isWorkDay |-> "bool", beginWorkTime |-> "string",
         endWorkTime |-> "string", breakDuration |-> "int",
         description |-> "string"],
        {"userId", "date"}, {})

UserNotification ==
    Dto([id |-> "int", userId |-> "int", itemId |-> "int"],
        {"userId", "itemId"}, {})

UserTeamRole ==
    Dto([id |-> "int", userId |-> "int", teamId |-> "int", roleId |-> "int"],
        {"userId", "teamId", "roleId"}, {})

UserTodo ==
    Dto([id |-> "int", itemId |-> "int", userId |-> "int",
         startDate |-> "time", endDate |-> "time"],
        {"itemId", "userId", "startDate", "endDate"}, {})

Workflow ==
    Dto([id |-> "int", caption |-> "string", description |-> "string"],
        {"caption"}, {"caption"})

Classes ==
    {AuthRequest, AuthResponse, Board, BoardColumn, ChangePasswordRequest,
     Comment, CommentDocument, Document, Edge, ErrorResponse, FieldType,
     FieldTypePossibleValue, Item, ItemDocument, ItemField, ItemHistory,
     ItemLink, ItemType, ItemUserState, LinkType, PageResponse, Phase,
     PrivateMessage, Project, ProjectTeam, Role, RoleMenuItem, Rule,
     RuleItemType, RuleProject, RuleState, SpecialDay, StandardDay, State,
     Team, TeamMessage, User, UserAction, UserDay, UserNotification,
     UserTeamRole, UserTodo, Workflow}

-----------------------------------------------------------------------------
(* What a class promises                                                    *)

(* Documents of a class: every field has a typical value but up to two.     *)
Typical == [int |-> 7, string |-> "text", bool |-> TRUE, time |-> 3, strings |-> <<"text">>]
Samples ==
    [int     |-> {0, LongHalf + 1} \cup DOMAIN Cut,
     string  |-> {""},
     bool    |-> {FALSE},
     time    |-> {0, -1, LongHalf - 1} \cup DOMAIN Cut,
     strings |-> {<< >>} \cup DOMAIN Single]
Odd(kind) == Samples[kind] \cup {Absent, Null, Wrong}

(* What stands for no value is none, and null is not of a wrong type.       *)
ASSUME MarksAssumption ==
    /\ Null # Wrong /\ Absent \notin {Null, Wrong}
    /\ \A mark \in {Absent, Null, Wrong} :
          /\ mark \notin Int /\ mark \notin BOOLEAN
          /\ \A kind \in DOMAIN Typical : mark # Typical[kind] /\ mark \notin Samples[kind]
    /\ \A kind \in {"string", "bool", "strings"} :
          ({Typical[kind]} \cup Samples[kind]) \cap DOMAIN Cut = {}
    /\ {Typical["strings"], << >>} \cap DOMAIN Single = {}

(* A document with v under f and w under g; an absent one is not there.     *)
DocumentOf(dto, f, g, v, w) ==
    LET all == [h \in DOMAIN dto.fields |->
                   IF h = f THEN v ELSE IF h = g THEN w ELSE Typical[dto.fields[h]]]
    IN  Restrict(all, {h \in DOMAIN all : all[h] # Absent})

(* The fields of a document that can be read, but for an empty list.        *)
Told(dto, doc) ==
    {f \in DOMAIN doc : /\ doc[f] \notin {Null, Wrong}
                        /\ dto.fields[f] = "strings" => Listed(doc[f]) # << >>}

(* A number without its fraction, and what an int64_t, a time point and a   *)
(* list of strings hold as it is.                                           *)
Rounded(value) == IF value \in DOMAIN Cut THEN Cut[value] ELSE value
Exact(kind, value) ==
    /\ kind = "int" => value \in Longs
    /\ kind = "time" => value \in Longs /\ value * Ticks \in Longs
    /\ kind = "strings" => value \notin DOMAIN Single

(* An object a document was read into before, its times a tick before the  *)
(* next second.                                                            *)
Older(dto) ==
    [f \in DOMAIN dto.fields |->
        IF dto.fields[f] = "time" THEN 2 * Ticks - 1 ELSE Typical[dto.fields[f]]]

(* What is read of a document and written again, "sent", has the fields     *)
(* that could be read and no others, each as it was but for its fraction if *)
(* an object can hold that at all, and a second passage changes nothing     *)
(* more; a field of the wrong type stays what it was in an older object.    *)
Passes(dto, doc) ==
    LET sent == ToJson(dto, Construct(dto, doc))
        own  == DOMAIN sent \ DOMAIN dto.constant
        kept == FromJson(dto, doc, Older(dto))
    IN  /\ own = Told(dto, doc)
        /\ \A f \in own : Exact(dto.fields[f], Rounded(doc[f])) => sent[f] = Rounded(doc[f])
        /\ ToJson(dto, Construct(dto, sent)) = sent
        /\ \A f \in DOMAIN kept :
              kept[f] = IF f \in DOMAIN doc /\ doc[f] = Wrong THEN Older(dto)[f]
                        ELSE Construct(dto, doc)[f]

(* What it is for a class to carry its fields, over such documents and such *)
(* an object, which loses the fraction of its seconds only.                 *)
CarriesFields(dto) ==
    /\ \A f, g \in DOMAIN dto.fields : \A v \in Odd(dto.fields[f]), w \in Odd(dto.fields[g]) :
          Passes(dto, DocumentOf(dto, f, g, v, w))
    /\ LET back == Construct(dto, ToJson(dto, Older(dto)))
       IN  /\ IsValid(dto, back)
           /\ \A f \in DOMAIN back :
                 back[f] = IF dto.fields[f] = "time" THEN Ticks ELSE Older(dto)[f]
=============================================================================
