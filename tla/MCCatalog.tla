------------------------------- MODULE MCCatalog -------------------------------
(* Model checking of Catalog: what clients send, in workloads that meet on  *)
(* the same rows, and a database with two rows in every table.              *)
EXTENDS Catalog, TLC

CONSTANTS Fraction, Text    \* a number with a fraction, a string where a list should be

Ask(k, op, id) == [NoRequest EXCEPT !.kind = k, !.op = op, !.id = id]
Get(k, id)     == Ask(k, "get", id)
Del(k, id)     == Ask(k, "delete", id)
Post(k, doc)    == [Ask(k, "create", 0) EXCEPT !.doc = doc]
PutOn(k, id, doc) == [Ask(k, "update", id) EXCEPT !.doc = doc]
List(k, filter, page, size) ==
    [Ask(k, "list", 0) EXCEPT !.filter = filter, !.page = page, !.size = size]

NewUser(login, email) == Post("user", [login |-> login, email |-> email, password |-> "p"])

TypeRequests ==
    {Post("itemType", [workflowId |-> 1, caption |-> "a", kind |-> "issue"]),
     PutOn("itemType", 1, [workflowId |-> Wrong, caption |-> "b"]),
     PutOn("itemType", 2, [workflowId |-> Fraction]),
     Del("itemType", 1), Del("itemType", 2),
     Post("fieldType", [itemTypeId |-> 1, caption |-> "a", valueType |-> "String"]),
     PutOn("fieldType", 1, [itemTypeId |-> 1, id |-> 2]),
     Del("fieldType", 1), Get("fieldType", 1)}

ProjectRequests ==
    {Post("project", [parentId |-> 2, caption |-> "a"]),
     PutOn("project", 1, [parentId |-> Null, isArchive |-> FALSE]),
     Del("project", 1), List("project", [parentId |-> 0, isArchive |-> FALSE], 1, 1),
     Post("phase", [projectId |-> 1, caption |-> "dated", beginDate |-> 1]),
     PutOn("phase", 1, [beginDate |-> 3, caption |-> Wrong, isArchive |-> TRUE]),
     PutOn("phase", 1, [beginDate |-> 15]), PutOn("phase", 2, [beginDate |-> Fraction]),
     PutOn("phase", 2, [caption |-> "dated"]),
     Del("phase", 1), List("phase", << >>, 2, 1)}

UserRequests ==
    {NewUser("a", "b"), NewUser("a", "x"), NewUser("c", "x"),
     PutOn("user", 2, [email |-> "b", login |-> "c"]), PutOn("user", 1, [isBlocked |-> TRUE]),
     Del("user", 2), Get("user", 2), List("user", << >>, 2, 1)}

OddRequests ==
    {List("itemType", [kind |-> "issue"], 1, 1), List("itemType", << >>, 5, 0),
     List("fieldType", << >>, 0, 1), List("fieldType", << >>, Broken, 1),
     List("phase", [projectId |-> Broken], 1, 1), Del("user", Broken),
     Get("project", 0), Get("phase", 9), PutOn("itemType", 1, << >>), PutOn("project", 1, << >>),
     PutOn("fieldType", 1, [valueType |-> "none"]), PutOn("itemType", 1, Broken),
     Post("itemType", [workflowId |-> 1, caption |-> "a", kind |-> "none"]),
     Post("itemType", [workflowId |-> 9, caption |-> "a", kind |-> "issue"]),
     Post("fieldType", [itemTypeId |-> 1, caption |-> "", valueType |-> "String"]),
     Post("phase", [caption |-> "a"]), Post("project", Broken),
     Post("user", [login |-> "c", email |-> "c"]), NewUser("", "c")}

MCWorkloads == {TypeRequests, ProjectRequests, UserRequests, OddRequests}

Texts  == <<"", "Date", "String", "a", "b", "c", "dated", "folder", "issue", "none", "x">>
MCRank == [text \in Range(Texts) |-> CHOOSE n \in DOMAIN Texts : Texts[n] = text]

MCSeedRows ==
    [workflow  |-> <<<< >>, << >>>>,
     project   |-> <<[parentId |-> Absent, caption |-> "a", isArchive |-> FALSE],
                     [parentId |-> 1, caption |-> "a", isArchive |-> TRUE]>>,
     phase     |-> <<[projectId |-> 1, caption |-> "a", beginDate |-> 2, isArchive |-> FALSE],
                     [projectId |-> 2, caption |-> "b", beginDate |-> Absent, isArchive |-> FALSE]>>,
     itemType  |-> <<[workflowId |-> 1, caption |-> "b", kind |-> "issue"],
                     [workflowId |-> 2, caption |-> "b", kind |-> "issue"]>>,
     fieldType |-> <<[itemTypeId |-> 2, caption |-> "b", valueType |-> "String"],
                     [itemTypeId |-> 2, caption |-> "a", valueType |-> "Date"]>>,
     user      |-> <<[login |-> "a", email |-> "a", isBlocked |-> FALSE],
                     [login |-> "b", email |-> "b", isBlocked |-> FALSE]>>]

MCCut    == [f \in {Fraction} |-> 1]
MCSingle == [v \in {Text} |-> <<"text">>]

Symmetry == Permutations(Threads)
=============================================================================
