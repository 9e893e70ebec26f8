------------------------------ MODULE RestRoutes ------------------------------
(***************************************************************************)
(* The routes of vault-server's RestServer: the table registerRoutes()     *)
(* builds when every service is set, as Application::initialize() sets     *)
(* them, and how matchRoute() finds a request's handler in it.             *)
(*                                                                         *)
(* A path is the sequence of its segments; the pattern (\d+) is AnyId and  *)
(* stands for the segments in Ids.                                         *)
(***************************************************************************)
EXTENDS Naturals, Sequences

CONSTANTS
    Ids,        \* path segments made of digits
    AnyId       \* the segment (\d+) of a pattern

Methods == {"GET", "POST", "PUT", "DEL"}

Route(method, path, does) == [method |-> method, path |-> path, does |-> does]

(* The five routes of a resource with one handler each, in the order of    *)
(* their registration.                                                     *)
Resource(name) ==
    LET all == <<"api", name>>
        one == <<"api", name, AnyId>>
    IN  <<Route("GET", all, "list"), Route("POST", all, "create"),
          Route("GET", one, "get"), Route("PUT", one, "update"),
          Route("DEL", one, "delete")>>

AuthRoutes == <<Route("POST", <<"auth", "login">>, "login"),
                Route("POST", <<"auth", "logout">>, "logout"),
                Route("POST", <<"auth", "change-password">>, "changePassword")>>

ItemRoutes      == Resource("items")
UserRoutes      == Resource("users")
PhaseRoutes     == Resource("phases")
ProjectRoutes   == Resource("projects")
FieldTypeRoutes == Resource("field-types")
WorkflowRoutes  == Resource("workflows")
ItemTypeRoutes  == Resource("item-types")
StateRoutes     == Resource("states")

(* Edges have no PUT, and a route below the workflows.                     *)
EdgeRoutes ==
    LET all == <<"api", "edges">>
        one == <<"api", "edges", AnyId>>
    IN  <<Route("GET", all, "list"), Route("POST", all, "create"),
          Route("GET", one, "get"), Route("DEL", one, "delete"),
          Route("GET", <<"api", "workflows", AnyId, "edges">>, "workflowEdges")>>

HealthRoutes == <<Route("GET", <<"health">>, "health")>>

(* m_routes, as registerRoutes() leaves it.                                *)
Routes ==
    AuthRoutes \o ItemRoutes \o UserRoutes \o PhaseRoutes \o ProjectRoutes
        \o FieldTypeRoutes \o WorkflowRoutes \o ItemTypeRoutes \o StateRoutes
        \o EdgeRoutes \o HealthRoutes

(* isPublic: three routes pass true, the others take the default.          *)
IsPublic(route) == route.does \in {"login", "logout", "health"}

(* Handlers that read a body wait for it: extract_json().then(..).wait().  *)
ReadsBody(route) == route.does \in {"login", "changePassword", "create", "update"}

(* std::regex_match is of the whole path.                                  *)
Fits(pattern, path) ==
    /\ Len(pattern) = Len(path)
    /\ \A i \in DOMAIN path :
           pattern[i] = path[i] \/ (pattern[i] = AnyId /\ path[i] \in Ids)

Matching(method, path) ==
    {i \in DOMAIN Routes : Routes[i].method = method /\ Fits(Routes[i].path, path)}

(* matchRoute(): the first route of the table that fits.                   *)
Matched(method, path) ==
    Routes[CHOOSE i \in Matching(method, path) :
               \A j \in Matching(method, path) : i <= j]
================================================================================
