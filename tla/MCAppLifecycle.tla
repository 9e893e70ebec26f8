---------------------------- MODULE MCAppLifecycle ----------------------------
(* A pool of two threads and three clients: list, create and log in with   *)
(* and without a token, and a path nothing is registered for.              *)
EXTENDS AppLifecycle

Ask(method, path, token) == [method |-> method, path |-> path, token |-> token]

MCCalls == {Ask("GET", <<"api", "users", "7">>, TRUE),
            Ask("DEL", <<"api", "users", "7">>, FALSE),
            Ask("POST", <<"api", "projects">>, TRUE),
            Ask("POST", <<"auth", "change-password">>, FALSE),
            Ask("POST", <<"auth", "login">>, FALSE),
            Ask("GET", <<"api", "nothing">>, TRUE)}

================================================================================
