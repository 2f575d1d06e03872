----------------------------- MODULE MCSessions -----------------------------
(***************************************************************************)
(* One scenario per question: sessions of one user refreshed and logged    *)
(* out on two processes, calls across a logout, a name registered twice,   *)
(* the rate limit, scopes, and what a tab shows.                           *)
(***************************************************************************)
EXTENDS Sessions, TLC

NoRequests == [k \in Kinds |-> 0]
Only(f) == f @@ NoRequests
Reads == {"catalog:read", "designer:read", "credentials:read", "workflows:read"}
Signed(cs) == [c \in Senders |-> IF c \in cs THEN 1 ELSE 0]

Quiet == [servers |-> {"s1"}, accounts |-> [u \in Users |-> "p1"], default |-> None, rbac |-> FALSE,
          scopes |-> {"*"}, limit |-> 0, requests |-> NoRequests, senders |-> {"c1", "c2"},
          routes |-> {Route("GET", "workflows")}, path |-> "page", signedIn |-> Signed({}),
          clock |-> FALSE, faults |-> 0]

Sharing == [servers |-> {"s1", "s2"}, faults |-> 1, requests |-> Only([login |-> 2, refresh |-> 2, logout |-> 1])] @@ Quiet
Retrying == [servers |-> {"s1", "s2"}, senders |-> {"c1"},
             requests |-> Only([login |-> 1, refresh |-> 3]), faults |-> 2] @@ Quiet
LoggingOut == [servers |-> {"s1", "s2"}, signedIn |-> [Signed({"c1"}) EXCEPT !["c2"] = 2],
               requests |-> Only([call |-> 2, logout |-> 2]), faults |-> 1] @@ Quiet
Expiring == [requests |-> Only([login |-> 1, refresh |-> 1, call |-> 1, logout |-> 1]),
             senders |-> {"c1"}, clock |-> TRUE] @@ Quiet
Registering == [servers |-> {"s1", "s2"}, accounts |-> [u \in Users |-> None],
                requests |-> Only([register |-> 2, login |-> 1]), faults |-> 1] @@ Quiet
Starting == [default |-> "ada", requests |-> Only([register |-> 1])] @@ Registering
Limited == [limit |-> 2, senders |-> {"c1"}, signedIn |-> Signed({"c1"}),
            requests |-> Only([login |-> 3, call |-> 4]), clock |-> TRUE] @@ Quiet
Reading == [rbac |-> TRUE, scopes |-> Reads, routes |-> ProtectedRoutes \ {Logout}, senders |-> {"c1"},
            signedIn |-> Signed({"c1"}), requests |-> Only([call |-> 1, logout |-> 1])] @@ Quiet
Writing == [scopes |-> {"designer:write"}] @@ Reading
Browsing == [senders |-> {"t1"}, signedIn |-> Signed({"t1"}), clock |-> TRUE,
             requests |-> Only([call |-> 3, login |-> 2]), faults |-> 1] @@ Quiet
Entering == [path |-> "login", clock |-> FALSE] @@ Browsing
Joining == [path |-> "register", signedIn |-> Signed({}), accounts |-> [u \in Users |-> None],
            requests |-> Only([register |-> 2, call |-> 2])] @@ Browsing

AllScenarios == {Sharing, Retrying, LoggingOut, Expiring, Registering, Starting, Limited, Reading, Writing, Browsing, Entering, Joining}

Requests == Permutations(Slots)
=============================================================================
