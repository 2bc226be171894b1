------------------------- MODULE MCMiddlewareStack -------------------------
(* The application's middleware on small route tables. *)
EXTENDS MiddlewareStack

e(n) == [name |-> n, param |-> Plain]

MCName == {"session", "csrf", "auth", "role", "web", "api", "block"}
MCPriority == <<"session", "csrf", "auth">>
MCAliases == {"csrf"}
MCBound == {"session", "auth", "role"}

\* .Middleware("web"), .Middleware("auth", "role:editor") and .Middleware("role").
MCLists == {<<e("web")>>, <<e("auth"), [name |-> "role", param |-> "editor"]>>, <<e("role")>>}

\* "api" contains "web", "web" may be made to contain "api", and a group may have
\* the name of one of its members.
MCGroupCalls == {<<"api", <<e("role"), e("web")>>>>, <<"web", <<e("api"), e("auth")>>>>,
                 <<"role", <<e("session"), e("role")>>>>}

\* c.Middleware("auth").Except("index"); c.Middleware("csrf").Only("store").
MCRules == << [entry |-> e("auth"), only |-> {}, except |-> {"index"}],
              [entry |-> e("csrf"), only |-> {"store"}, except |-> {}] >>
============================================================================
