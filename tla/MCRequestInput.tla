--------------------------- MODULE MCRequestInput ---------------------------
(* The registration form, well and badly filled in, over every way to send it. *)
EXTENDS RequestInput, TLC

MCText == {"", " ", "secret88", " secret88", "short", "ann", "ann@x", "8", "token",
           "DELETE", "true", "false"}

Fact(t, n) == [trimmed |-> t, length |-> n, number |-> FALSE, integer |-> FALSE,
               boolean |-> FALSE, email |-> FALSE, url |-> FALSE, alpha |-> FALSE, alnum |-> FALSE]
Word(t, n) == [Fact(t, n) EXCEPT !.alpha = TRUE, !.alnum = TRUE]

MCAbout == [t \in MCText |->
    CASE t = ""          -> Fact("", 0)
      [] t = " "         -> Fact("", 1)
      [] t = "secret88"  -> [Fact("secret88", 8) EXCEPT !.alnum = TRUE]
      [] t = " secret88" -> Fact("secret88", 9)
      [] t = "ann@x"     -> [Fact("ann@x", 5) EXCEPT !.email = TRUE]
      [] t = "8"         -> [Fact("8", 1) EXCEPT !.number = TRUE, !.integer = TRUE, !.alnum = TRUE]
      [] t \in {"true", "false"} -> [Word(t, 4) EXCEPT !.boolean = TRUE]
      [] t = "short"     -> Word("short", 5)
      [] OTHER           -> Word(t, 3)]

MCPrinted == [n \in {8} |-> "8"]
MCSuffixed == [s \in {"password"} |-> "password_confirmation"]
MCCustom == [n \in {"short_name"} |-> {"ann"}]
MCMethods == {"POST", "PUT", "PATCH", "DELETE", "GET"}

\* A map with the pairs that have a value.
NoValue == <<"absent">>
Having(f) == [k \in {x \in DOMAIN f : f[x] # NoValue} |-> f[k]]
One(t) == <<t>>

Passwords == {NoValue, One("secret88"), One(" secret88"), One("short"), One(" "),
              <<"secret88", "short", "ann", "ann@x", "8", "token", "true", "false">>}
Form(p, q, t, m) ==
    Having([password |-> p, password_confirmation |-> q, name |-> One(" "),
            email |-> One("ann@x")] @@ ("_token" :> t) @@ ("_method" :> m))

Tokens == {NoValue, One("token"), One("short")}
FormBodies == {Form(p, q, t, m) : p \in Passwords, q \in {One("secret88"), One("short"), One(" ")},
                                  t \in Tokens, m \in {NoValue, One("DELETE")}}
              \cup {Form(p, p, One("token"), NoValue) : p \in Passwords}

\* The same in JSON, where a value may have another type.
JsonValue(ts) == IF Len(ts) = 1 THEN Str(ts[1]) ELSE List([k \in DOMAIN ts |-> Str(ts[k])])
JsonBodies ==
    {[password |-> v, password_confirmation |-> w, name |-> Null, email |-> Str("ann@x"),
      address |-> Object([city |-> c])] :
        v \in {JsonValue(p) : p \in Passwords \ {NoValue}} \cup {Num(8), Bool(TRUE)},
        w \in {Str("secret88"), Str("8"), Num(8)}, c \in {Str(""), Str("ann")}}
    \cup {<<>>}

Queries == {<<>>, [name |-> One(" secret88"), password |-> One("secret88")]}

MCSent ==
    [method : {"POST", "DELETE"}, override : {"", "DELETE", "GET"}, header : {"", "token"},
     type : {"form", "multipart"}, query : Queries, body : FormBodies]
    \cup [method : {"POST", "DELETE"}, override : {"", "DELETE"}, header : {"token"},
          type : {"json"}, query : Queries, body : JsonBodies]
    \cup [method : {"POST"}, override : {""}, header : {"token"}, type : {"other"},
          query : Queries, body : {<<>>}]

MCOverlays == {[name |-> Str("ann")], [name |-> Null, password |-> Num(8), extra |-> Str(" ")]}

R(n) == [name |-> n, args |-> <<>>]
P(n, args) == [name |-> n, args |-> args]

\* AuthController.Register; the other built-in rules; one nobody registered.
MCRuleSets == {
    (<<"name">> :> <<R("nullable"), R("string"), P("min", <<2>>)>>) @@
    (<<"email">> :> <<R("required"), R("email")>>) @@
    (<<"password">> :> <<R("required"), P("min", <<8>>), R("confirmed")>>),
    (<<"address", "city">> :> <<R("required"), R("alpha"), R("short_name")>>) @@
    (<<"password">> :> <<R("numeric"), R("integer"), P("size", <<8>>), P("max", <<8>>),
                         P("in", <<"8", "secret88">>), R("boolean")>>) @@
    (<<"name">> :> <<R("url"), R("alpha_num"), P("same", <<<<"email">>>>),
                     P("different", <<<<"password">>>>)>>),
    <<"password">> :> <<P("in", <<"8", "secret88">>), R("alpha_num")>>,
    <<"name">> :> <<R("strlen")>>}
=============================================================================
