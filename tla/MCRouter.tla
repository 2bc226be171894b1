------------------------------ MODULE MCRouter ------------------------------
(* Small instances of Router: photos, its comments nested under it, a second  *)
(* photos resource of the same name behind a prefix without a name prefix,    *)
(* and plain routes that overlap with them or take one of their names.        *)
EXTENDS Router

CONSTANTS photos, comments, adminPhotos, profile, showPhoto, archive

Every == {"index", "create", "store", "show", "edit", "update", "destroy"}
Decl(kind, prefix, parents, last, name, has) ==
    [kind |-> kind, prefix |-> prefix, parents |-> parents, last |-> last,
     name |-> name, has |-> has]

MCWord == {"photos", "comments", "admin", "profile", "create", "edit", "7", "7?x", "%37"}
MCCut == {"7?x"}
MCUnescaped == [w \in MCWord |-> IF w \in {"7?x", "%37"} THEN "7" ELSE w]
MCDeclaration ==
    (photos :> Decl("resource", << >>, << >>, "photos", "photos", Every)) @@
    (adminPhotos :> Decl("api", <<Static("admin")>>, << >>, "photos", "photos", Every)) @@
    (comments :> Decl("resource", << >>, <<"photos">>, "comments",
                      "photos.comments", {"index", "store", "show", "destroy"})) @@
    (profile :> Decl("singleton", << >>, << >>, "profile", "profile", Every))

MCPlainRoute ==
    (showPhoto :> [methods |-> {"GET"}, name |-> <<"photos", "show">>,
                   uri |-> <<Static("photos"), Where(Param, {"7"})>>]) @@
    (archive :> [methods |-> {"GET", "POST"}, name |-> <<"archive", "none">>,
                 uri |-> <<Optional(Where(Param, {"photos", "7"})), Optional(Param), Static("comments")>>])

MCSelection == {{}, {"show", "create"}, {"create", "destroy"}}
MCPath == {<< >>, <<"photos">>, <<"photos", "create">>, <<"photos", "7">>,
           <<"photos", "7", "edit">>, <<"photos", "7", "comments">>,
           <<"photos", "7", "comments", "create">>, <<"comments", "7">>,
           <<"admin", "photos">>, <<"admin", "photos", "7">>, <<"profile", "create">>}
============================================================================
