----------------------------- MODULE MCPipeline -----------------------------
(* Small instances of Pipeline: the global stack of public/main.go with one of *)
(* its ordinary middleware, Recover registered second, as nothing prevents,    *)
(* and a few of the chains routes can have.                                    *)
EXTENDS Pipeline

CONSTANTS recover, trim, session, audit

MCGlobals == {<<recover, trim>>, <<trim, recover>>}
MCRoutes == {<< >>, <<session>>, <<audit, session, audit>>}
============================================================================
