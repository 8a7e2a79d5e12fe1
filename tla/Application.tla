------------------------------ MODULE Application ------------------------------
(***************************************************************************)
(* create_application (infrastructure/app_factory.py): which of an         *)
(* argument, a setting and a default decides, which middleware layers wrap *)
(* the routes, in which order, and what a client is answered whatever the  *)
(* route does (modules/common/utils/error_handler.py, the try blocks of    *)
(* modules/contacts/routes.py).  Operators only: nothing here has a state. *)
(*                                                                         *)
(* A deployment is a record of settings, d below.                          *)
(*                                                                         *)
(* A definition whose comment begins with "Altered" is a plausible slip in *)
(* the one that follows it.                                                *)
(***************************************************************************)
EXTENDS Naturals, Sequences

CONSTANTS
  Arguments,  \* what the caller of create_application passes, a record
  Absent      \* an argument that is not given, a setting that does not exist

\* An argument goes before a setting, a setting before the default.
Resolved(argument, setting, default) ==
  IF argument # Absent THEN argument ELSE IF setting # Absent THEN setting ELSE default

CreatesTables(d) == d.database /\ Resolved(Arguments.createTables, d.createTables, TRUE)

CacheEnabled(d) == d.cache # "none"

-----------------------------------------------------------------------------
(* The documentation.                                                      *)

DocsOptIn(d) == Resolved(Arguments.docsInProduction, d.docsInProduction, FALSE)

\* hide_docs switches FastAPI's own pages off.
HidesDocs(d) == d.environment = "production" /\ ~DocsOptIn(d)

\* show_docs adds a router with pages of its own.
ShowsDocs(d) ==
  d.environment # Absent /\ (d.environment # "production" \/ DocsOptIn(d))

\* FastAPI serves its pages where DOCS_URL and its siblings say, the router
\* always serves the fixed ones.
DocsPaths(d) ==
  (IF HidesDocs(d) THEN {} ELSE {Resolved(Arguments.docsUrl, d.docsUrl, "/docs")})
    \cup (IF ShowsDocs(d) THEN {"/docs"} ELSE {})

-----------------------------------------------------------------------------
(* The middleware, innermost first: each layer is put around all before it.*)

Enabled(d, layer) ==
  CASE layer = "errors"       -> TRUE
    [] layer = "client_cache" -> CacheEnabled(d) /\ d.clientCache = TRUE
    [] layer = "cors"         -> Resolved(Arguments.cors, d.cors, TRUE)
    [] layer = "gzip"         -> Resolved(Arguments.gzip, d.gzip, TRUE)
    [] layer = "security"     -> Resolved(Absent, d.securityHeaders, TRUE)

\* Altered: the layer that catches everything is put around all others.
ErrorsOutermost == <<"client_cache", "cors", "gzip", "security", "errors">>

\* The order of the add_middleware calls.
AddOrder == <<"errors", "client_cache", "cors", "gzip", "security">>

-----------------------------------------------------------------------------
(* What becomes of an exception.                                           *)

DomainErrors == {"not_found", "exists", "validation", "denied", "unmapped"}

\* EXCEPTION_MAPPING, and 500 for a domain error that is not in it.
MappedStatus(error) ==
  CASE error = "not_found"  -> 404
    [] error = "exists"     -> 422
    [] error = "validation" -> 422
    [] error = "denied"     -> 403
    [] error = "unmapped"   -> 500

\* What may come of a request: a value or an error of the handler, a body that
\* is refused before it, a domain error of a dependency, or an exception while
\* the value is turned into a response.
Outcomes ==
  ({"handler"} \X ({"none", "http", "unexpected"} \cup DomainErrors))
    \cup ({"dependency"} \X DomainErrors)
    \cup {<<"body", "invalid">>, <<"response", "unexpected">>}

Answer(status, support) ==
  [status |-> status, support |-> support, cache |-> "default", passed |-> {}]

\* An exception that nobody has caught yet.
Raised == Answer(0, FALSE)

\* The except branches of a route: an HTTPException passes with the status it
\* brings along, for which 404 stands here; anything else is what
\* handle_exception says, or a plain 500.
HandlerStatus(error) ==
  CASE error = "none"       -> 200
    [] error = "http"       -> 404
    [] error = "unexpected" -> 500
    [] error \in DomainErrors -> MappedStatus(error)

\* What the routes and the registered exception handlers make of an outcome.
Routed(outcome) ==
  CASE outcome[1] = "body"       -> Answer(422, TRUE)
    [] outcome[1] = "response"   -> Raised
    [] outcome[1] = "dependency" -> Answer(MappedStatus(outcome[2]), TRUE)
    [] outcome[1] = "handler"    -> Answer(HandlerStatus(outcome[2]), FALSE)

\* One layer, on the way out.  All but the first let an exception pass.
Dressed(d, path, answer, layer) ==
  IF layer = "errors" THEN IF answer = Raised THEN Answer(500, TRUE) ELSE answer
  ELSE IF answer = Raised THEN Raised
  ELSE [answer EXCEPT
          !.passed = @ \cup {layer}
                        \cup IF layer = "security" /\ d.environment \in {"production", "staging"}
                               THEN {"hsts"} ELSE {},
          !.cache = IF layer # "client_cache" THEN @
                    ELSE IF path = "api" THEN "no_store" ELSE "public"]

\* The layer that was added as number n, if the deployment enables it.
Wrapped(d, path, answer, n) ==
  IF Enabled(d, AddOrder[n]) THEN Dressed(d, path, answer, AddOrder[n]) ELSE answer

\* Behind the last layer the server answers what is still raised, without
\* a header of the application.
AnswerTo(d, path, outcome) ==
  LET Out(answer, n) == Wrapped(d, path, answer, n)
      last == Out(Out(Out(Out(Out(Routed(outcome), 1), 2), 3), 4), 5)
  IN  IF last = Raised THEN Answer(500, FALSE) ELSE last
=============================================================================
