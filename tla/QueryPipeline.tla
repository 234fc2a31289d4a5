---------------------------- MODULE QueryPipeline ----------------------------
(***************************************************************************)
(* The HTTP surface of internal/gateway/server.go: what becomes of one     *)
(* request on its way through the middleware, the routes, authentication   *)
(* and the checks of the query endpoint.                                   *)
(*                                                                         *)
(* A body is a first JSON value and what follows it; each may run into the *)
(* body limit.  "encodes" tells whether JSON can represent every value the *)
(* devices return: it cannot represent a NaN.                              *)
(***************************************************************************)
EXTENDS QueryValidation

CONSTANTS BasicAuth,        \* the configured user name and password
          GeneratedID

NoResponse == [status |-> 0, body |-> "none", challenge |-> FALSE, requestID |-> <<>>,
               executed |-> <<>>, recorded |-> FALSE]
Respond(status, body) == [NoResponse EXCEPT !.status = status, !.body = body]

(* writeJSON sends the status first; what Encode then cannot do is lost. *)
writeJSON(status, body, encodes) == Respond(status, IF encodes THEN body ELSE "empty")
writeError(status) == writeJSON(status, "envelope", TRUE)
MethodNotAllowed == Respond(405, "empty")

Get(r, body) == IF r.method = "GET" THEN Respond(200, body) ELSE MethodNotAllowed
healthz(r) == Get(r, "status")
metrics(r) == Get(r, "metrics")
versionHandler(r) == Get(r, "version")

OneValue_Lenient(r) == TRUE         \* mutant: what follows the first value is ignored
OneValue(r) == r.rest = "nothing"

query(r) ==
  CASE r.method # "POST" -> MethodNotAllowed
    [] r.method = "POST" /\ r.contentType # "application/json" -> writeError(415)
    [] OTHER ->
         CASE r.first = "too large" -> writeError(413)
           [] r.first = "malformed" -> writeError(400)
           [] r.first = "query" /\ ~OneValue(r) -> writeError(400)
           [] OTHER ->
                LET checked == ValidateQuery(r.query)
                IN  IF ~checked.ok THEN writeError(400)
                    ELSE [writeJSON(200, "results", r.encodes) EXCEPT
                            !.executed = checked.requests, !.recorded = TRUE]

auth_UserOnly(r, next) ==           \* mutant: any password will do
  IF r.credentials # <<>> /\ r.credentials[1][1] = BasicAuth[1] THEN next
  ELSE [writeError(401) EXCEPT !.challenge = TRUE]
auth(r, next) ==
  IF r.credentials = <<BasicAuth>> THEN next
  ELSE [writeError(401) EXCEPT !.challenge = TRUE]

validRequestID(id) == id \notin {"", "with newline", "longer than 128"}

requestIDMiddleware(r, response) ==
  [response EXCEPT !.requestID =
     <<IF validRequestID(r.requestID) THEN r.requestID ELSE GeneratedID>>]

Handler(r) ==
  requestIDMiddleware(r,
    CASE r.path = "/healthz" -> healthz(r)
      [] r.path = "/metrics" -> metrics(r)
      [] r.path = "/version" -> auth(r, versionHandler(r))
      [] r.path = "/api/v1/query" -> auth(r, query(r))
      [] OTHER -> Respond(404, "text"))
=============================================================================
