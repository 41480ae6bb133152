------------------------------- MODULE Router --------------------------------
(***************************************************************************)
(* Router::route_query: what a request asks of ActiveSessions and which    *)
(* status answers it.  An outcome is a status and the operation that took  *)
(* effect; create_session may also find no port or throw, so a request has *)
(* a set of outcomes.                                                      *)
(***************************************************************************)
EXTENDS GraphParser

\* Prefix of the path -> the only method it allows.
Routes == [transmit |-> "POST", secure_transmit |-> "POST",
           preview |-> "POST", connect |-> "GET", stop |-> "POST",
           pause |-> "POST", resume |-> "POST", metrics |-> "GET"]
Sessions == {"transmit", "secure_transmit", "preview"}

Refused(status) == [status |-> status, effect |-> "none"]
Done(effect) == [status |-> 200, effect |-> effect]

map_app_error(error) ==
    CASE error = "ParseError" -> 400
      [] error = "LogicError" -> 409
      [] error = "NetworkError" -> 502
      [] OTHER -> 500

\* The results of ActiveSessions::create_session; Session::create throws when
\* it gets no socket, or no key for an encrypted session.
create_session(req) ==
    IF parse_graph(req.body.flow) # "ok" THEN {parse_graph(req.body.flow)}
    ELSE {"ok", "exception"} \cup
         (IF req.path = "preview" THEN {"LogicError"} ELSE {})

process_session_request(req) ==
    IF req.body = Bad THEN {Refused(400)}
    ELSE {IF result = "ok" THEN Done("create")
          ELSE Refused(map_app_error(result)) : result \in create_session(req)}

\* handle_stop, handle_pause and handle_resume.
SessionOp(req, live) ==
    IF req.id = Bad THEN Refused(400)
    ELSE IF req.id \in live THEN Done(req.path) ELSE Refused(404)

\* create_and_run_websocket_session has a LogicError for both refusals.
handle_websocket_request(req, live, running) ==
    IF ~req.upgrade THEN Refused(400)
    ELSE IF req.id = Bad THEN Refused(400)
    ELSE IF req.id \in live \ running THEN Done("connect")
    ELSE Refused(map_app_error("LogicError"))

\* A target that is no URL throws; every exception becomes a 500.
route_query(req, live, running) ==
    IF req.path = Bad THEN {Refused(500)}
    ELSE IF req.path \notin DOMAIN Routes THEN {Refused(404)}
    ELSE IF req.method # Routes[req.path] THEN {Refused(405)}
    ELSE CASE req.path \in Sessions -> process_session_request(req)
           [] req.path = "connect" ->
                {handle_websocket_request(req, live, running)}
           [] req.path = "metrics" -> {Done("none")}
           [] OTHER -> {SessionOp(req, live)}
=============================================================================
