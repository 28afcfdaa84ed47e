------------------------- MODULE DeliveryPolicy -------------------------
(***************************************************************************)
(* Trigger delivery policies: which definitions compile, and what a        *)
(* compiled policy decides about a failed delivery attempt.                *)
(***************************************************************************)
EXTENDS Integers, Sequences

StatusTransport == 0

Errors == 400..599

\* What a handler [on, codes, strategy] applies to, where on is a keyword or
\* "explicit"; a request without a response only matches keyword handlers.
Claims(h, status) ==
  IF status = StatusTransport THEN h.on \in {"any_error", "server_error"}
  ELSE CASE h.on = "any_error" -> status \in Errors
         [] h.on = "client_error" -> status \in 400..499
         [] h.on = "server_error" -> status \in 500..599
         [] OTHER -> status \in h.codes

\* compileHandlerOn: codes are errors, and there is at least one.
HandlerOk(h) == h.on = "explicit" => h.codes # {} /\ h.codes \subseteq Errors

Own(h) ==
  CASE h.on = "any_error" -> Errors
    [] h.on = "client_error" -> 400..499
    [] h.on = "server_error" -> 500..599
    [] OTHER -> h.codes

\* No handler claims a code an earlier one claimed.
HandlersDisjoint(hs) ==
  \A i \in DOMAIN hs : Own(hs[i]) \cap UNION {Own(hs[j]) : j \in 1..i - 1} = {}

\* retry_times is required by a retry handler and refused without one.
RetryTimesOk(hs, times) ==
  IF \E i \in DOMAIN hs : hs[i].strategy = "retry"
  THEN times \in 1..100
  ELSE times = -1

Compiles(def) ==
  /\ def.handlers # <<>>
  /\ \A i \in DOMAIN def.handlers : HandlerOk(def.handlers[i])
  /\ HandlersDisjoint(def.handlers)
  /\ RetryTimesOk(def.handlers, def.times)

\* The first handler that claims the status decides; nobody retries what no
\* handler claims.
Decide(hs, status) ==
  LET claiming == {i \in DOMAIN hs : Claims(hs[i], status)}
  IN IF status \in 200..399 \/ claiming = {} THEN "discard"
     ELSE hs[CHOOSE i \in claiming : \A j \in claiming : i <= j].strategy
=============================================================================
