------------------------------ MODULE HttpGateway ------------------------------
(***************************************************************************)
(* What HttpGatewayClient.chat (src/app/gateway_client/http_client.py)     *)
(* makes of what one POST to the gateway brings: a reply for the loop, or  *)
(* an exception.  None of its exceptions is a TimeoutError: those of httpx *)
(* are not derived from it, so the loop takes the client's own time limit  *)
(* for an ordinary error.                                                  *)
(***************************************************************************)
EXTENDS Naturals, Sequences

\* A field of a JSON object may be missing, null, or have a value.
Missing == [is |-> "missing"]
Null == [is |-> "null"]
Value(v) == [is |-> "value", v |-> v]

\* The body of a response has choices, each with a finish reason and the
\* content of its message, and usage, with its two token counts.
Choice(finish, content) == [finish |-> finish, content |-> content]
Body(choices, usage) == [choices |-> choices, usage |-> usage]
Usage(prompt, completion) == Value([prompt |-> prompt, completion |-> completion])

\* Nothing comes back (no connection, httpx's own timeout), or a response does.
Unreachable == [is |-> "unreachable"]
Response(success, body) == [is |-> "response", success |-> success, body |-> body]

\* dict.get(field, 0): the default stands in for a missing field, not for null.
OrZero(field) == IF field = Missing THEN Value(0) ELSE field

\* The two counts of a body.  No usage at all counts as none spent.
Counts(body) ==
  IF body.usage = Missing
  THEN <<Value(0), Value(0)>>
  ELSE <<OrZero(body.usage.v.prompt), OrZero(body.usage.v.completion)>>

\* The body can be mapped: there is a first choice, it has a content, usage is
\* not null, and neither is a count.
Mappable(body) ==
  /\ body.choices.is = "value" /\ body.choices.v # <<>>
  /\ Head(body.choices.v).content.is = "value"
  /\ body.usage # Null
  /\ \A i \in {1, 2} : Counts(body)[i].is = "value"

\* A finish reason that is missing, null or empty reads "stop".
FinishReason(choice) == IF choice.finish.is = "value" THEN choice.finish.v ELSE "stop"

ToLlmResponse(body) ==
  [finish |-> FinishReason(Head(body.choices.v)),
   content |-> Head(body.choices.v).content.v,
   tokens |-> Counts(body)[1].v + Counts(body)[2].v]

\* raise_for_status, then the mapping.
Succeeds(exchange) == exchange.is = "response" /\ exchange.success /\ Mappable(exchange.body)

ChatReplies(exchanges) == {ToLlmResponse(x.body) : x \in {y \in exchanges : Succeeds(y)}}
ChatFailures(exchanges) == {"error" : x \in {y \in exchanges : ~Succeeds(y)}}

\* MockGatewayClient, the default: one answer of at least a token each way.
MockReply(content, words_in, words_out) ==
  [finish |-> "stop", content |-> content,
   tokens |-> (IF words_in = 0 THEN 1 ELSE words_in) + (IF words_out = 0 THEN 1 ELSE words_out)]
=============================================================================
