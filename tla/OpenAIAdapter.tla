--------------------------- MODULE OpenAIAdapter ---------------------------
(***************************************************************************)
(* How the OpenAI adapter and the routing loop sort what a call ends with. *)
(* The adapter keeps no state: an outcome of the client library is mapped  *)
(* to the category that decides on retry, rejection or an internal error.  *)
(***************************************************************************)

\* Exceptions of the client library and of the tracing or HTTP code under it;
\* a number is the status of an APIStatusError without a class of its own.
Transient == {"APITimeoutError", "RateLimitError", "InternalServerError", "APIConnectionError"}
Definite ==
  {"AuthenticationError", "PermissionDeniedError", "NotFoundError", "BadRequestError"}
TransientStatus == {"408", "409"}
OtherStatus == {"413", "422"}
Foreign == {"foreign exception"}
Exceptions == Transient \cup Definite \cup TransientStatus \cup OtherStatus \cup Foreign

\* _map_openai_exception; an exception that is not OpenAI's stays what it is.
MapException(e) ==
  CASE e \in Transient \cup TransientStatus -> "retryable"
    [] e \in Definite \cup OtherStatus -> "non-retryable"
    [] OTHER -> "unexpected"

Malformed == {"no usage", "mistyped usage", "no text"}
Responses == {"completion", "negative usage"} \cup Malformed

\* complete, and what the routing loop makes of its result: a malformed
\* response is a bare ProviderError, which is not retried; a usage that is
\* negative passes the adapter and breaks the contract of routing.
CompleteOutcome(answer) ==
  CASE answer \in Exceptions -> MapException(answer)
    [] answer = "completion" -> "success"
    [] answer = "negative usage" -> "contract error"
    [] answer \in Malformed -> "non-retryable"
    [] OTHER -> "timeout"

\* count_input_tokens: a count that is missing, mistyped or negative is an
\* UnexpectedProviderResponseError, which the handler does not catch.
CountOutcome(answer) ==
  CASE answer \in Exceptions -> MapException(answer)
    [] answer = "count" -> "success"
    [] answer = "no count" -> "unexpected"
    [] OTHER -> "timeout"

CompleteAnswers == Exceptions \cup Responses \cup {"deadline"}
CountAnswers == Exceptions \cup {"count", "no count", "deadline"}

\* The routing loop calls again after a timeout or a retryable error only.
MayRetry(outcome) == outcome \in {"timeout", "retryable"}
=============================================================================
