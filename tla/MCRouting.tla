----------------------------- MODULE MCRouting -----------------------------
(***************************************************************************)
(* Small instances of Routing for TLC.                                     *)
(***************************************************************************)
EXTENDS Routing

\* OpenAIProvider.supported_models, and the mock provider of the tests
MCRegistry == [openai |-> {"gpt-5-mini"}, mock |-> {"mock-small", "mock-large"}]

\* The deployed route: one candidate.
OneCandidate == <<[provider |-> "openai", model |-> "gpt-5-mini"]>>

\* A route with a fallback provider.
TwoCandidates == OneCandidate \o <<[provider |-> "mock", model |-> "mock-small"]>>

\* A fallback to two models of one provider, which share its breaker.
ThreeCandidates == TwoCandidates \o <<[provider |-> "mock", model |-> "mock-large"]>>
=============================================================================
