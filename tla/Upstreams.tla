------------------------------ MODULE Upstreams ------------------------------
(***************************************************************************)
(* The clients of the upstreams: the providers' interfaces (ProviderCall), *)
(* the conversations of the web client (WebConversation) and the responses *)
(* route (CodexImages).  They share no state; what all of them promise of  *)
(* the pictures they bring is one promise.                                 *)
(***************************************************************************)
EXTENDS ProviderCall, WebConversation, CodexImages

\* What an upstream client reports is what the upstream did: pictures delivered and paid
\* once (ProviderCall), pictures of our own turn (WebConversation), a way through that is
\* told as it was taken (CodexImages).
UpstreamsAreHeard == CallsAreSettled /\ AnswersAreOurs /\ CodexTellsTheTruth

=============================================================================
