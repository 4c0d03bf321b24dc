------------------------------ MODULE MCServices ------------------------------
(***************************************************************************)
(* The components whose state lives in the memory of one API process,      *)
(* where a step runs from one await to the next: the LLM gateway, the      *)
(* coordinator of a streamed answer, and a search of the chunks.  A        *)
(* behaviour is about one of them, its subject.                            *)
(***************************************************************************)
EXTENDS LlmGateway, AskStream, HybridSearch

VARIABLE subject

(* An index lists up to three chunks, or one if there are two variants of  *)
(* the query, whose weights are 1 and 0.9.                                 *)
MCMaxListed == <<3, 1>>
MCWeights == <<10, 9>>

Init ==
    /\ subject \in {"gateway", "stream", "search"}
    /\ GatewayInit /\ AskInit /\ HybridInit

Next ==
    /\ UNCHANGED subject
    /\ \/ subject = "gateway" /\ GatewayNext /\ UNCHANGED <<askVars, hybridVars>>
       \/ subject = "stream" /\ AskNext /\ UNCHANGED <<gatewayVars, hybridVars>>
       \/ subject = "search" /\ HybridNext /\ UNCHANGED <<gatewayVars, askVars>>

(* The event loop is fair to the subject, as each component asks; those    *)
(* that stay where they start are asked nothing of.                        *)
Spec ==
    /\ Init /\ [][Next]_<<subject, gatewayVars, askVars, hybridVars>>
    /\ \A q \in GatewayRequests : WF_gatewayVars(subject = "gateway" /\ GatewayStep(q))
    /\ WF_askVars(subject = "stream" /\ Emitting)
    /\ \A w \in Watchers : WF_askVars(subject = "stream" /\ (Take(w) \/ EndAtHeartbeat(w)))
    /\ WF_hybridVars(subject = "search" /\ HybridStep)

(* Statuses and places are those of the code; queues, counters and permits *)
(* stay within their bounds.                                               *)
ServicesTypeOK == GatewayTypeOK /\ AskTypeOK /\ HybridTypeOK

(* Whoever asked gets an answer or a verdict: a request through failing    *)
(* providers, a watcher of a stream, a search whose indices do not answer. *)
NobodyWaits == RequestsEnd /\ WatchersEnd /\ SearchEnds
===============================================================================
