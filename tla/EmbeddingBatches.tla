---------------------------- MODULE EmbeddingBatches ----------------------------
(***************************************************************************)
(* EmbeddingService (backend/app/embeddings/service.py): embed_texts and   *)
(* embed_chunks look their texts up in a cache, send the others to the     *)
(* provider in batches, some at a time, and cache what comes back;         *)
(* embed_query does it for one text.  Callers share the cache.  The vector *)
(* of a text is written as the text itself, and so is the key of both.     *)
(***************************************************************************)
EXTENDS Naturals, FiniteSets, Sequences, SequencesExt

CONSTANTS EmbedCallers, \* calls in flight at a time
          EmbedTexts,
          Unfit,        \* the texts that are empty, or too long for the model
          Inputs,       \* the sequences of texts that are embedded
          BatchSize,
          MaxRequests,  \* batches of a call in flight at a time
          MaxRetries,
          NoVector,
          Malformed     \* a vector of the wrong dimension, or with a NaN

ASSUME EmbeddingAssumption ==
    /\ Inputs \subseteq Seq(EmbedTexts) /\ Unfit \subseteq EmbedTexts
    /\ {NoVector, Malformed} \cap EmbedTexts = {} /\ NoVector # Malformed
    /\ BatchSize \in Nat \ {0} /\ MaxRequests \in Nat \ {0} /\ MaxRetries \in Nat

VARIABLES vectorCache,  \* by text, the vector that is cached
          embedding     \* each call: its items, and the batches of those not cached

embeddingVars == <<vectorCache, embedding>>

(* attempts: by batch, the requests made for it, 0 before its first;       *)
(* ended: the batches that are; faulted: a request or a vector was bad     *)
(* (history).                                                              *)
NoCall ==
    [at |-> "idle", texts |-> <<>>, vectors |-> <<>>, errors |-> {}, asked |-> <<>>,
     attempts |-> <<>>, ended |-> {}, faulted |-> FALSE, status |-> "none"]

EmbeddingTypeOK ==
    /\ vectorCache \in [EmbedTexts -> EmbedTexts \cup {NoVector, Malformed}]
    /\ \A c \in EmbedCallers :
          /\ embedding[c].at \in {"idle", "reading", "embedding", "told"}
          /\ embedding[c].status \in {"none", "success", "partial", "failure"}
          /\ embedding[c].errors \subseteq DOMAIN embedding[c].texts
          /\ \A i \in DOMAIN embedding[c].attempts : embedding[c].attempts[i] \in 0..(MaxRetries + 1)

EmbeddingInit ==
    /\ vectorCache = [t \in EmbedTexts |-> NoVector]
    /\ embedding = [c \in EmbedCallers |-> NoCall]

CallBecomes(c, x) == embedding' = [embedding EXCEPT ![c] = x]

(* create_batches: consecutive runs of the indices that are asked for.     *)
BatchCount(asked) == (Len(asked) + BatchSize - 1) \div BatchSize
Batch(c, b) ==
    LET asked == embedding[c].asked IN
    SubSeq(asked, (b - 1) * BatchSize + 1, IF b = BatchCount(asked) THEN Len(asked) ELSE b * BatchSize)
InFlight(c) ==
    {b \in DOMAIN embedding[c].attempts \ embedding[c].ended : embedding[c].attempts[b] > 0}
-----------------------------------------------------------------------------
(* EmbedTexts are prepared one by one; one that is unfit is an item in error.   *)
BeginEmbedding(c) ==
    /\ embedding[c].at = "idle"
    /\ \E texts \in Inputs :
          CallBecomes(c, [NoCall EXCEPT !.at = "reading", !.texts = texts,
                     !.vectors = [i \in DOMAIN texts |-> NoVector],
                     !.errors = {i \in DOMAIN texts : texts[i] \in Unfit}])
    /\ UNCHANGED vectorCache

(* The indices of S in order.                                              *)
Ascending(S) == {s \in SetToSeqs(S) : \A j, k \in DOMAIN s : j < k => s[j] < s[k]}

(* The cache is read at once; if Redis fails, nothing is found.  A         *)
(* malformed vector counts as none, but for embed_query, which takes what  *)
(* it finds.                                                               *)
ReadVectors(c) ==
    /\ embedding[c].at = "reading"
    /\ \E found \in {vectorCache, [t \in EmbedTexts |-> NoVector]} :
          LET call == embedding[c]
              fit == DOMAIN call.texts \ call.errors
              hits == {i \in fit : found[call.texts[i]] \notin {NoVector, Malformed}}
          IN \E asked \in Ascending(fit \ hits) :
                CallBecomes(c, [call EXCEPT !.at = "embedding",
                   !.vectors = [i \in DOMAIN call.texts |->
                                  IF i \in hits THEN found[call.texts[i]] ELSE NoVector],
                   !.asked = asked,
                   !.attempts = [b \in 1..BatchCount(asked) |-> 0]])
    /\ UNCHANGED vectorCache

(* A batch passes the semaphore.                                           *)
StartBatch(c, b) ==
    /\ embedding[c].at = "embedding" /\ embedding[c].attempts[b] = 0
    /\ Cardinality(InFlight(c)) < MaxRequests
    /\ CallBecomes(c, [embedding[c] EXCEPT !.attempts[b] = 1])
    /\ UNCHANGED vectorCache

(* Timeouts, rate limits and errors of the server are tried again.         *)
RetryBatch(c, b) ==
    /\ b \in InFlight(c) /\ embedding[c].attempts[b] <= MaxRetries
    /\ CallBecomes(c, [embedding[c] EXCEPT !.attempts[b] = @ + 1])
    /\ UNCHANGED vectorCache

(* The retries are used up, or the request is refused: the items of the    *)
(* batch are in error.                                                     *)
BatchFails(c, b) ==
    /\ b \in InFlight(c)
    /\ CallBecomes(c, [embedding[c] EXCEPT !.ended = @ \cup {b}, !.faulted = TRUE,
                                           !.errors = @ \cup Range(Batch(c, b))])
    /\ UNCHANGED vectorCache

(* What the provider may answer: the vectors in order, one of them         *)
(* malformed, or one too few.                                              *)
Answers(texts) ==
    {texts} \cup {[texts EXCEPT ![i] = Malformed] : i \in DOMAIN texts}
            \cup {RemoveAt(texts, i) : i \in DOMAIN texts}

(* Items get the valid ones of these vectors.                              *)
Fill(call, b, indices, vectors) ==
    LET good == {j \in DOMAIN vectors : vectors[j] # Malformed}
        bad == {indices[j] : j \in DOMAIN indices \ good}
    IN [call EXCEPT !.ended = @ \cup {b}, !.errors = @ \cup bad, !.faulted = @ \/ bad # {},
                    !.vectors = [i \in DOMAIN @ |->
                                   IF \E j \in good : indices[j] = i
                                   THEN vectors[CHOOSE j \in good : indices[j] = i] ELSE @[i]]]

(* Mutant: an answer is used as far as it goes.                            *)
AnswerBatchAnyLength(c, b) ==
    /\ b \in InFlight(c)
    /\ LET indices == Batch(c, b) IN
       \E vectors \in Answers([j \in DOMAIN indices |-> embedding[c].texts[indices[j]]]) :
          CallBecomes(c, Fill(embedding[c], b, indices, vectors))
    /\ UNCHANGED vectorCache

(* An answer of the wrong length puts the whole batch in error.            *)
AnswerBatch(c, b) ==
    /\ b \in InFlight(c)
    /\ LET indices == Batch(c, b) IN
       \E vectors \in Answers([j \in DOMAIN indices |-> embedding[c].texts[indices[j]]]) :
          CallBecomes(c, Fill(embedding[c], b, indices,
                              IF Len(vectors) = Len(indices) THEN vectors ELSE <<>>))
    /\ UNCHANGED vectorCache

(* When all batches have ended the new vectors are cached, in one pipeline *)
(* that may fail, and the items are counted.                               *)
Computed(call) == {i \in Range(call.asked) : call.vectors[i] # NoVector}
TellItems(c) ==
    LET call == embedding[c]
        made == {i \in DOMAIN call.vectors : call.vectors[i] # NoVector /\ i \notin call.errors}
    IN /\ call.at = "embedding" /\ call.ended = DOMAIN call.attempts
       /\ CallBecomes(c, [call EXCEPT !.at = "told",
                     !.status = IF made = DOMAIN call.texts THEN "success"
                                ELSE IF made = {} THEN "failure" ELSE "partial"])
       /\ \/ UNCHANGED vectorCache
          \/ vectorCache' = [t \in EmbedTexts |->
                IF \E i \in Computed(call) : call.texts[i] = t
                THEN call.vectors[CHOOSE i \in Computed(call) : call.texts[i] = t]
                ELSE vectorCache[t]]

CallLeaves(c) == embedding[c].at = "told" /\ CallBecomes(c, NoCall) /\ UNCHANGED vectorCache

VectorExpires(t) ==
    /\ vectorCache[t] # NoVector
    /\ vectorCache' = [vectorCache EXCEPT ![t] = NoVector]
    /\ UNCHANGED embedding

EmbeddingNext ==
    \/ \E c \in EmbedCallers :
          \/ BeginEmbedding(c) \/ ReadVectors(c) \/ TellItems(c) \/ CallLeaves(c)
          \/ \E b \in DOMAIN embedding[c].attempts :
                \/ StartBatch(c, b) \/ RetryBatch(c, b)
                \/ BatchFails(c, b) \/ AnswerBatch(c, b)
    \/ \E t \in EmbedTexts : VectorExpires(t)

EmbeddingSpec == EmbeddingInit /\ [][EmbeddingNext]_embeddingVars
-----------------------------------------------------------------------------
(* Whichever batches are answered, failed or cut short, in whatever order, *)
(* and whatever other callers have cached, every item ends with the vector *)
(* of its own text or with an error, and never both; what was fit fails    *)
(* only in a call that a provider has failed, and what was cached never;   *)
(* and no text is cached with the vector of another.                       *)
VectorsAreTheirOwn ==
    /\ \A t \in EmbedTexts : vectorCache[t] \in {NoVector, t}
    /\ \A c \in EmbedCallers : LET call == embedding[c] IN
          call.at = "told" =>
             /\ \A i \in DOMAIN call.texts :
                   /\ call.vectors[i] \in {NoVector, call.texts[i]}
                   /\ (call.vectors[i] = NoVector) <=> i \in call.errors
             /\ \A i \in call.errors :
                   \/ call.texts[i] \in Unfit
                   \/ call.faulted /\ i \in Range(call.asked)
             /\ (call.status = "success") <=> call.errors = {}
================================================================================
