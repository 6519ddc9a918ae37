--------------------------- MODULE MCChatWorkflow ---------------------------
(***************************************************************************)
(* Instances of ChatWorkflow for TLC.                                      *)
(***************************************************************************)
EXTENDS ChatWorkflow, TLC

\* What a coherent STT service replies: a question, more to be said without a
\* question, completed slots that are ready for the notice, or nothing of use, as a
\* body that is no JSON.
Asks == [slots |-> TRUE, completed |-> FALSE, ready |-> FALSE, question |-> TRUE]
WaitsForMore == [slots |-> TRUE, completed |-> FALSE, ready |-> FALSE, question |-> FALSE]
Complete == [slots |-> TRUE, completed |-> TRUE, ready |-> TRUE, question |-> FALSE]
Empty == [slots |-> FALSE, completed |-> FALSE, ready |-> FALSE, question |-> FALSE]

MCReplies == {Asks, Complete}
MCAllReplies == {Asks, WaitsForMore, Complete, Empty}

ASSUME RepliesCoherent

\* A streamed message does what a text message does, and ends later.  An edit or a
\* generation of variants writes the draft as that of a title does, and leaves title
\* and photo alone, so the properties of requests in turn do without them.
ConcurrentRequests == Kinds \ {"text"}
InTurnRequests == Kinds \ {"text", "variant", "generate"}
TalkRequests == {"create", "text", "voice"}

Busy(kinds) == \E w \in Workers : job[w] # None /\ job[w].kind \in kinds

\* The states of one announcement that is talked about and has no variants ...
Talking ==
  /\ \A i, j \in used : i = j
  /\ \A i \in Ids : ann[i] # None => ann[i].draft.variants = None
  /\ ~Busy({"generate", "variant", "duplicate"})

\* ... and those of announcements drafted from one input each, before photos.
Reviewing ==
  /\ \A p \in Pipelines : turns[p] =< 1
  /\ \A i \in Ids : /\ sess[i] # None => sess[i].stage \in {"start", "draft_ready"}
                    /\ ann[i] # None => ann[i].cover = None
  /\ ~Busy({"stream", "images"})

\* A bound: the states in which ChatConcurrent goes on.
TalkingOrReviewing == Talking \/ Reviewing

Symmetry == Permutations(Workers) \cup Permutations(Ids) \cup Permutations(Pipelines)
            \cup Permutations(Covers) \cup Permutations(Notices)

=============================================================================
