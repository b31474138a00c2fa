------------------------- MODULE UtteranceLifecycle -------------------------
(***************************************************************************)
(* What the history promises of the `status` column of voice_utterances    *)
(* (server/src/storage/history.rs): an utterance is stored when it enters  *)
(* recognition, moves forward one stage at a time, and ends completed,     *)
(* failed or interrupted.  A failed or interrupted one stays as it is.     *)
(***************************************************************************)
CONSTANT Utterances

VARIABLE status         \* the row of each utterance, "none" before it exists

Successor == [none        |-> "recognizing",
              recognizing |-> "translating",
              translating |-> "text_ready",
              text_ready  |-> "completed"]

InterruptionOf == [recognizing |-> "recognition_interrupted",
                   translating |-> "translation_interrupted",
                   text_ready  |-> "tts_interrupted"]

\* A stage may fail after its result was stored: an UPDATE whose reply is
\* lost counts as failed.
FailableFrom == [recognition_failed |-> {"recognizing", "translating"},
                 translation_failed |-> {"translating", "text_ready"},
                 tts_failed         |-> {"text_ready", "completed"}]

InProgress == DOMAIN InterruptionOf

Init == status = [u \in Utterances |-> "none"]

Advance(u) ==
    /\ status[u] \in DOMAIN Successor
    /\ status' = [status EXCEPT ![u] = Successor[@]]

Fail(u) ==
    \E failure \in DOMAIN FailableFrom :
        /\ status[u] \in FailableFrom[failure]
        /\ status' = [status EXCEPT ![u] = failure]

\* One UPDATE interrupts any number of rows of one status.
Interrupt(st) ==
    \E interrupted \in SUBSET {u \in Utterances : status[u] = st} :
        status' = [u \in Utterances |->
                      IF u \in interrupted THEN InterruptionOf[st] ELSE status[u]]

Next == \/ \E u \in Utterances : Advance(u) \/ Fail(u)
        \/ \E st \in InProgress : Interrupt(st)

Spec == Init /\ [][Next]_status
=============================================================================
