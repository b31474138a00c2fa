----------------------------- MODULE MediaFiles -----------------------------
(***************************************************************************)
(* Audio files and the rows that name them (server/src/media.rs, the voice *)
(* references of api.rs, the recordings of pipeline/transcription.rs and   *)
(* pipeline/synthesis.rs, api/exports.rs).                                 *)
(*                                                                         *)
(* Every file is written under another name, renamed, and then named by a  *)
(* row: three steps without a transaction, of concurrent handlers, any of  *)
(* which may fail, a handler may be dropped with its request and a crash   *)
(* may come between them.  A statement whose answer is lost was an error   *)
(* to the handler, but the database may have carried it out.  What a row   *)
(* says                                                                    *)
(* besides the file, and whether the bytes are acceptable audio            *)
(* (validate_voice_reference_wav, before the first step), is left out.     *)
(***************************************************************************)
EXTENDS Naturals, FiniteSets

CONSTANTS
    Voices,         \* ids of uploads of voice references, fresh for each
    Recordings,     \* files of utterances
    Owners,         \* accounts
    Names,          \* names of voice references
    VoiceLimit,     \* MAX_VOICE_REFERENCES
    Readers,        \* exports, downloads and syntheses that run
    NoFile

Files == Voices \cup Recordings

ASSUME MediaAssumption ==
    /\ Voices \cap Recordings = {} /\ NoFile \notin Files
    /\ IsFiniteSet(Voices)
    /\ VoiceLimit \in Nat \ {0}

VARIABLES
    writer,         \* the task that makes each file
    voice,          \* owner and name of each voice reference
    whole,          \* files that exist under their own name
    row,            \* the row of each file: "none", "live", "deleted"
    reader,
    litter,         \* history: files whose row or removal failed, or whose task died
    unanswered      \* history: uploads whose INSERT took effect and whose answer was lost
mediaVars == <<writer, voice, whole, row, reader, litter, unanswered>>

WriterSteps == {"new", "checked", "written", "published", "rejected", "over"}

MediaInit ==
    /\ writer = [f \in Files |-> IF f \in Voices THEN "new" ELSE "checked"]
    /\ voice \in [Voices -> Owners \X Names]
    /\ whole = {}
    /\ row = [f \in Files |-> "none"]
    /\ reader = [r \in Readers |-> [at |-> "idle", file |-> NoFile]]
    /\ litter = {} /\ unanswered = {}

Live(o) == {v \in Voices : voice[v][1] = o /\ row[v] = "live"}
Step(f, at) == writer' = [writer EXCEPT ![f] = at]
KeepRest == UNCHANGED <<voice, reader>>

-----------------------------------------------------------------------------
(* Writing.                                                                *)

\* create_voice_reference reads the references its owner has.
CheckUpload(v) ==
    /\ writer[v] = "new"
    /\ LET o == voice[v][1]
       IN  Step(v, IF \/ Cardinality(Live(o)) >= VoiceLimit
                      \/ \E w \in Live(o) : voice[w][2] = voice[v][2]
                     THEN "over" ELSE "checked")
    /\ KeepRest /\ UNCHANGED <<whole, row, litter, unanswered>>

\* The .part file, which nothing reads; a failure leaves it behind.
WritePart(f) ==
    /\ writer[f] = "checked"
    /\ \E at \in {"written", "over"} : Step(f, at)
    /\ KeepRest /\ UNCHANGED <<whole, row, litter, unanswered>>

Publish(f) ==
    /\ writer[f] = "written"
    /\ \/ Step(f, "published") /\ whole' = whole \cup {f}
       \/ Step(f, "over") /\ UNCHANGED whole
    /\ KeepRest /\ UNCHANGED <<row, litter, unanswered>>

\* Mutant: the row is written before the file.
StoreRowFirst(f) ==
    /\ writer[f] \in {"written", "published"}
    /\ row' = [row EXCEPT ![f] = "live"]
    /\ Step(f, IF writer[f] = "written" THEN "written" ELSE "over")
    /\ KeepRest /\ UNCHANGED <<whole, litter, unanswered>>

\* INSERT, under the unique index on the names of live references; for a
\* recording the row of its utterance.  Any statement may fail, before or after
\* it took effect: the handler cannot tell.
Insertable(f) ==
    f \in Voices => \A w \in Live(voice[f][1]) : voice[w][2] # voice[f][2]

StoreRow(f) ==
    /\ writer[f] = "published"
    /\ \/ /\ Insertable(f)
          /\ row' = [row EXCEPT ![f] = "live"]
          /\ Step(f, "over") /\ UNCHANGED <<litter, unanswered>>
       \/ /\ Insertable(f) /\ f \in Voices
          /\ row' = [row EXCEPT ![f] = "live"]
          /\ Step(f, "rejected") /\ unanswered' = unanswered \cup {f}
          /\ UNCHANGED litter
       \/ /\ Step(f, IF f \in Voices THEN "rejected" ELSE "over")
          /\ litter' = IF f \in Voices THEN litter ELSE litter \cup {f}
          /\ UNCHANGED <<row, unanswered>>
    /\ KeepRest /\ UNCHANGED whole

\* The file of a row that seems refused is removed, if that works.
RemoveFile(f) ==
    /\ writer[f] = "rejected"
    /\ Step(f, "over")
    /\ \/ whole' = whole \ {f} /\ UNCHANGED litter
       \/ litter' = litter \cup {f} /\ UNCHANGED whole
    /\ KeepRest /\ UNCHANGED <<row, unanswered>>

\* The client of an upload goes away and its handler is dropped where it waits.
\* (Had its INSERT been sent and carried out, StoreRow has taken place.)
DropUpload(v) ==
    /\ writer[v] \notin {"new", "over"}
    /\ Step(v, "over")
    /\ litter' = litter \cup ({v} \cap whole)
    /\ KeepRest /\ UNCHANGED <<whole, row, unanswered>>

\* delete_voice_reference sets deleted_at; the file stays.
DeleteVoice(v) ==
    /\ row[v] = "live"
    /\ row' = [row EXCEPT ![v] = "deleted"]
    /\ KeepRest /\ UNCHANGED <<writer, whole, litter, unanswered>>

CrashWriters ==
    /\ \E f \in Files : writer[f] \in {"written", "published", "rejected"}
    /\ litter' = litter \cup {f \in whole : writer[f] \in {"published", "rejected"}}
    /\ writer' = [f \in Files |-> IF writer[f] = "new" THEN "new" ELSE "over"]
    /\ reader' = [r \in Readers |-> [at |-> "idle", file |-> NoFile]]
    /\ UNCHANGED <<voice, whole, row, unanswered>>

-----------------------------------------------------------------------------
(* Reading: a row first, its file later.                                   *)

FindRow(r, f) ==
    /\ reader[r].at = "idle"
    /\ row[f] = "live"
    /\ reader' = [reader EXCEPT ![r] = [at |-> "found", file |-> f]]
    /\ UNCHANGED <<writer, voice, whole, row, litter, unanswered>>

ReadFile(r) ==
    /\ reader[r].at = "found"
    /\ LET f == reader[r].file
       IN  reader' = [reader EXCEPT ![r] = IF f \in whole
                                             THEN [at |-> "idle", file |-> NoFile]
                                             ELSE [at |-> "missing", file |-> f]]
    /\ UNCHANGED <<writer, voice, whole, row, litter, unanswered>>

MediaNext ==
    \/ \E v \in Voices : CheckUpload(v) \/ DropUpload(v) \/ DeleteVoice(v)
    \/ \E f \in Files :
          \/ WritePart(f) \/ Publish(f) \/ StoreRow(f) \/ RemoveFile(f)
          \/ \E r \in Readers : FindRow(r, f)
    \/ \E r \in Readers : ReadFile(r)
    \/ CrashWriters
MediaSpec == MediaInit /\ [][MediaNext]_mediaVars

-----------------------------------------------------------------------------
MediaTypeOK ==
    /\ writer \in [Files -> WriterSteps]
    /\ voice \in [Voices -> Owners \X Names]
    /\ whole \subseteq Files
    /\ row \in [Files -> {"none", "live", "deleted"}]
    /\ reader \in [Readers -> [at : {"idle", "found", "missing"}, file : Files \cup {NoFile}]]
    /\ litter \subseteq Files /\ unanswered \subseteq Voices

\* Whoever found a file in a row finds the file: no upload, failure, deletion,
\* dropped request or crash leaves a row without its complete file, or takes the
\* file away from an export or a synthesis that is about to open it.  One upload
\* does: its INSERT took effect and the answer was lost, so that the handler
\* removed the file of a live row (api.rs 202 to 205).
RowsHaveFiles ==
    /\ \A f \in Files : row[f] # "none" => f \in whole \/ f \in unanswered
    /\ \A r \in Readers : reader[r].at = "missing" => reader[r].file \in unanswered

\* A published file belongs to a row, deleted ones included, or to a task that
\* is still at work, unless a statement of a recording or a removal failed or
\* the process died in between.
FilesHaveRows ==
    \A f \in whole :
        \/ row[f] # "none" \/ f \in litter
        \/ writer[f] \in {"published", "rejected"}

\* Files and rows agree.
FilesAndRowsAgree == RowsHaveFiles /\ FilesHaveRows
=============================================================================
