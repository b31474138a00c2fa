------------------------------ MODULE Lexicons ------------------------------
(***************************************************************************)
(* Industry dictionaries, blocked words and the policy a session makes of  *)
(* them (server/src/api/lexicons.rs, storage/lexicons.rs,                  *)
(* language_policy.rs, and the stages that apply it).                      *)
(*                                                                         *)
(* A session reads its room's dictionary, the entries and the blocked      *)
(* words in three statements when it starts, keeps them until it ends, and *)
(* passes every transcript and translation through them.  Text is a        *)
(* sequence of characters.  Names, notes, languages and the validation of  *)
(* lengths are left out; rooms and roles are those of MeetingRooms.        *)
(***************************************************************************)
EXTENDS Naturals, Sequences, SequencesExt

CONSTANTS
    Characters,
    Lowercase(_),       \* of a character
    AsciiCharacters,    \* A-Z a-z 0-9 _ -
    WordCharacters,     \* alphanumeric in any script, and _
    Dictionaries,
    EntryIds, BlockIds,
    Terms,              \* records [source, aliases, target, priority]
    Blocks,             \* records [word, replacement, whole, exact]
    Heard, Answers,     \* what the recogniser and the translator may return
    MaxChanges,           \* bound of the administrator's requests
    NoDictionary

ASSUME LexiconAssumption ==
    /\ AsciiCharacters \subseteq Characters /\ WordCharacters \subseteq Characters
    /\ \A c \in Characters : Lowercase(c) \in Characters
    /\ Heard \subseteq Seq(Characters) /\ Answers \subseteq Seq(Characters)
    /\ \A t \in Terms : /\ t.source \in Seq(Characters) /\ t.target \in Seq(Characters)
                       /\ t.aliases \in Seq(Seq(Characters))
    /\ \A b \in Blocks : /\ b.word \in Seq(Characters) /\ b.word # <<>>
                        /\ b.replacement \in Seq(Characters)
                        /\ b.whole \in BOOLEAN /\ b.exact \in BOOLEAN
    /\ NoDictionary \notin Dictionaries
    /\ IsFiniteSet(EntryIds) /\ IsFiniteSet(BlockIds)

VARIABLES
    dictionaries,   \* status of each: "none" before it is created
    entries,        \* table terminology_entries
    blocks,         \* table blocked_words
    binding,        \* the room's row in room_terminology_bindings
    binder,         \* update_room_binding, between its check and its write
    changes,
    room,        \* where the session is, and its policy
    texts,          \* what the session published of the present utterance
    during          \* history: facts true at some moment, or always, of the load
tableVars   == <<dictionaries, entries, blocks, binding, binder, changes>>
lexiconVars == <<tableVars, room, texts, during>>

Statuses == {"none", "active", "disabled", "deleted"}
IsLive(status) == status \in {"active", "disabled"}     \* deleted_at is null

-----------------------------------------------------------------------------
(* Text.                                                                   *)

Fold(text) == [i \in DOMAIN text |-> Lowercase(text[i])]

\* A word of another script, or one with a space, is matched anywhere.
IsAsciiWord(text) == \A i \in DOMAIN text : text[i] \in AsciiCharacters

\* Left to right; what was replaced is not looked at again.
ReplaceMatches(text, needle, replacement, exact, whole) ==
    LET same   == IF exact THEN text ELSE Fold(text)
        wanted == IF exact THEN needle ELSE Fold(needle)
        Boundary(i) == i \notin DOMAIN text \/ text[i] \notin WordCharacters
        Matches(i) ==
            /\ SubSeq(same, i, i + Len(needle) - 1) = wanted
            /\ whole => Boundary(i - 1) /\ Boundary(i + Len(needle))
        rest[i \in 1 .. Len(text) + 1] ==
            IF i > Len(text) THEN <<>>
            ELSE IF i + Len(needle) <= Len(text) + 1 /\ Matches(i)
            THEN replacement \o rest[i + Len(needle)]
            ELSE <<text[i]>> \o rest[i + 1]
    IN  IF needle = <<>> THEN text ELSE rest[1]

\* The sort is stable.
LongerFirst(words) ==
    LET Before(i, j) == Len(words[i]) > Len(words[j]) \/ (Len(words[i]) = Len(words[j]) /\ i < j)
        At(p) == CHOOSE i \in DOMAIN words :
                    Cardinality({j \in DOMAIN words : Before(j, i)}) = p - 1
    IN  [p \in DOMAIN words |-> words[At(p)]]

\* Aliases and the term itself, longer ones first, without neighbours that repeat.
Variants(term) ==
    FoldLeft(LAMBDA kept, v : IF kept # <<>> /\ Last(kept) = v THEN kept ELSE Append(kept, v),
             <<>>, LongerFirst(Append(term.aliases, term.source)))

ReplaceVariants(text, variants, replacement) ==
    FoldLeft(LAMBDA output, variant :
                 ReplaceMatches(output, variant, replacement, FALSE, IsAsciiWord(variant)),
             text, variants)

NormalizeTranscript(policy, text) ==
    FoldLeft(LAMBDA output, term : ReplaceVariants(output, Variants(term), term.source),
             text, policy.terms)

Sanitize(policy, text) ==
    FoldLeft(LAMBDA output, block :
                 ReplaceMatches(output, block.word, block.replacement, block.exact, block.whole),
             text, policy.blocked)

TargetTerms(policy, text) ==
    FoldLeft(LAMBDA output, term :
                 ReplaceVariants(output, Append(Variants(term), term.source), term.target),
             text, policy.terms)

\* Mutant: the terms are put in after the words were blocked.
SanitizeFirst(policy, text) == TargetTerms(policy, Sanitize(policy, text))

NormalizeTranslation(policy, text) == Sanitize(policy, TargetTerms(policy, text))

\* Sorted when the policy is built; the order of equals is the database's.
TermOrders(terms) ==
    {s \in SetToSeqs(terms) : \A i, j \in DOMAIN s : i < j =>
        \/ s[i].priority > s[j].priority
        \/ s[i].priority = s[j].priority /\ Len(s[i].source) >= Len(s[j].source)}
BlockOrders(words) ==
    {s \in SetToSeqs(words) : \A i, j \in DOMAIN s : i < j => Len(s[i].word) >= Len(s[j].word)}

-----------------------------------------------------------------------------
(* What the tables say.                                                    *)

ActiveEntries(d) ==
    {entries[e].term : e \in {x \in EntryIds :
        entries[x].status = "active" /\ entries[x].dictionary = d}}
ActiveBlocks == {blocks[b].block : b \in {x \in BlockIds : blocks[x].status = "active"}}

\* Mutant: a dictionary that was switched off still counts.
BoundInAnyState(d) == d \in Dictionaries /\ binding.status = "active" /\ binding.dictionary = d

\* The joined tables are read by one statement.
Bound(d) == /\ d \in Dictionaries /\ binding.status = "active" /\ binding.dictionary = d
            /\ dictionaries[d] = "active"

InForce == {<<"bound", d>> : d \in {x \in Dictionaries :
                 /\ binding.status = "active" /\ binding.dictionary = x
                 /\ dictionaries[x] = "active"}}
         \cup {<<"entry", entries[e].dictionary, entries[e].term>> : e \in {x \in EntryIds :
                 entries[x].status = "active"}}
         \cup {<<"block", b>> : b \in ActiveBlocks}

-----------------------------------------------------------------------------
(* Administrators and the owner of the room.                               *)

Edit == changes < MaxChanges /\ changes' = changes + 1

SaveDictionary(d, status) ==
    /\ Edit /\ dictionaries[d] # "deleted"
    /\ dictionaries' = [dictionaries EXCEPT ![d] = status]
    /\ UNCHANGED <<entries, blocks, binding, binder>>

DeleteDictionary(d) ==                 \* its entries and bindings stay as they are
    /\ Edit /\ IsLive(dictionaries[d])
    /\ dictionaries' = [dictionaries EXCEPT ![d] = "deleted"]
    /\ UNCHANGED <<entries, blocks, binding, binder>>

\* terminology_entries_source_active_idx
SourceIsFree(e, d, term) ==
    \A x \in EntryIds \ {e} : IsLive(entries[x].status) /\ entries[x].dictionary = d
                                => Fold(entries[x].term.source) # Fold(term.source)

\* The dictionary must exist, deleted or not (a foreign key).
CreateEntry(e, d, term, status) ==
    /\ Edit /\ entries[e].status = "none"
    /\ dictionaries[d] # "none" /\ SourceIsFree(e, d, term)
    /\ entries' = [entries EXCEPT ![e] = [status |-> status, dictionary |-> d, term |-> term]]
    /\ UNCHANGED <<dictionaries, blocks, binding, binder>>

\* An import inserts its rows one by one and keeps those that succeed.
ImportEntry(e, d, term) == CreateEntry(e, d, term, "active")

UpdateEntry(e, term, status) ==
    /\ Edit /\ IsLive(entries[e].status) /\ SourceIsFree(e, entries[e].dictionary, term)
    /\ entries' = [entries EXCEPT ![e].status = status, ![e].term = term]
    /\ UNCHANGED <<dictionaries, blocks, binding, binder>>

DeleteEntry(e) ==
    /\ Edit /\ IsLive(entries[e].status)
    /\ entries' = [entries EXCEPT ![e].status = "deleted"]
    /\ UNCHANGED <<dictionaries, blocks, binding, binder>>

\* blocked_words_word_active_idx
WordIsFree(b, block) ==
    \A x \in BlockIds \ {b} : IsLive(blocks[x].status) =>
        \/ Fold(blocks[x].block.word) # Fold(block.word)
        \/ blocks[x].block.whole # block.whole

CreateBlock(b, block, status) ==
    /\ Edit /\ blocks[b].status = "none" /\ WordIsFree(b, block)
    /\ blocks' = [blocks EXCEPT ![b] = [status |-> status, block |-> block]]
    /\ UNCHANGED <<dictionaries, entries, binding, binder>>

ImportBlock(b, block) == CreateBlock(b, block, "active")

UpdateBlock(b, block, status) ==
    /\ Edit /\ IsLive(blocks[b].status) /\ WordIsFree(b, block)
    /\ blocks' = [blocks EXCEPT ![b] = [status |-> status, block |-> block]]
    /\ UNCHANGED <<dictionaries, entries, binding, binder>>

DeleteBlock(b) ==
    /\ Edit /\ IsLive(blocks[b].status)
    /\ blocks' = [blocks EXCEPT ![b].status = "deleted"]
    /\ UNCHANGED <<dictionaries, entries, binding, binder>>

\* The owner chooses an active dictionary; it may be gone when the row is written.
ChooseDictionary(d) ==
    /\ Edit /\ binder = NoDictionary
    /\ dictionaries[d] = "active"
    /\ binder' = d
    /\ UNCHANGED <<dictionaries, entries, blocks, binding>>

StoreBinding ==
    /\ binder # NoDictionary
    /\ binding' = [status |-> "active", dictionary |-> binder]
    /\ binder' = NoDictionary
    /\ UNCHANGED <<dictionaries, entries, blocks, changes>>

ClearBinding ==
    /\ Edit /\ binding.status = "active"
    /\ binding' = [binding EXCEPT !.status = "deleted"]
    /\ UNCHANGED <<dictionaries, entries, blocks, binder>>

-----------------------------------------------------------------------------
(* A session.                                                              *)

NoTexts == [heard |-> <<>>, source |-> <<>>, shown |-> <<>>, spoken |-> <<>>]

StartSession ==
    /\ room.at = "none"
    /\ room' = [room EXCEPT !.at = "binding"]
    /\ during' = [sometime |-> InForce, always |-> InForce]
    /\ UNCHANGED <<tableVars, texts>>

Loading == room.at \in {"binding", "entries", "blocks"}

LoadBinding ==
    /\ room.at = "binding"
    /\ room' = [room EXCEPT !.at = "entries",
          !.dictionary = IF \E d \in Dictionaries : Bound(d)
                         THEN CHOOSE d \in Dictionaries : Bound(d) ELSE NoDictionary]
    /\ UNCHANGED <<tableVars, texts, during>>

LoadEntries ==
    /\ room.at = "entries"
    /\ \E terms \in TermOrders(ActiveEntries(room.dictionary)) :
          room' = [room EXCEPT !.at = "blocks", !.terms = terms]
    /\ UNCHANGED <<tableVars, texts, during>>

LoadBlocks ==
    /\ room.at = "blocks"
    /\ \E words \in BlockOrders(ActiveBlocks) :
          room' = [room EXCEPT !.at = "ready", !.blocked = words]
    /\ UNCHANGED <<tableVars, texts, during>>

\* The transcript is published and stored as it is; its blocked words stop here.
Transcribe(heard) ==
    /\ room.at = "ready"
    /\ LET text == NormalizeTranscript(room, heard)
       IN  texts' = [NoTexts EXCEPT !.heard = text, !.source = Sanitize(room, text)]
    /\ room' = [room EXCEPT !.at = "translating"]
    /\ UNCHANGED <<tableVars, during>>

\* Deltas and the final text alike.
Translate(answer) ==
    /\ room.at = "translating"
    /\ texts' = [texts EXCEPT !.shown = NormalizeTranslation(room, answer)]
    /\ room' = [room EXCEPT !.at = "speaking"]
    /\ UNCHANGED <<tableVars, during>>

Speak ==
    /\ room.at = "speaking"
    /\ texts' = [texts EXCEPT !.spoken = Sanitize(room, texts.shown)]
    /\ room' = [room EXCEPT !.at = "ready"]
    /\ UNCHANGED <<tableVars, during>>

NoSession == [at |-> "none", dictionary |-> NoDictionary, terms |-> <<>>, blocked |-> <<>>]

EndSession ==                                     \* a reconnection loads anew
    /\ room.at = "ready"
    /\ room' = NoSession /\ texts' = NoTexts
    /\ UNCHANGED <<tableVars, during>>

-----------------------------------------------------------------------------
LexiconInit ==
    /\ dictionaries = [d \in Dictionaries |-> "none"]
    /\ entries = [e \in EntryIds |-> [status |-> "none", dictionary |-> NoDictionary,
                                      term |-> CHOOSE t \in Terms : TRUE]]
    /\ blocks = [b \in BlockIds |-> [status |-> "none", block |-> CHOOSE x \in Blocks : TRUE]]
    /\ binding = [status |-> "none", dictionary |-> NoDictionary]
    /\ binder = NoDictionary /\ changes = 0
    /\ room = NoSession /\ texts = NoTexts
    /\ during = [sometime |-> {}, always |-> {}]

EditTables ==
    \/ \E d \in Dictionaries, status \in {"active", "disabled"} : SaveDictionary(d, status)
    \/ \E d \in Dictionaries : DeleteDictionary(d) \/ ChooseDictionary(d)
    \/ \E e \in EntryIds, d \in Dictionaries, t \in Terms :
          ImportEntry(e, d, t) \/ \E s \in {"active", "disabled"} : CreateEntry(e, d, t, s)
    \/ \E e \in EntryIds, t \in Terms, s \in {"active", "disabled"} : UpdateEntry(e, t, s)
    \/ \E e \in EntryIds : DeleteEntry(e)
    \/ \E b \in BlockIds, x \in Blocks :
          ImportBlock(b, x) \/ \E s \in {"active", "disabled"} : CreateBlock(b, x, s) \/ UpdateBlock(b, x, s)
    \/ \E b \in BlockIds : DeleteBlock(b)
    \/ StoreBinding \/ ClearBinding

Observe ==
    during' = IF ~Loading THEN during
              ELSE [sometime |-> during.sometime \cup InForce', always |-> during.always \cap InForce']

LexiconNext ==
    \/ EditTables /\ Observe /\ UNCHANGED <<room, texts>>
    \/ StartSession \/ LoadBinding \/ LoadEntries \/ LoadBlocks
    \/ \E heard \in Heard : Transcribe(heard)
    \/ \E answer \in Answers : Translate(answer)
    \/ Speak \/ EndSession

LexiconSpec == LexiconInit /\ [][LexiconNext]_lexiconVars

-----------------------------------------------------------------------------
\* Types of the tables and of the session.
LexiconTypeOK ==
    /\ dictionaries \in [Dictionaries -> Statuses]
    /\ \A e \in EntryIds : entries[e].status \in Statuses /\ entries[e].term \in Terms
    /\ \A b \in BlockIds : blocks[b].status \in Statuses /\ blocks[b].block \in Blocks
    /\ binding.dictionary \in Dictionaries \cup {NoDictionary}
    /\ binder \in Dictionaries \cup {NoDictionary}
    /\ room.dictionary \in Dictionaries \cup {NoDictionary}
    /\ Range(room.terms) \subseteq Terms /\ Range(room.blocked) \subseteq Blocks

\* A session that starts follows the lexicon as it is: what its policy holds
\* was in force at some moment of the load, and what was in force during the
\* whole load is in its policy, though the three statements read at different
\* moments and a choice may be stored after its dictionary was switched off
\* (LanguagePolicy::load, update_room_binding; the guide's "newly opened
\* sessions use the latest rules").
NewSessionsFollowTheLexicon ==
    room.at \in {"ready", "translating", "speaking"} =>
        LET d == room.dictionary
        IN  /\ d # NoDictionary => <<"bound", d>> \in during.sometime
            /\ \A t \in Range(room.terms) : <<"entry", d, t>> \in during.sometime
            /\ \A x \in Range(room.blocked) : <<"block", x>> \in during.sometime
            /\ \A f \in during.always :
                  CASE f[1] = "bound" -> f[2] = d
                    [] f[1] = "entry" -> f[2] = d => f[3] \in Range(room.terms)
                    [] f[1] = "block" -> f[2] \in Range(room.blocked)

InEitherCase(text) == Range(text) \cup Range(Fold(text))
Occurs(text, block) ==
    LET same == IF block.exact THEN text ELSE Fold(text)
        word == IF block.exact THEN block.word ELSE Fold(block.word)
    IN  \E i \in 1 .. Len(text) - Len(word) + 1 : SubSeq(same, i, i + Len(word) - 1) = word
Masked(blocked) ==
    \A x \in Range(blocked) :
        /\ x.replacement # <<>>
        /\ \A y \in Range(blocked) : InEitherCase(x.replacement) \cap InEitherCase(y.word) = {}

\* If each blocked word is replaced by something, and by characters that no
\* blocked word has in either case, then a word that is blocked wherever it
\* occurs is in nothing the translator is given, nothing that is shown or
\* stored as translation and nothing that is spoken, though terms are written
\* into the text after the translator answered.
BlockedWordsStop ==
    Masked(room.blocked) =>
        \A x \in {y \in Range(room.blocked) : ~y.whole} :
            \A text \in {texts.source, texts.shown, texts.spoken} : ~Occurs(text, x)

\* What the guide says of longer terms: a transcript that is a term already
\* stays that term.
CorrectTermsStay ==
    room.at # "none" =>
        \A t \in Range(room.terms) :
            Len(room.terms) = 1 => NormalizeTranscript(room, t.source) = t.source
=============================================================================
