CONSTANTS
    NoDictionary = NoDictionary
    Dictionaries = {d1}
    EntryIds = {1}
    BlockIds = {1}
    Characters <- AllCharacters
    AsciiCharacters <- Letters
    WordCharacters <- InWords
    Lowercase <- Lower
    Terms <- TwoTerms
    Blocks <- TwoBlocks
    Heard <- Said
    Answers <- Answered
    MaxChanges = 3
SPECIFICATION LexiconSpec
INVARIANT CorrectTermsStay
CHECK_DEADLOCK FALSE
