CONSTANTS
    local = local
    index = index
    demo = demo
    funasr = funasr
    None = None
    Kinds <- BothKinds
    BackendsOf <- Registry
    DefaultOf <- FirstChoice
    PublicHas = {funasr, local, index}
    AdminHas = {demo, local, index}
    OnBus = {funasr, local, index}
    Sidecars = {index}
    VoicesOf <- Catalogue
    Clients = {c1, c2}
    Editors = {a1}
    MaxEdits = 1
    Voices = {v1, v2, v3}
    Recordings = {rec}
    Owners = {o}
    Names = {n1, n2}
    VoiceLimit = 1
    Readers = {e}
    NoFile = NoFile
    NoDictionary = NoDictionary
    Dictionaries = {d1, d2}
    EntryIds = {1}
    BlockIds = {1}
    Characters <- AllCharacters
    AsciiCharacters <- Letters
    WordCharacters <- InWords
    Lowercase <- Lower
    Terms <- TwoTerms
    Blocks <- TwoBlocks
    Heard <- Said
    Answers <- Answered
    MaxChanges = 4
    Speakers = {s1, s2}
    Configs = {good, bad}
    ValidConfigs = {good}
    QueueLimit = 1
    CloseTicks = 1
    MaxTicks = 2
    SilentFrames = 2
    MinFrames = 1
    PreRoll = 1
    PipeSize = 2
    MaxSegments = 2
    BlockFrames = 2
    EndSilence = 3
    MaxActive = 7
    Continuation = 2
    Hangover = 1
    PreRollDefault = 1
    PreRollEnhanced = 2
    HumLock = 2
    HumClear = 2
    Confirmed = 2
    Numbers = 4
    MaxTransports = 2
    MaxSaid = 2
    Callers = {h1}
    MaxCaptures = 2
    MaxStops = 1
    Handlers = {h1, h2}
    Addresses = {x1, x2}
    Fallback = x1
    MaxSaves = 2
    MaxReloads = 2
SPECIFICATION Spec
INVARIANT EnginesAgree
INVARIANT FilesAndRowsAgree
INVARIANT NewSessionsFollowTheLexicon
INVARIANT BlockedWordsStop
INVARIANT MixerAgreesWithSession
INVARIANT SegmentsAreSound
INVARIANT UplinkIsOrdered
INVARIANT LeftPagesStayOut
INVARIANT CaptureIsReported
INVARIANT ShellAgrees
CHECK_DEADLOCK FALSE
