CONSTANTS
    Speakers = {s1}
    Configs = {good, bad}
    ValidConfigs = {good}
    QueueLimit = 1
    CloseTicks = 1
    MaxTicks = 2
    SilentFrames = 2
    MinFrames = 1
    PreRoll = 1
    PipeSize = 2
    MaxSegments = 2
    MaxFrames = 2
    MaxTexts = 1
    moss = moss
    kokoro = kokoro
    NoEngine = NoEngine
    Utterances = {u1, u2}
    Local <- Chain
    Alone = {moss}
    Http = {moss}
    Cloning = {moss}
    ChunkLimit = 2
    QueueSize = 1
    Processes = {public}
    MaxActions = 4
SPECIFICATION Spec
INVARIANT SpeechIsWhole
INVARIANT NothingIsMissed
PROPERTY PreviewsEndBeforeResults
PROPERTY SegmentsEnd
PROPERTY TranscriptsArrive
PROPERTY EngineTasksEnd
PROPERTY ScriptsTakeTurns
CHECK_DEADLOCK FALSE
