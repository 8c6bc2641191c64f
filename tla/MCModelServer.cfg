CONSTANTS
    None = None
    Request = {r1, r2}
    Context = 5
    Window = 5
    MaxOutput = 4
    Asked = {None, 0, 2}
    Prompt = {1, 3, 5}
    MaxDrafts = 1
    Guards = {"qwen", "ornith"}
    Faults = {"overrun", "depth", "untrimmed", "copy", "dispatch"}
SPECIFICATION ServerSpec
SYMMETRY Symmetry
INVARIANTS DecodeTypeOK OutputFits PositionsFit AbortIsJustified StandardIsExact LimitIsOwn
PROPERTIES DecodeSpec
