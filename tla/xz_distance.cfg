\* xz: bytes that were seen 97 to 128 bytes before do not come back.
SPECIFICATION ToolsSpec
CONSTANTS
    Beyond = {"lzma"}
    Lengths = {1}
    Transfers = {1}
    Width = 4
    Lifetime = 2
    MaxFaults = 0
CHECK_DEADLOCK FALSE
INVARIANT LzmaRestores
