SPECIFICATION Spec
CONSTANTS
    Names = {a, b}
    Handles = {f, g}
    Far = 9
    RomImage <- MCRomImage
    Kinds = {"SDMC", "SaveData", "ExtData", "SharedExtData", "SysData", "SaveDatacheck", "RomFS"}
    Earlier <- MCEarlier
    Payloads <- MCPayloads
    Offsets = {0, 9}
    Counts = {0, 1, 2}
    Sizes = {0, 1}
    MaxThings <- MCMaxThings
    Flags <- MCFlags
    Stock <- MCStock
INVARIANT AcknowledgedIsStored
INVARIANT ReadsWhatItWrote
INVARIANT SizeIsKnown
INVARIANT ListsEveryEntryOnce
CHECK_DEADLOCK FALSE
SYMMETRY MCSymmetry
VIEW MCView
