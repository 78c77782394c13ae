\* Transfers over up to four blocks, and all names of up to five characters.
SPECIFICATION Spec
CONSTANTS
    BLOCK = 4
    MaxBytes = 13
    MAX_FILE_NAME = 5
    MAX_EXTENSION_NAME = 1
    Char = {c}
INVARIANTS PrefixTransferred BlocksTouched NamesAreJudged
CHECK_DEADLOCK FALSE
