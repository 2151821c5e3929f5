SPECIFICATION FairSpec
CONSTANTS
    NULL = NULL
    NUL = NUL
    Space = Space
    Dash = Dash
    Colon = Colon
    Eq = Eq
    Plus = Plus
    Char <- MCChar
    Junk = Junk
    NaN = NaN
    Vowel <- MCVowel
    Consonant <- MCConsonant
    Texts <- MCTexts
    Delimiters <- MCDelimiters
    Lengths <- MCLengths
    SUB = 3
    Envs <- MCEnvs
    Keys <- MCKeys
    PATH <- A
    MYPATH <- B
    Names <- MCNames
    Executable <- MCExecutable
    Buffers <- MCBuffers
    Sentences <- MCSentences
    LONG = 12
    INT = 6
    CHAR_BIT = 3
    BYTES = 3
    MinWidth = 2
    Widths <- MCWidths
    Sums <- MCSums
    CodePoints <- MCCodePoints
    CELLS = 5
    N_GENERATIONS = 4
    DEFAULT_GEN_0 <- MCGen0
    Rules <- MCRules
    Generation0 <- MCGeneration0
    Levels = {0, 1, 2, 3, 9}
    Numerals <- MCNumerals
    Bytes = 6
    Elems = {0, 1, 2, 3, 4, 5}
    Trials = 3
    Tree <- MCTree
    Hidden <- MCHidden
    Options <- MCOptions
    Dirs <- MCDirs
    Cwd = "."
INVARIANTS PieceStored
