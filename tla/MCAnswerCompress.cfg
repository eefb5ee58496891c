SPECIFICATION FairSpec
CONSTANTS
    BENGALI_DIGITS <- SampleDigits
    BENGALI_INTENT_MAP <- SampleBengaliIntents
    BENGALI_PRODUCT_MAP <- SampleBengaliProducts
    BENGALI_LOANWORD_MAP <- SampleLoanwords
    PHONETIC_CORRECTION_MAP <- SamplePhoneticCorrections
    BANGLISH_INTENT_MAP <- SampleBanglishIntents
    PHONETIC <- SamplePhonetic
    TYPO_MAP <- SampleTypos
    PHRASE_REWRITES <- SamplePhraseRewrites
    ABBREVIATION_MAP <- SampleAbbreviations
    LOWER <- SampleLower
    BARE <- SampleBare
    LETTERS <- SampleLetters
    Chunks <- MCChunks
    Views <- MCViews
    Queries <- MCQueries
    Subjects <- MCSubjects
    Histories <- MCHistories
    Prompts = {0, 7950}
    MemoryFacts = {0, 100}
    Requests = {1, 21}
    MaxLoops = 3
    MaxFaults = 1
    MAX_CONTEXT_TOKENS = 8000

PROPERTY CompressionEnds
CHECK_DEADLOCK FALSE
