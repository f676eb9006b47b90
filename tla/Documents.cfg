SPECIFICATION Spec
CONSTANTS
    HEADER_ROWS = 3
    MIN_TEXT = 3
    HeaderCat <- MCHeaderCat
    Files <- MCFiles
    Answers <- MCAnswers
    Letters <- MCLetters
    Digits = {"7"}
    WordChars <- MCWordChars
    Hyphens = {"-"}
    LegalForms = {"L"}
    TraderMarks = {"F"}
    NonAscii <- MCNonAscii
    CharsOf <- MCCharsOf
    AsCp1251 <- MCAsCp1251
    Delimiters = {",", ";"}
    Labels <- MCLabels
    LabelOf <- MCLabelOf
    Categories <- MCCategories
    TaxCode <- MCTaxCode
    NeedsDigits <- MCNeedsDigits
    Excluded = {"R"}
    ValueOf <- MCValueOf
    Deletable = {"P"}
INVARIANTS WrittenAsAsked NothingDetectedLeft  RoundTrip RunsKeepTheirText
CHECK_DEADLOCK FALSE
