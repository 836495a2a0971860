SPECIFICATION FairSpec
CONSTANTS
    Name <- MCName
    Key <- MCKey
    Value <- MCValue
    Default <- MCDefault
    Autosave = TRUE
    WritesFail = TRUE
    Crashes = TRUE
    Windows = FALSE
PROPERTIES ChangeIsExact SettingsSurvive ChangesAreSaved
