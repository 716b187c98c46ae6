CONSTANTS
    nullStr = nullStr
    NullStr <- nullStr
    HeaderAddr = 8192
    MaxLen <- MCMaxLen
    Headers <- MCHeaders
    Sections <- MCSections
    Strings <- MCStrings
SPECIFICATION Spec
INVARIANT CrashMessageWithinMaxBytes
