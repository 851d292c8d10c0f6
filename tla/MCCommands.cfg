\* Two versions and two days; everything may fail.
CONSTANTS
    t1 = t1
    t2 = t2
    c1 = c1
    c2 = c2
    c3 = c3
    f1 = f1
    f2 = f2
    Findings = {f1, f2}
    Targets = {t1, t2}
    Checks = {c1, c2, c3}
    ActiveChecks = {c2}
    CheckOf <- MCCheckOf
    TargetOf <- MCTargetOf
    SubjectOf <- MCSubjectOf
    SeverityOf <- MCSeverityOf
    Letters <- MCLetters
    Names <- MCNames
    Configs <- MCConfigs
    Flags <- MCFlags
    Extras = {"sarif"}
    MaxDay = 2
    Faults = {"create", "write", "close", "resolver", "save"}
SPECIFICATION Spec
INVARIANTS
    SelectedAsWritten
    PassIsEarned
    FailureIsDeserved
    ReportsAreWhole
