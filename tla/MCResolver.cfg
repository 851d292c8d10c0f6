\* A system resolver of two servers, either of which may withhold records.
SPECIFICATION ResolverSpec
CONSTANTS
    s1 = s1
    s2 = s2
    e1 = e1
    e2 = e2
    A = A
    TXT = TXT
    Own = Own
    None = None
    Servers = {s1, s2, e1, e2}
    Types = {A, TXT}
    Domains = {d1, d2}
    Asked <- MCAsked
    EncryptedChoices <- MCChoices
    Encrypted = {e1, e2}
    Worlds <- MCWorlds
INVARIANT FailureIsNotAbsence
INVARIANT WithholdingIsNoticed
INVARIANT VerdictIsFair
