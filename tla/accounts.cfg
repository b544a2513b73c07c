SPECIFICATION FairSpec
CONSTANTS
    Requests = {r1, r2, r3}
    Names = {"bob", "bob "}
    Stripped <- Strip
    Passwords = {"p1", "p2"}
    Calls <- Clients
    Tenants = {t1, t2, t3}
    TokenLife = 1
    MaxTime = 2
    AnswerFirst = FALSE
    Faults = {"db"}
    Nil = Nil
INVARIANT TypeOK
INVARIANT OneAccountPerName
INVARIANT RegistrationIsTrue
INVARIANT TokensAreHonoured
INVARIANT OnlyTheOwnerLogsIn
PROPERTY EveryRequestAnswered
