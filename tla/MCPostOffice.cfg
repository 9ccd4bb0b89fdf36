\* NetworkTest and one more client on two hosts, three boxes each; packets
\* may be lost.
CONSTANTS
    Host = {0, 1}
    Box = {0, 1, 2}
    Client <- Clients
    Home <- HomeOf
    Program <- Programs
    Reliability = 90
    NULL = NULL
SPECIFICATION FairSpec
CHECK_DEADLOCK FALSE
INVARIANT MailExact
PROPERTY ProgramsFinish
