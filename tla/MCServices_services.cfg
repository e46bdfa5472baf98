CONSTANTS
    a1 = a1
    a2 = a2
    Agents = {a1, a2}
    Legacy = {a1}
    None = None
    MaxHires = 2
    Values = {"one"}
    Profiles = {"three"}
    Begins <- MCBegins
    MaxOps = 2
    MaxFaults = 1
    Messages = {1, 2}
    Clients = {"c1", "c2"}
    SourceOf <- MCSource
    DestOf <- MCDest
    MaxAnswers = 2
SPECIFICATION SpecServices
INVARIANTS AllTypesOK RepliesTrue WindowsTrue   MailKept CoopHeld   RelayTrue DaemonsTrue
  
CHECK_DEADLOCK FALSE
