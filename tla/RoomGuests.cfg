CONSTANTS
  host = host
  guest = guest
  other = other
  NoUser = NoUser
  Host = host
  Day = 2
  MaxJoins = 3
  Users <- AllUsers
  Answering <- Senders
SPECIFICATION Spec
CHECK_DEADLOCK FALSE
INVARIANT TypeOK
INVARIANT MisroutedIsOvertaken
PROPERTY AnsweredIsRouted
