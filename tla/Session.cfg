\* Two accounts, two chats, two questions; one request fails, or one act is begun beside
\* others.
SPECIFICATION FairSpec
CONSTANTS
  ann = ann  ben = ben
  Users = {ann, ben}
  None = None
  MaxChats = 2
  MaxAsks = 2
  MaxInFlight = 2
  MaxMishaps = 1
INVARIANTS
  TypeOK
  SpinnerHonest
  SidebarCurrent
  SelectionListed
  AnswersInPlace
  OneAccount
PROPERTY
  ComesToRest
