\* Two handlers on every way through the routes, while the process is told
\* to stop, cannot listen, or is killed.
CONSTANTS
  gbp = gbp
  usd = usd
  Code <- MCCode
  Blank = Blank
  NoBody = NoBody
  NoInput = NoInput
  Malformed = Malformed
  Defaults <- MCDefaults
  Request = {r1, r2}
  Inputs <- MCInputs
  Settings <- MCSettings

SPECIFICATION LifeSpec

INVARIANTS
  LifeTypeOK
  RejectedDoesNoWork
  FetchesWhatWasNamed
  NothingUsedAfterClose
  ExitCodeIsTrue

PROPERTY StopsUnlessAHandlerHangs
