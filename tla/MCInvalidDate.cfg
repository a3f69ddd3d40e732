\* What a history request with a date that is none is answered.
CONSTANTS
  gbp = gbp
  usd = usd
  Code <- MCCode
  Blank = Blank
  NoBody = NoBody
  NoInput = NoInput
  Malformed = Malformed
  Defaults <- MCDefaults
  Request = {r1, r2}
  Inputs <- MCInputs
  Settings <- MCSettings

SPECIFICATION LifeSpec

INVARIANT InvalidDateIs422
