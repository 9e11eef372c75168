CONSTANTS
  Greetings <- MCGreetings
  Names <- MCNames
  Passwords <- MCPasswords
  MaxLines = 4
  MaxToggles = 2
SPECIFICATION Spec
CHECK_DEADLOCK FALSE
INVARIANTS
  LoggedWereAccepted
  AcceptedAreLogged
