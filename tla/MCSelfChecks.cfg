CONSTANTS
  Runs = {r1, r2}
  core1 = core1
  core2 = core2
  wallet = wallet
  hashes = hashes
  argon2 = argon2
  words = words
  script1 = script1
  script2 = script2
  Clients <- MCClients
  SetOf <- MCSetOf
  SourceOf <- MCSourceOf
  Argon2 = argon2
  Shared = shared
SPECIFICATION Spec
INVARIANTS
  AnswersAreEarned
  WrongIsTold
CHECK_DEADLOCK FALSE
