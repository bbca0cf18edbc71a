CONSTANTS
  MaxUsers = 2
  Modulus = 4
  ErasedHalfword = 2
  Erased = Erased
  NoCard = NoCard
  c1 = c1
  p0 = p0
  p1 = p1
  Cards <- MCCards
  Passwords <- MCPasswords
  DefaultPassword = p0
  Faults = {"power", "flash"}
  Updates = {"DISABLED"}
SPECIFICATION Spec
INVARIANT TypeOK
INVARIANT NoTornUser
PROPERTY StoreSpec
INVARIANT HeaderCorrect
INVARIANT CardHasOneHolder
