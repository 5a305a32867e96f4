SPECIFICATION FairSpec
CONSTANTS
  Ids = {i1, i2}
  Names = {ann, bob}
  Jtis = {t1}
  Requests = {r1, r2}
  None = None
INVARIANTS
  AccountsUnique
PROPERTIES
  LoggedOutStaysOut
  LastAdminStays
  BlocklistDrains
  DeletedAccountsFade
