SPECIFICATION FairSpec
CONSTANTS
  u = u
  bot = bot
  shop = shop
  Accounts = {u, bot, shop}
  Users = {u}
  Kinds <- AllKinds
  Builtin = {shop}
  Tasks = {t1, t2}
  NoAccount = NoAccount
  NoKind = NoKind
  NoTask = NoTask
  Amounts = {4}
  MaxForms = 2
  MaxGrants = 1
INVARIANTS LedgerBalanced PaymentsAreRight
PROPERTY SubmitsEnd
