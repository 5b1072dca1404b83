SPECIFICATION FormsSpec
CONSTANTS
  None = None
  Accounts = {"a1", "a2"}
  CachedBalance <- MCCachedBalance
  Recipients = {"p1", "p2"}
  WithIban = {"p1"}
  Amounts = {2}
  Prefills = {None, "p1"}
  MaxCalls = 2
  Parts = {"send"}
  MaxDialogs = 1
  DepositAccounts = {"a1"} Names = {"chase", "visa"} Lengths = {14, 22}
  DepositAmounts = {1} MaxPosts = 2
  StatementForms = {"page", "modal"} Today = 1 MaxAsked = 2
  Details = {blank, d1, d2} Blank = blank InitialDetails = d1 Pictures = {pic}
  MaxPuts = 2 MaxFocus = 1
  Digits = {0, 1, 9} MaxDigits = 6 ChunkLength = 4 Modulus = 97 MaxPages = 12
  Months = {1, 2} Sums = {1, 2} MaxRows = 3 Currencies = {"USD", "EUR"}
  MaxAccounts = 3 Worth <- MCWorth
CHECK_DEADLOCK FALSE
INVARIANTS LabelNamesPayee
