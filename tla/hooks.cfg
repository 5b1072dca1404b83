SPECIFICATION FairSpec
CONSTANTS
  None = None
  Keys = {"accounts", "invoices"}
  Mutations = {"pay", "status"}
  MaxVersion = 2
  MaxFocus = 1
INVARIANTS TypeOK FreshIncludesAcknowledged
PROPERTIES AcknowledgedIsShown
