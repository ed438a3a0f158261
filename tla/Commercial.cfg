SPECIFICATION Spec
CONSTANTS
  Leads = {"k"}
  Versions = {v1, v2}
  Contacts <- MCContacts
  Weights = {w1, w2, w3}
  Workloads <- MCWorkloads
  MaxLog = 3
  None = None
  Bids = {b1, b2}
  Starters = {"cctv", "access"}
  Scopes = {"cctv", "access", "s1"}
  Names = {"cctv", "access", "n1"}
  Prices = {"p1"}
  Amounts = {1, 2}
  MaxSaves = 3
  MaxVersion = 2
  MaxEntries = 3
SYMMETRY Symmetry
INVARIANTS FeedbackMatchesLog ReviewsDecide RecordsAgree
PROPERTY AlertsEndByReview
CHECK_DEADLOCK FALSE
