SPECIFICATION FairSpec
CONSTANTS
  r = r  a = a  b = b  c = c  d = d  e = e  h1 = h1  h2 = h2
  Pages <- Six
  Root = r
  Hosts <- TwoHosts
  Crawls <- AllCrawls
INVARIANTS BudgetHeld RequestedOnce NoEscape RobotsHonoured Accounting WithinReach SameSetWhenShallow
PROPERTIES WorkShrinks Terminates
CHECK_DEADLOCK FALSE
