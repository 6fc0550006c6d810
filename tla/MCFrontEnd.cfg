CONSTANTS
  Macros = {1, 2, 3}
  MaxUse = 2
  MaxWalk = 2
  MaxExpansion = 2
  MaxPasses = 4
  MaxRetry = 3
  Menus <- MCMenus
SPECIFICATION Spec
INVARIANTS FilesOnce UsesSafe StepsKept IdentitiesKept SelectionAgrees
