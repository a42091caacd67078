\* a recipe made for a block that has been mined since joins a mega sandwich
CONSTANTS
  s1 = s1  p1 = p1
  Sims = {s1}
  Pools = {p1}
  MaxHead = 3
SPECIFICATION Spec
INVARIANT MegaUsesItsOwnRecipes
