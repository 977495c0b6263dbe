SPECIFICATION Spec
CONSTANTS
  Rule = {"sql", "items", "off_by_one"}
  CategoryOf <- MCCategoryOf
  Guard <- MCGuard
  HitSets <- MCHitSets
  MaxEntries = 2
  MaxLines = 5
  MaxIssues = 3
CHECK_DEADLOCK FALSE
INVARIANTS
  MatchingIsMaximal
  PlantedIssueIsFound
  CategoriesAddUp
