SPECIFICATION Spec
CONSTANTS
  Openers = {p1}
  Boxes = {b1}
  JailIndexes = {j1}
  TemplateNames = {t1}
  Infos <- OldInfos
  MaxWrites = 0
  MaxCommands = 0
INVARIANT LegacyFileImports
\* the process may stay open
CHECK_DEADLOCK FALSE
