SPECIFICATION Spec
CONSTANTS
  Icq = {i1} Gadu = {g1} Named = {n1} Nicks = {pal}
  Statuses = {ignore, visible} Ignore = ignore
  None = None
INVARIANTS ListsExact
