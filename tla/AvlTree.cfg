\* Eleven elements with eight keys: trees of four levels, in which removals in a
\* series, of a leaf, of a node with one and of one with two children rebalance.
SPECIFICATION Spec
CONSTANTS
  Size = 11
  Nodes <- MCNodes
  Key <- MCKey
  Probes <- MCProbes
  NULL = NULL
  ListHead = ListHead
INVARIANTS
  TypeOK
  BalancedSearchTree
  FindsExact
PROPERTIES
  ImplementsSortedList
