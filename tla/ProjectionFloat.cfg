SPECIFICATION Spec
CONSTANTS
  Columns <- MCColumns
  PgType <- MCPgType
  RawRows <- MCRawRows
  Projections <- MCProjections
  Printed <- MCPrinted
  Reread <- MCReread
INVARIANT
  SumIsReadersSum
