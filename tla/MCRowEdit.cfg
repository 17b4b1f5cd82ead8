SPECIFICATION Spec
CONSTANTS
  Rows = {r1, r2}
  Key = "k"
  Columns = {"a"}
  Cells <- MCCells
  Text <- MCText
  GoType <- MCGoType
  Printed <- MCPrinted
  Plain <- MCPlain
  Stored <- MCStored
  LinkText <- MCLinkText
  NilText = "<nil>"
  Unquotable <- MCUnquotable
  SampleSize = 1
  Typed <- MCTyped
  Theirs <- MCTheirs
  MaxWrites = 2
  Null = Null
  Absent = Absent
PROPERTIES OneRowAtMost EditsRowClicked  SavedMeansWritten
SYMMETRY Symmetry
