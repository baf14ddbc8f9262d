SPECIFICATION FairSpec
CONSTANTS
  Form = {f1}
  Local = Local
  MaxRows = 2
  MaxOp = 4
INVARIANTS RowsShowOwnOp 
PROPERTIES RowsComplete
