\* Jobs saved within the same second, a limit of two rows.
SPECIFICATION Spec
CONSTANTS
  j1 = j1  j2 = j2  j3 = j3  b1 = b1
  RowIds <- ThreeRows
  Limits = {2}
  Blobs <- OneBlob
  NoBlob = NoBlob
  Times <- AroundASecond
  Base = 2
  Width = 2
PROPERTY CollectsOldest
