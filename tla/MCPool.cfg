CONSTANTS
  m1 = m1
  m2 = m2
  m3 = m3
  Message = {m1, m2, m3}
  root_slice = root_slice
  NULL = NULL
  SLICE_SIZE_MAX = 31
  Length <- MCLength
SPECIFICATION Spec
INVARIANTS SlicesTile OwnersPinSlices FlushUnpublishesAll IInv
PROPERTIES PublishedStaysPut
CHECK_DEADLOCK FALSE
