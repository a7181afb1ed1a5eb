SPECIFICATION Spec
CONSTANTS
  First = 1
  Last = 2
  fA = fA
  fB = fB
  Floppies = {fA, fB}
  MaxGeneration = 6
  MaxCaptures = 2
  MaxTogether = 3
SYMMETRY FloppySymmetry
CONSTRAINT TicketBound
INVARIANTS JournalValid ReaderServesTicket OneImagePerStation RejectedNeverPublished MixedIdentityFlagged
PROPERTIES ReceiptsPermanent ImplementsCustody
