SPECIFICATION Spec
CONSTANTS
  Sectors <- Four
  Zero = "0"
  Boot = "boot"
  Mirror <- FatCopies
  Readings <- Reads
  GwReadings <- GwReads
  MaxSlot = 5
  MaxReads = 2
  MaxFaults = 1
  MaxEdits = 1
CHECK_DEADLOCK FALSE
INVARIANT GwResumable
