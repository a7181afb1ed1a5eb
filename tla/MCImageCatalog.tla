--------------------------- MODULE MCImageCatalog ---------------------------
(* A boot sector, the two copies of a FAT sector, and a data sector.  Two   *)
(* reads that complement each other but for one copy of the FAT, and one of *)
(* another floppy, which differs from the first alone.                      *)
EXTENDS ImageCatalog

Four == {"boot", "fat1", "fat2", "file"}
FatCopies == [s \in {"fat1", "fat2"} |-> IF s = "fat1" THEN "fat2" ELSE "fat1"]
Read(boot, fat1, fat2, file) ==
  [s \in Four |-> CASE s = "boot" -> boot [] s = "fat1" -> fat1 [] s = "fat2" -> fat2 [] OTHER -> file]
Reads == {Read("a", "a", "0", "0"), Read("0", "0", "0", "a"), Read("b", "b", "b", "0")}
GwReads == {Read("0", "0", "0", "a")}
=============================================================================
