SPECIFICATION FairSpec
CONSTANTS
  None = None
  intro = intro
  calm = calm
  a = a
  b = b
  short = short
  long = long
  clash = clash
  metadata = metadata
  other = other
  Packages = {short, long, clash, other}
  IdOf <- MCIdOf
  FilesOf <- MCFilesOf
  Shipped = {other}
  Uploads = {r1, r2}
  MaxCrashes = 1
  Metadata = metadata
INVARIANTS
  DiskMatchesCatalogue
  PromiseKept
PROPERTIES
  
  UploadsEnd
