\* Volumes of three measurements, sent in chunks of one to four.
SPECIFICATION Spec
CONSTANTS
  Volume = 3
  Reads <- ReadyOrder
  MaxChunk = 4
  MaxSent = 9
INVARIANTS TypeOK CountsAgree DecodesOwnVolume
PROPERTY ReadIsWhole
