\* Two reads of a response of each kind, two requests that write one of them twice.
SPECIFICATION FairSpec
CONSTANTS
  Readers = {r1, r2}
  Writers = {w1, w2}
  PrivateKeys = {private}
  SharedKeys = {shared}
  LiveKeys = {live}
  None = None
  MaxWrites = 2
CONSTRAINT OneKeyWritten
INVARIANTS StoredIsCurrent ReadYourWrites
PROPERTIES StaleEntriesExpire
