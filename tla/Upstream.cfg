\* Five calls through two slots, so that three can queue and a call can come
\* back while its former slot is being handed over.  Two readers and a
\* background refresh share one slot, with an attempt and a retry each and
\* three token requests.
SPECIFICATION AllSpec
CONSTANTS
  Calls = {c1, c2, c3, c4, c5}
  Limit = 2
  Readers = {r1, r2}
  Refreshes = {r3}
  Slots = 1
  Retries = 1
  MaxFetches = 3
INVARIANTS
  NeverOverLimit
  NoIdleSlotWhileWaiting
  NeverTheRefusedToken
PROPERTIES
  ReaderFirst
  PassesTheGate
  RequestEnds
CHECK_DEADLOCK FALSE
