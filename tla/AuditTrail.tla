------------------------------ MODULE AuditTrail ------------------------------
(* The audit log of a tenant, the credit ledger beside it, and the commands  *)
(* that write to the same log while the server runs.                         *)
(* (src/src/audit-log.js, credits.js, scripts/reset-admin.mjs, https.mjs)    *)
(*                                                                           *)
(* A month file is a sequence of lines, and whether it ends in the half of   *)
(* one that a write left behind.  A line is an entry or unreadable.  The mac *)
(* of an entry covers the entry before it and everything in it, its own      *)
(* random id included, so the id stands for the mac.  record() is            *)
(* synchronous: one step, with the writes it does.  What the two processes   *)
(* do between two calls of the file system is left out, and the clock is not *)
(* set back.                                                                 *)
EXTENDS Naturals, Sequences, FiniteSetsExt

CONSTANTS
  Months,       \* how many months the log covers
  MaxEntries,   \* bound: entries made, by anybody
  MaxFaults     \* bound: failed writes and crashes

VARIABLES
  disk,         \* the month files
  month,        \* the month it is
  server,       \* "up", "stopping" once shutdown() wrote everything, or "down"
  seq, mac,     \* #seq and #lastMac of the server
  held,         \* #unwritten
  seen,         \* #lastFile and #lastSize
  ledger,       \* the entries of the ledger, by the audit entry they refer to
  saved,        \* those in its file
  timer,        \* #writeTimer is set
  made,         \* entries made so far
  faults,
  \* What was lost, for the properties:
  forked,       \* entries held while a command wrote, and what it wrote; and the
                \* server's last entry, when what a command wrote after it went unnoticed
  cut,          \* entries written onto the half of a line that went unnoticed
  blind,        \* half a line of a command went unnoticed
  unlogged,     \* entries still held when their server ended
  forgotten,    \* charges of a crash, or of a stop, that were not yet saved
  atStop        \* the ledger when shutdown() wrote it

log == <<disk, month, seq, mac, held, seen, made>>
book == <<ledger, saved, timer>>
vars == <<log, book, server, faults, forked, cut, blind, unlogged, forgotten, atStop>>

Genesis == 0
Empty == [lines |-> <<>>, torn |-> FALSE]
Unreadable == [id |-> 0]
IsEntry(line) == line.id # 0

Elems(es) == {es[i] : i \in DOMAIN es}
Ids(es) == {e.id : e \in es}

-----------------------------------------------------------------------------
(* The log as it is read, oldest month first, without what is unreadable:    *)
(* the places of its entries, after the one where the chain begins.          *)
Entries(d) ==
  UNION {{m} \X {i \in DOMAIN d[m].lines : IsEntry(d[m].lines[i])} : m \in 1..Months}

Origin == <<0, 0>>
Places(d) == {Origin} \cup Entries(d)
Comes(p, q) == p[1] < q[1] \/ (p[1] = q[1] /\ p[2] < q[2])

LineAt(d, p) == IF p = Origin THEN [seq |-> 0, id |-> Genesis] ELSE d[p[1]].lines[p[2]]
Logged(d) == {LineAt(d, p) : p \in Entries(d)}

ChainEnd(d) == LineAt(d, CHOOSE p \in Places(d) : \A q \in Places(d) : q = p \/ Comes(q, p))

(* The last file there is, and its size: a half line counts for one, a line  *)
(* for two.                                                                  *)
Size(file) == 2 * Len(file.lines) + (IF file.torn THEN 1 ELSE 0)
Files(d) == {m \in 1..Months : Size(d[m]) > 0}

Seen(d) == IF Files(d) = {} THEN <<0, 0>> ELSE <<Max(Files(d)), Size(d[Max(Files(d))])>>

(* #resumeChain(): from the last file back to one with an entry, a half line *)
(* is ended on the way; the chain goes on from the last entry.               *)
Whole(file) ==
  IF file.torn THEN [lines |-> Append(file.lines, Unreadable), torn |-> FALSE] ELSE file

Resumed(d) ==
  [m \in 1..Months |-> IF \A p \in Entries(d) : p[1] <= m THEN Whole(d[m]) ELSE d[m]]

(* A line written to the file of its month: behind a half line, it is lost.  *)
Put(d, e) ==
  [d EXCEPT ![e.at] = IF @.torn THEN Whole(@) ELSE [lines |-> Append(@.lines, e), torn |-> FALSE]]

(* The write of the line fails, with nothing or a half of it on the disk.    *)
Failed(d, e) == {d, [d EXCEPT ![e.at] = [lines |-> @.lines, torn |-> TRUE]]}

-----------------------------------------------------------------------------
Init ==
  /\ disk = [m \in 1..Months |-> Empty] /\ month = 1
  /\ server = "up" /\ seq = 0 /\ mac = Genesis /\ held = <<>> /\ seen = <<0, 0>>
  /\ ledger = {} /\ saved = {} /\ timer = FALSE
  /\ made = 0 /\ faults = 0
  /\ forked = {} /\ cut = {} /\ blind = FALSE /\ unlogged = {} /\ forgotten = {} /\ atStop = {}

(* flushSync(): the held entries are written in order, until one fails.      *)
Written(d, es, k) ==
  LET after[i \in 0..Len(es)] == IF i = 0 THEN d ELSE Put(after[i - 1], es[i])
  IN  after[k]

(* Entries that are not on the disk although they were written, when record() *)
(* did not look at the disk before, because entries were held.               *)
Lost(es) == IF held = <<>> /\ ~blind THEN {} ELSE Ids(Elems(es)) \ Ids(Logged(disk'))

Flush(d, es, known) ==
  \/ /\ disk' = Written(d, es, Len(es))
     /\ held' = <<>>
     /\ seen' = Seen(disk')
     /\ cut' = cut \cup Lost(es)
     /\ UNCHANGED faults
  \/ \E k \in 0..Len(es) - 1 :
       /\ faults < MaxFaults /\ faults' = faults + 1
       /\ disk' \in Failed(Written(d, es, k), es[k + 1])
       /\ held' = SubSeq(es, k + 1, Len(es))
       /\ seen' = known
       /\ cut' = cut \cup Lost(SubSeq(es, 1, k))

InStep == ChainEnd(disk).seq = seq /\ ChainEnd(disk).id = mac

(* flushSync() again, outside record(): with nothing held it only remembers  *)
(* the disk as it is, and what a command wrote meanwhile goes unnoticed.     *)
FlushOnly ==
  /\ Flush(disk, held, seen)
  /\ forked' = IF held = <<>> /\ ~InStep THEN forked \cup {mac} ELSE forked
  /\ blind' = (blind \/ (held = <<>> /\ disk[month].torn))

NewEntry(after, charge) ==
  [id |-> made + 1, seq |-> after.seq + 1, prev |-> after.id, at |-> month, charge |-> charge]

FaultRecord(charge) ==
  LET e == NewEntry([seq |-> seq, id |-> mac], charge)
  IN  /\ made < MaxEntries /\ made' = made + 1
      /\ seq' = e.seq /\ mac' = e.id
      /\ Flush(disk, Append(held, e), seen)

(* record(): the chain is taken up from the disk when another process has    *)
(* written; not while entries are held.                                      *)
Record(charge) ==
  LET again == held = <<>> /\ Seen(disk) # seen
      d == IF again THEN Resumed(disk) ELSE disk
      after == IF again /\ Entries(d) # {} THEN ChainEnd(d) ELSE [seq |-> seq, id |-> mac]
      e == NewEntry(after, charge)
  IN  /\ made < MaxEntries /\ made' = made + 1
      /\ seq' = e.seq /\ mac' = e.id
      /\ Flush(d, Append(held, e), IF again THEN Seen(d) ELSE seen)

Serving == server \in {"up", "stopping"}

(* Something is recorded that spends nothing.                                *)
Event ==
  /\ Serving
  /\ Record(FALSE)
  /\ UNCHANGED <<month, book, server, forked, blind, unlogged, forgotten, atStop>>

(* Checkmarx One charged: the ledger first, then the audit entry it names.   *)
Charge ==
  /\ Serving
  /\ Record(TRUE)
  /\ ledger' = ledger \cup {made'}
  /\ timer' = TRUE
  /\ UNCHANGED <<month, saved, server, forked, blind, unlogged, forgotten, atStop>>

(* CreditLedger.flush(), 200 ms later.  When it fails, nothing sets another  *)
(* timer until the next charge.                                              *)
SaveLedger ==
  /\ Serving /\ timer
  /\ timer' = FALSE
  /\ \/ saved' = ledger /\ UNCHANGED faults
     \/ faults < MaxFaults /\ faults' = faults + 1 /\ UNCHANGED saved
  /\ UNCHANGED <<log, ledger, server, forked, cut, blind, unlogged, forgotten, atStop>>

(* settled(), before the log is browsed, verified, exported or backed up.    *)
Settle ==
  /\ Serving
  /\ FlushOnly
  /\ UNCHANGED <<month, seq, mac, made, book, server, unlogged, forgotten, atStop>>

(* A command next to the server: it opens the log, records, and ends.  What  *)
(* it could not write ends with it.                                          *)
Command ==
  LET d == Resumed(disk)
      e == NewEntry(ChainEnd(d), FALSE)
  IN  /\ made < MaxEntries /\ made' = made + 1
      /\ \/ /\ disk' = Put(d, e)
            /\ forked' = IF held = <<>> THEN forked ELSE forked \cup Ids(Elems(held)) \cup {e.id}
            /\ UNCHANGED <<faults, blind>>
         \/ /\ faults < MaxFaults /\ faults' = faults + 1
            /\ disk' \in Failed(d, e)
            /\ blind' = (blind \/ (held # <<>> /\ disk' # d))
            /\ UNCHANGED forked
      /\ UNCHANGED <<month, seq, mac, held, seen, book, server, cut, unlogged, forgotten, atStop>>

NewMonth ==
  /\ month < Months
  /\ month' = month + 1
  /\ UNCHANGED <<disk, seq, mac, held, seen, made, book, server, faults,
                 forked, cut, blind, unlogged, forgotten, atStop>>

-----------------------------------------------------------------------------
FaultStop ==
  /\ server = "up" /\ server' = "stopping"
  /\ atStop' = ledger
  /\ FlushOnly
  /\ UNCHANGED <<month, seq, mac, made, ledger, saved, timer, unlogged, forgotten>>

(* shutdown(): the ledger is written, then the entries held.  Requests that  *)
(* the drain did not wait for go on until the process exits.                 *)
Stop ==
  /\ server = "up" /\ server' = "stopping"
  /\ saved' = ledger /\ timer' = FALSE /\ atStop' = ledger
  /\ FlushOnly
  /\ UNCHANGED <<month, seq, mac, made, ledger, unlogged, forgotten>>

Ended ==
  /\ server' = "down"
  /\ timer' = FALSE /\ atStop' = {} /\ ledger' = saved
  /\ seq' = 0 /\ mac' = Genesis /\ seen' = <<0, 0>>
  /\ UNCHANGED <<month, made, saved, forked, blind>>

(* The last flushSync(), and the end: what is still held ends with it.       *)
Exit ==
  /\ server = "stopping"
  /\ Ended
  /\ held' = <<>>
  /\ \E k \in 0..Len(held) :
       /\ k < Len(held) => faults < MaxFaults
       /\ faults' = IF k < Len(held) THEN faults + 1 ELSE faults
       /\ LET w == Written(disk, held, k)
          IN  /\ disk' \in IF k < Len(held) THEN Failed(w, held[k + 1]) ELSE {w}
              /\ cut' = cut \cup (Ids(Elems(SubSeq(held, 1, k))) \ Ids(Logged(w)))
       /\ unlogged' = unlogged \cup Ids(Elems(SubSeq(held, k + 1, Len(held))))
  /\ forgotten' = forgotten \cup (ledger \ (saved \cup atStop))

(* The process dies, or is killed because shutdown() got stuck.              *)
Crash ==
  /\ Serving
  /\ faults < MaxFaults /\ faults' = faults + 1
  /\ Ended
  /\ held' = <<>>
  /\ unlogged' = unlogged \cup Ids(Elems(held))
  /\ forgotten' = forgotten \cup (ledger \ saved)
  /\ UNCHANGED <<disk, cut>>

FaultRestart ==
  /\ server = "down" /\ server' = "up"
  /\ seq' = ChainEnd(disk).seq /\ mac' = ChainEnd(disk).id
  /\ seen' = Seen(disk)
  /\ blind' = FALSE
  /\ UNCHANGED <<disk, month, held, made, book, faults, forked, cut, unlogged, forgotten, atStop>>

Restart ==
  /\ server = "down" /\ server' = "up"
  /\ disk' = Resumed(disk)
  /\ seq' = ChainEnd(disk).seq /\ mac' = ChainEnd(disk).id
  /\ seen' = Seen(disk')
  /\ blind' = FALSE
  /\ UNCHANGED <<month, held, made, book, faults, forked, cut, unlogged, forgotten, atStop>>

Next ==
  \/ Event \/ Charge \/ SaveLedger \/ Settle \/ Command \/ NewMonth
  \/ Stop \/ Exit \/ Crash \/ Restart

Spec == Init /\ [][Next]_vars

-----------------------------------------------------------------------------
Follows(e, before) == e.seq = before.seq + 1 /\ e.prev = before.id

(* "Editing, removing or reordering any entry breaks the chain", and nothing *)
(* else does: in a log nobody touched, through restarts, half lines, months  *)
(* and commands, verify() finds an entry out of order only where a command   *)
(* wrote while the server held entries or before it remembered the disk      *)
(* without reading it, or behind half a line that went unnoticed.            *)
ChainHolds ==
  \A p, q \in Places(disk) :
    Comes(p, q) /\ (\A r \in Places(disk) : ~(Comes(p, r) /\ Comes(r, q))) =>
      \/ Follows(LineAt(disk, q), LineAt(disk, p))
      \/ LineAt(disk, q).id \in forked
      \/ LineAt(disk, q).prev \in forked \cup cut

(* "Another process (e.g. an admin command run next to the server) may have  *)
(* appended since: carry on the chain from what is really on disk."          *)
CarriesOn ==
  \A p, q \in Places(disk) :
    Comes(p, q) /\ (\A r \in Places(disk) : ~(Comes(p, r) /\ Comes(r, q))) =>
      Follows(LineAt(disk, q), LineAt(disk, p))

Audited == {e.id : e \in {x \in Logged(disk) \cup Elems(held) : x.charge}}

(* Reconciling finds the audit log and the ledger agree, except for charges  *)
(* of the last moments before a crash, or made after shutdown() had written  *)
(* the ledger, and for entries the disk refused until the server ended.      *)
BooksAgree ==
  /\ Audited \subseteq ledger \cup forgotten
  /\ ledger \subseteq Audited \cup unlogged \cup cut
==============================================================================
