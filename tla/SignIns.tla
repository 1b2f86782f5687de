------------------------------- MODULE SignIns --------------------------------
(***************************************************************************)
(* Password sign-ins and what outlives the server of them: SessionStore    *)
(* of src/src/session.js, SessionPersistence of src/src/handover.js and    *)
(* the timers of src/src/server.js that join them.                         *)
(*                                                                         *)
(* A session is named by the person it belongs to and a number.  Who is    *)
(* signed in is saved 200 ms after it changes, and every minute; what each *)
(* fetched is written in the background, one file at a time.               *)
(***************************************************************************)
EXTENDS Naturals, FiniteSets

CONSTANTS People, Numbers, None, MaxStops  \* bound: stops and crashes

Sessions == People \X Numbers

VARIABLES server,   \* "up", "closing" (its last words) or "down"
          live,     \* #sessions
          adopted,  \* #adopted: saved ones nobody has come back for yet
          fetched,  \* live sessions with a lastScan
          asking,   \* ended sessions of which a request is still under way
          index,    \* index.json
          files,    \* <key>.scan.json.gz
          queued,   \* scans waiting for their turn (#latest and #pending)
          writing,  \* the session whose scan #drain is writing
          timer,    \* indexTimer: "no", "set", or "cleared" by the shutdown
          ended,    \* history: sessions that ended
          unsaved,  \* history: those that ended since who is signed in was saved
          lost,     \* history: those that a crash left in index.json
          stops

memory  == <<live, adopted, fetched, asking, queued, writing>>
disk    == <<index, files>>
history == <<ended, unsaved, lost>>
vars    == <<server, memory, disk, timer, history, stops>>

TypeOK ==
  /\ server \in {"up", "closing", "down"}
  /\ {live, adopted, fetched, asking, index, files, queued, ended, unsaved, lost} \subseteq SUBSET Sessions
  /\ fetched \subseteq live /\ asking \subseteq ended
  /\ writing \in Sessions \cup {None}
  /\ timer \in {"no", "set", "cleared"}
  /\ stops \in 0..MaxStops

Init ==
  /\ server = "up"
  /\ live = {} /\ adopted = {} /\ fetched = {} /\ asking = {} /\ queued = {} /\ writing = None
  /\ index = {} /\ files = {}
  /\ timer = "no"
  /\ ended = {} /\ unsaved = {} /\ lost = {}
  /\ stops = 0

Serving == server \in {"up", "closing"}
SignedIn == live \cup adopted

(* saveSignInsSoon(): a timer that the shutdown cleared is never set again. *)
SaveSoon == timer' = IF timer = "no" THEN "set" ELSE timer

(* POST /api/session/password. *)
SignIn(s) ==
  /\ Serving
  /\ s \notin SignedIn \cup ended
  /\ live' = live \cup {s}
  /\ SaveSoon
  /\ UNCHANGED <<server, adopted, fetched, asking, queued, writing, disk, history, stops>>

(* #takeAdopted(): its browser calls. *)
ComeBack(s) ==
  /\ Serving
  /\ s \in adopted
  /\ adopted' = adopted \ {s}
  /\ live' = live \cup {s}
  /\ fetched' = fetched \cup ({s} \cap files)
  /\ UNCHANGED <<server, asking, queued, writing, disk, timer, history, stops>>

(* saveFetchedData(), once data was fetched or changed: its save is queued, *)
(* also when the session ended since.                                      *)
Fetch(s) ==
  /\ Serving
  /\ s \in live \cup asking
  /\ asking' = asking \ {s}
  /\ fetched' = fetched \cup ({s} \cap live)
  /\ queued' = queued \cup {s}
  /\ UNCHANGED <<server, live, adopted, writing, disk, timer, history, stops>>

(* Sessions end: forget() removes what is saved or queued of each, and who *)
(* is signed in is saved soon.  Requests under way go on.                  *)
Forgotten(S) ==
  /\ \E late \in SUBSET (S \cap live) : asking' = asking \cup late
  /\ fetched' = fetched \ S
  /\ queued' = queued \ S
  /\ files' = files \ S
  /\ SaveSoon
  /\ ended' = ended \cup S
  /\ unsaved' = unsaved \cup S
  /\ UNCHANGED <<server, writing, index, lost, stops>>

(* Fault: sessions nobody has come back for yet are passed over. *)
FaultEnd(S) ==
  /\ live' = live \ S
  /\ adopted' = adopted
  /\ Forgotten(S)

End(S) ==
  /\ live' = live \ S
  /\ adopted' = adopted \ S
  /\ Forgotten(S)

(* Sign-out, idling out, or a request of somebody disabled or removed. *)
EndOne(s) == Serving /\ s \in SignedIn /\ End({s})

(* endSessionsOf(): every session of a person, but for the one that asks. *)
EndAll(p, keep) ==
  LET theirs == {s \in SignedIn : s[1] = p} \ keep
  IN  Serving /\ theirs # {} /\ End(theirs)

-----------------------------------------------------------------------------
(* saveIndex(): who is signed in; scan files of nobody are removed. *)
Saved ==
  /\ index' = SignedIn
  /\ unsaved' = {}

SaveIndex ==
  /\ Serving
  /\ timer = "set"
  /\ timer' = "no"
  /\ Saved
  /\ files' = files \cap (SignedIn \cup queued)
  /\ UNCHANGED <<server, memory, ended, lost, stops>>

SaveFails ==
  /\ Serving
  /\ timer = "set"
  /\ timer' = "no"
  /\ UNCHANGED <<server, memory, disk, history, stops>>

(* Fault: who is signed in is saved only when it changes. *)
FaultMinute ==
  /\ Serving
  /\ \E used \in SUBSET fetched : queued' = queued \cup used
  /\ UNCHANGED <<server, live, adopted, fetched, asking, writing, disk, timer, history, stops>>

(* Every minute: who is signed in, and the data of sessions used since. *)
Minute ==
  /\ Serving
  /\ \E used \in SUBSET fetched : queued' = queued \cup used
  /\ SaveSoon
  /\ UNCHANGED <<server, live, adopted, fetched, asking, writing, disk, history, stops>>

(* #drain(): the next scan leaves the queue, is compressed, written beside *)
(* its file and renamed onto it, whatever happened to its session since.   *)
DrainTakes(s) ==
  /\ Serving
  /\ writing = None
  /\ s \in queued
  /\ writing' = s
  /\ queued' = queued \ {s}
  /\ UNCHANGED <<server, live, adopted, fetched, asking, disk, timer, history, stops>>

DrainEnds ==
  /\ Serving
  /\ writing # None
  /\ writing' = None
  /\ files' \in {files, files \cup {writing}}
  /\ UNCHANGED <<server, live, adopted, fetched, asking, queued, index, timer, history, stops>>

-----------------------------------------------------------------------------
(* shutdown(): who is signed in and their data are written at once, and    *)
(* the server goes on answering for its last words.                        *)
Close ==
  /\ server = "up"
  /\ stops < MaxStops
  /\ server' = "closing"
  /\ timer' = IF timer = "set" THEN "cleared" ELSE timer
  /\ Saved
  /\ files' = (files \cap (SignedIn \cup queued)) \cup queued \cup fetched
  /\ queued' = {}
  /\ UNCHANGED <<live, adopted, fetched, asking, writing, ended, lost, stops>>

(* The process ends: at the end of a shutdown, or at any moment. *)
Gone ==
  /\ server' = "down"
  /\ stops' = stops + 1
  /\ live' = {} /\ adopted' = {} /\ fetched' = {} /\ asking' = {}
  /\ queued' = {} /\ writing' = None
  /\ timer' = "no"
  /\ lost' = lost \cup unsaved
  /\ unsaved' = {}
  /\ UNCHANGED <<disk, ended>>

Exit == server = "closing" /\ Gone
Crash == server = "up" /\ stops < MaxStops /\ Gone

(* The next server adopts what is saved; after a restore from a backup it  *)
(* starts afresh.                                                          *)
Start(restored) ==
  /\ server = "down"
  /\ server' = "up"
  /\ IF restored
     THEN /\ index' = {} /\ files' = {} /\ UNCHANGED <<adopted, timer>>
     ELSE /\ adopted' = index
          /\ timer' = IF index = {} THEN "no" ELSE "set"
          /\ UNCHANGED disk
  /\ UNCHANGED <<live, fetched, asking, queued, writing, history, stops>>

Next ==
  \/ \E s \in Sessions : SignIn(s) \/ ComeBack(s) \/ Fetch(s) \/ EndOne(s) \/ DrainTakes(s)
  \/ \E p \in People : EndAll(p, {}) \/ \E s \in live : EndAll(p, {s})
  \/ SaveIndex \/ SaveFails \/ Minute \/ DrainEnds
  \/ Close \/ Exit \/ Crash
  \/ \E restored \in BOOLEAN : Start(restored)

Spec == Init /\ [][Next]_vars

(* The minute's timer runs, writes do not fail for ever, what is queued    *)
(* gets its turn, and a server that went down is started again.            *)
FairSpec ==
  /\ Spec
  /\ WF_vars(Minute) /\ SF_vars(SaveIndex) /\ WF_vars(DrainEnds)
  /\ \A s \in Sessions : SF_vars(DrainTakes(s))
  /\ WF_vars(Exit) /\ WF_vars(\E restored \in BOOLEAN : Start(restored))

-----------------------------------------------------------------------------
(* "Signing out, idling out, being disabled or removed, and a password     *)
(* reset delete the entry": a session that ended is signed in again only   *)
(* when the server went down before that was saved.                        *)
EndedStaysEnded == SignedIn \cap ended \subseteq lost

(* What an ended session fetched does not stay on the disk, although a     *)
(* write under way may put it back after it was removed.                   *)
DataGoes ==
  \A s \in Sessions : (s \in ended /\ s \in files) ~> (s \notin files \/ s \in lost)
==============================================================================
