----------------------------- MODULE OfficeProofs -----------------------------
(***************************************************************************)
(* Sign-ins (SignIns.tla), for any number of people, sessions and stops of *)
(* the server: a session that ended is not signed in again by a restart,   *)
(* unless the server went down before that was saved.  And rescans         *)
(* (TrackedRescan.tla), for any number of projects, rounds and pieces of   *)
(* work at once: a round of a report is rescanned once, unless a rescan is *)
(* asked for while another has passed its guards and is not noted yet.     *)
(*                                                                         *)
(* Neither is inductive.  What a restart brings back is what the index     *)
(* holds, so that SignInv says of the index what the property says of who  *)
(* is signed in.  Until it is saved again, it may hold what has ended; a   *)
(* server that stops in order has saved it.  And what a task does after a  *)
(* wait follows from what it found before it, so that RescanInv says which *)
(* of that still holds, unless another task noted its rescan meanwhile.    *)
(***************************************************************************)
EXTENDS Office, TLAPS

(* What ended is neither signed in nor saved, but for what a crash left    *)
(* saved, or what the next save will remove; a stopped server has no such. *)
SignInv ==
  /\ Sign!SignedIn \cap ended \subseteq lost
  /\ index \cap ended \subseteq unsaved \cup lost
  /\ server = "down" => unsaved = {}

(* Sessions end, and with them their claim to be signed in. *)
LEMMA EndKeepsSign ==
  ASSUME SignInv, NEW S, Sign!Serving, Sign!End(S)
  PROVE  SignInv'
  BY DEF SignInv, Sign!End, Sign!Forgotten, Sign!SignedIn, Sign!Serving

(* The process ends, or the next one starts. *)
LEMMA RestartKeepsSign ==
  ASSUME SignInv, Sign!Gone \/ \E restored \in BOOLEAN : Sign!Start(restored)
  PROVE  SignInv'
  <1>1. CASE Sign!Gone
    BY <1>1 DEF SignInv, Sign!Gone, Sign!disk, Sign!SignedIn
  <1>2. ASSUME NEW restored \in BOOLEAN, Sign!Start(restored) PROVE SignInv'
    BY <1>2 DEF SignInv, Sign!Start, Sign!disk, Sign!history, Sign!SignedIn
  <1>. QED
    BY <1>1, <1>2

(* No step brings an ended session back. *)
LEMMA SignStep == SignInv /\ [Sign!Next]_(Sign!vars) => SignInv'
  <1>. SUFFICES ASSUME SignInv, [Sign!Next]_(Sign!vars) PROVE SignInv'
    OBVIOUS
  <1>1. ASSUME NEW s \in Sign!Sessions, Sign!SignIn(s) \/ Sign!ComeBack(s) \/ Sign!Fetch(s)
                                            \/ Sign!DrainTakes(s)
        PROVE  SignInv'
    BY <1>1 DEF SignInv, Sign!SignIn, Sign!ComeBack, Sign!Fetch, Sign!DrainTakes, Sign!SignedIn, Sign!disk, Sign!history
  <1>2. ASSUME NEW s \in Sign!Sessions, Sign!EndOne(s) PROVE SignInv'
    BY <1>2, EndKeepsSign DEF Sign!EndOne
  <1>3. ASSUME NEW p \in People, NEW keep, Sign!EndAll(p, keep) PROVE SignInv'
    BY <1>3, EndKeepsSign DEF Sign!EndAll
  <1>4. CASE Sign!SaveIndex \/ Sign!Close
    BY <1>4 DEF SignInv, Sign!SaveIndex, Sign!Close, Sign!Saved, Sign!memory, Sign!SignedIn, Sign!Serving
  <1>5. CASE Sign!SaveFails \/ Sign!Minute \/ Sign!DrainEnds
             \/ UNCHANGED Sign!vars
    BY <1>5 DEF SignInv, Sign!SaveFails, Sign!Minute, Sign!DrainEnds,
                Sign!vars, Sign!memory, Sign!disk, Sign!history, Sign!SignedIn
  <1>6. CASE Sign!Exit \/ Sign!Crash \/ \E restored \in BOOLEAN : Sign!Start(restored)
    BY <1>6, RestartKeepsSign DEF Sign!Exit, Sign!Crash
  <1>. QED
    BY <1>1, <1>2, <1>3, <1>4, <1>5, <1>6 DEF Sign!Next

(* A session that ended is signed in again only when the server went down   *)
(* before that was saved (session.js, handover.js).                         *)
THEOREM EndedSessionsStayEnded == Sign!Spec => []EndedStaysEnded
  <1>1. Sign!Init => SignInv
    BY DEF Sign!Init, SignInv, Sign!SignedIn
  <1>2. SignInv => EndedStaysEnded
    BY DEF SignInv, EndedStaysEnded, Sign!EndedStaysEnded
  <1>. QED
    BY <1>1, <1>2, SignStep, PTL DEF Sign!Spec

-----------------------------------------------------------------------------
(* Rescans of a tracked report (TrackedRescan.tla), whatever is under way   *)
(* at once.  What a verification is, and what a task remembers while it     *)
(* awaits.                                                                  *)
Verification == [round : Nat, turn : BOOLEAN, entry : [Projects -> Statuses],
                 finished : BOOLEAN, result : BOOLEAN, stale : BOOLEAN, overtaken : BOOLEAN]

Work == [pc : {"idle", "polling", "reading", "telling", "opening", "asking", "starting", "moving"},
         verif : Nat, window : Nat, turn : BOOLEAN, changed : BOOLEAN, still : BOOLEAN,
         stale : SUBSET Guards]

Windows == [open : BOOLEAN, nr : Nat, round : Nat, started : BOOLEAN]

RescanTypes ==
  /\ round \in Nat
  /\ window \in Windows
  /\ verifs \in Seq(Verification)
  /\ current \in 0..Len(verifs)
  /\ task \in [Tasks -> Work]

(* Rounds only move on, and what is verified of this one is the report's.  *)
RoundsOK ==
  /\ window.round <= round
  /\ current # 0 => verifs[current].round = round
  /\ \A i \in DOMAIN verifs :
       /\ verifs[i].round <= round
       /\ verifs[i].round = round => current # 0

(* What a task found before an await is so after it, unless another noted  *)
(* its rescan meanwhile: nothing runs when it is about to ask for scans or *)
(* to move on, and a developers' turn is not taken yet.  And a task reads  *)
(* the findings once the scans it follows are over.                        *)
StillSo(w) ==
  /\ w.pc \in {"polling", "reading", "telling"} => w.verif \in DOMAIN verifs
  /\ w.pc \in {"reading", "telling"} => ~Scanning(w.verif)
  /\ w.pc = "starting" /\ "free" \notin w.stale => ~Unfinished
  /\ w.pc = "moving" /\ "free" \notin w.stale => ~(Unfinished /\ Scanning(current))
  /\ w.pc \in {"asking", "starting"} /\ w.turn /\ "turn" \notin w.stale => ~RoundVerified

RescanInv ==
  /\ RescanTypes
  /\ RoundsOK
  /\ \A t \in Tasks : StillSo(task[t])
  /\ RoundsKeepTheirRescan

(* No work, no window, no verification at first. *)
LEMMA RescanInit == Init => RescanInv
  <1>. SUFFICES ASSUME Init PROVE RescanInv
    OBVIOUS
  <1>1. Idle \in Work /\ StillSo(Idle)
    BY DEF Idle, Work, StillSo
  <1>2. RescanTypes
    BY <1>1 DEF Init, RescanTypes, NoWindow, Windows
  <1>3. DOMAIN verifs = {}
    BY DEF Init
  <1>4. RoundsOK
    BY <1>3 DEF Init, RoundsOK, NoWindow
  <1>5. RoundsKeepTheirRescan
    BY <1>3 DEF Init, NoWindow, RoundsKeepTheirRescan, OneTurnPerRound, ScansAreFollowed,
                UsedWindowIsVerified, InWindow
  <1>. QED
    BY <1>1, <1>2, <1>4, <1>5 DEF RescanInv, Init

(* One task goes on. *)
LEMMA OneBecomes ==
  ASSUME RescanInv, NEW t \in Tasks, NEW w \in Work, Become(t, w)
  PROVE  task' \in [Tasks -> Work] /\ task'[t] = w /\ \A s \in Tasks \ {t} : task'[s] = task[s]
  BY DEF RescanInv, RescanTypes, Become

(* Verifications only get on: scans end, and a verification once they did. *)
GetsOn ==
  /\ verifs' \in Seq(Verification) /\ DOMAIN verifs' = DOMAIN verifs /\ Len(verifs') = Len(verifs)
  /\ \A i \in DOMAIN verifs :
       /\ verifs'[i].round = verifs[i].round /\ verifs'[i].turn = verifs[i].turn
       /\ verifs'[i].stale = verifs[i].stale /\ verifs'[i].overtaken = verifs[i].overtaken
       /\ verifs[i].finished => verifs'[i].finished
       /\ Scanning(i)' => Scanning(i) /\ ~verifs'[i].finished

LEMMA NothingGetsOn == ASSUME RescanInv, verifs' = verifs PROVE GetsOn
  BY DEF GetsOn, RescanInv, RescanTypes, Scanning, RoundsKeepTheirRescan, ScansAreFollowed

(* ... then what a task found is so still. *)
LEMMA FoundIsSo ==
  ASSUME RescanInv, GetsOn, UNCHANGED <<round, current>>, NEW w \in Work, StillSo(w)
  PROVE  StillSo(w)'
  <1>1. Unfinished' => Unfinished
    BY DEF GetsOn, Unfinished, RescanInv, RescanTypes
  <1>2. RoundVerified' => RoundVerified
    BY DEF GetsOn, RoundVerified, RescanInv, RescanTypes
  <1>3. \A i \in DOMAIN verifs : Scanning(i)' => Scanning(i)
    BY DEF GetsOn
  <1>4. Unfinished' /\ Scanning(current)' => Scanning(current)
    <2>1. Unfinished' => current \in DOMAIN verifs
      BY DEF GetsOn, Unfinished, RescanInv, RescanTypes
    <2>2. Scanning(current)' <=> \E p \in Projects : verifs'[current].entry[p] = "Running"
      BY DEF Scanning
    <2>3. current \in DOMAIN verifs => (Scanning(current)' => Scanning(current))
      BY <1>3, <2>2 DEF Scanning
    <2>. QED
      BY <2>1, <2>3
  <1>. QED
    BY <1>1, <1>2, <1>3, <1>4 DEF StillSo, GetsOn

(* One task goes on, the verifications get on, and the window is not used. *)
LEMMA GettingOnKeepsRescan ==
  ASSUME RescanInv, GetsOn, UNCHANGED <<round, current>>,
         window' \in Windows, window'.round <= round, window'.started => window' = window \/ ~window'.open,
         NEW t \in Tasks, NEW w \in Work, Become(t, w), StillSo(w)'
  PROVE  RescanInv'
  <1>1. task' \in [Tasks -> Work] /\ task'[t] = w /\ \A s \in Tasks \ {t} : task'[s] = task[s]
    BY OneBecomes
  <1>2. RescanTypes'
    BY <1>1 DEF RescanInv, RescanTypes, GetsOn
  <1>3. RoundsOK'
    BY DEF RescanInv, RescanTypes, RoundsOK, GetsOn
  <1>4. ASSUME NEW s \in Tasks PROVE StillSo(task[s])'
    <2>1. CASE s = t
      BY <1>1, <2>1 DEF StillSo
    <2>2. CASE s # t
      <3>1. task[s] \in Work /\ StillSo(task[s]) /\ task'[s] = task[s]
        BY <1>1, <2>2 DEF RescanInv, RescanTypes
      <3>2. \A x \in Work : StillSo(x) => StillSo(x)'
        BY FoundIsSo
      <3>. QED
        BY <3>1, <3>2 DEF StillSo
    <2>. QED
      BY <2>1, <2>2
  <1>5. OneTurnPerRound'
    BY DEF RescanInv, RoundsKeepTheirRescan, OneTurnPerRound, GetsOn
  <1>6. ScansAreFollowed'
    BY DEF RescanInv, RoundsKeepTheirRescan, ScansAreFollowed, GetsOn
  <1>7. UsedWindowIsVerified'
    BY DEF RescanInv, RescanTypes, RoundsKeepTheirRescan, UsedWindowIsVerified, InWindow, RoundVerified, GetsOn
  <1>. QED
    BY <1>2, <1>3, <1>4, <1>5, <1>6, <1>7 DEF RescanInv, RoundsKeepTheirRescan

(* What the window needs now: it is called off, opens, or its rescan        *)
(* begins, which the round has none of.                                     *)
LEMMA StepKeepsRescan ==
  ASSUME RescanInv, NEW t \in Tasks, Step(t), GetsOn
  PROVE  RescanInv'
  <1>. DEFINE w == CASE WindowAction = "open" -> [Idle EXCEPT !.pc = "opening"]
                     [] WindowAction = "start" /\ MayStart ->
                          [Idle EXCEPT !.pc = "starting", !.window = window.nr, !.turn = TRUE]
                     [] OTHER -> Idle
  <1>1. /\ Become(t, w) /\ UNCHANGED <<round, current>>
        /\ window' = [window EXCEPT !.open = @ /\ WindowAction # "cancel"]
    BY DEF Step
  <1>2. window \in Windows /\ window.round <= round
    BY DEF RescanInv, RescanTypes, RoundsOK
  <1>3. w \in Work /\ StillSo(w)
    <2>1. WindowAction = "start" => ~RoundVerified
      BY DEF WindowAction
    <2>. QED
      BY <2>1, <1>2 DEF Work, Windows, Idle, StillSo, MayStart
  <1>4. PICK y \in Work : y = w
    BY <1>3
  <1>. HIDE DEF w
  <1>5. Become(t, y) /\ StillSo(y)'
    BY <1>1, <1>3, <1>4, FoundIsSo
  <1>6. window' \in Windows /\ window'.round = window.round /\ (window' = window \/ ~window'.open)
    BY <1>1, <1>2 DEF Windows
  <1>. QED
    BY <1>1, <1>2, <1>5, <1>6, GettingOnKeepsRescan

(* Something is noted of one verification. *)
LEMMA NotedGetsOn ==
  ASSUME RescanInv, NEW v \in DOMAIN verifs, NEW x \in Verification,
         verifs' = [verifs EXCEPT ![v] = x],
         x.round = verifs[v].round, x.turn = verifs[v].turn,
         x.stale = verifs[v].stale, x.overtaken = verifs[v].overtaken,
         verifs[v].finished => x.finished,
         \A p \in Projects : x.entry[p] = "Running" => verifs[v].entry[p] = "Running" /\ ~x.finished
  PROVE  GetsOn
  <1>1. verifs' \in Seq(Verification) /\ DOMAIN verifs' = DOMAIN verifs /\ Len(verifs') = Len(verifs)
        /\ verifs'[v] = x /\ \A i \in DOMAIN verifs \ {v} : verifs'[i] = verifs[i]
    BY DEF RescanInv, RescanTypes
  <1>2. Scanning(v)' => Scanning(v) /\ ~verifs'[v].finished
    <2>1. Scanning(v)' <=> \E p \in Projects : verifs'[v].entry[p] = "Running"
      BY DEF Scanning
    <2>. QED
      BY <1>1, <2>1 DEF Scanning
  <1>3. ASSUME NEW i \in DOMAIN verifs \ {v} PROVE Scanning(i)' => Scanning(i) /\ ~verifs'[i].finished
    BY <1>1 DEF Scanning, RescanInv, RoundsKeepTheirRescan, ScansAreFollowed
  <1>4. \A i \in DOMAIN verifs :
          /\ verifs'[i].round = verifs[i].round /\ verifs'[i].turn = verifs[i].turn
          /\ verifs'[i].stale = verifs[i].stale /\ verifs'[i].overtaken = verifs[i].overtaken
          /\ verifs[i].finished => verifs'[i].finished
    BY <1>1
  <1>. QED
    BY <1>1, <1>2, <1>3, <1>4 DEF GetsOn

(* The verification a task follows is one of the report's. *)
LEMMA Followed ==
  ASSUME RescanInv, NEW t \in Tasks, task[t].pc \in {"polling", "reading", "telling"}
  PROVE  /\ task[t] \in Work /\ task[t].verif \in DOMAIN verifs
         /\ verifs[task[t].verif] \in Verification
         /\ task[t].pc # "polling" => ~Scanning(task[t].verif)
         /\ Scanning(task[t].verif) => ~verifs[task[t].verif].finished
  <1>1. task[t] \in Work /\ StillSo(task[t])
    BY DEF RescanInv, RescanTypes
  <1>. QED
    BY <1>1 DEF StillSo, RescanInv, RescanTypes, RoundsKeepTheirRescan, ScansAreFollowed

(* The scans' statuses are read. *)
LEMMA PollKeepsRescan ==
  ASSUME RescanInv, NEW t \in Tasks, Noted(t) \/ Polled(t)
  PROVE  RescanInv'
  <1>. DEFINE v == task[t].verif
  <1>1. task[t].pc = "polling"
    BY DEF Noted, Note, Polled, Poll
  <1>2. /\ task[t] \in Work /\ v \in DOMAIN verifs /\ verifs[v] \in Verification
        /\ Scanning(v) => ~verifs[v].finished
    BY <1>1, Followed
  <1>3. window \in Windows /\ window.round <= round
    BY DEF RescanInv, RescanTypes, RoundsOK
  <1>4. ASSUME NEW p \in Projects, NEW status \in Terminal, Note(t, p, status) PROVE RescanInv'
    <2>. DEFINE x == [verifs[v] EXCEPT !.entry = [@ EXCEPT ![p] = status]]
                w == [task[t] EXCEPT !.changed = TRUE]
    <2>1. /\ verifs' = [verifs EXCEPT ![v] = x] /\ Become(t, w)
          /\ UNCHANGED <<round, window, current>>
      BY <1>4 DEF Note
    <2>2. /\ x \in Verification /\ x.round = verifs[v].round /\ x.turn = verifs[v].turn
          /\ x.stale = verifs[v].stale /\ x.overtaken = verifs[v].overtaken
          /\ verifs[v].finished => x.finished
          /\ x.finished => verifs[v].finished
      BY <1>2 DEF Verification, Statuses
    <2>3. \A q \in Projects : x.entry[q] = "Running" => verifs[v].entry[q] = "Running"
      BY <1>2 DEF Verification, Terminal
    <2>4. \A q \in Projects : verifs[v].entry[q] = "Running" => ~verifs[v].finished
      BY <1>2 DEF Scanning
    <2>. HIDE DEF x
    <2>5. GetsOn
      BY <1>2, <2>1, <2>2, <2>3, <2>4, NotedGetsOn
    <2>6. PICK y \in Work : y = w /\ y.pc = "polling" /\ y.verif = v
      <3>1. w \in Work /\ w.pc = "polling" /\ w.verif = v
        BY <1>1, <1>2 DEF Work
      <3>. QED
        BY <3>1, Zenon
    <2>7. Become(t, y) /\ StillSo(y)'
      BY <1>2, <2>1, <2>5, <2>6 DEF StillSo, GetsOn
    <2>. QED
      BY <1>3, <2>1, <2>5, <2>7, GettingOnKeepsRescan
  <1>5. ASSUME NEW expired \in BOOLEAN, Poll(t, expired) PROVE RescanInv'
    <2>. DEFINE Some(status) == \E p \in Projects : verifs[v].entry[p] = status
                ends == ~Some("Running") /\ (~Some("waiting") \/ expired)
    <2>1. CASE task[t].changed /\ ~Some("Running") /\ Some("Completed")
      <3>. DEFINE w == [task[t] EXCEPT !.pc = "reading", !.still = Some("waiting")]
      <3>1. Become(t, w) /\ UNCHANGED <<round, window, verifs, current>>
        BY <1>5, <2>1 DEF Poll
      <3>2. PICK y \in Work : y = w /\ y.pc = "reading" /\ y.verif = v
        <4>1. w \in Work /\ w.pc = "reading" /\ w.verif = v
          BY <1>2 DEF Work
        <4>. QED
          BY <4>1, Zenon
      <3>3. ~Scanning(y.verif)
        BY <2>1, <3>2 DEF Scanning
      <3>4. StillSo(y)
        BY <1>2, <3>2, <3>3 DEF StillSo
      <3>5. GetsOn
        BY <3>1, NothingGetsOn
      <3>6. Become(t, y) /\ StillSo(y)'
        BY <3>1, <3>2, <3>4, <3>5, FoundIsSo
      <3>. QED
        BY <1>3, <3>1, <3>5, <3>6, GettingOnKeepsRescan
    <2>2. CASE ~(task[t].changed /\ ~Some("Running") /\ Some("Completed"))
      <3>. DEFINE x == [verifs[v] EXCEPT !.finished = @ \/ ends]
      <3>1. verifs' = [verifs EXCEPT ![v] = x] /\ Step(t)
        BY <1>5, <2>2 DEF Poll, FinishedIf
      <3>2. ends \in BOOLEAN /\ (ends => \A p \in Projects : verifs[v].entry[p] # "Running")
        OBVIOUS
      <3>. HIDE DEF ends
      <3>3. /\ x \in Verification /\ x.round = verifs[v].round /\ x.turn = verifs[v].turn
            /\ x.stale = verifs[v].stale /\ x.overtaken = verifs[v].overtaken /\ x.entry = verifs[v].entry
            /\ x.finished = (verifs[v].finished \/ ends)
        BY <1>2, <3>2 DEF Verification
      <3>4. \A p \in Projects : verifs[v].entry[p] = "Running" => ~verifs[v].finished /\ ~ends
        BY <1>2, <3>2 DEF Scanning
      <3>. HIDE DEF x
      <3>5. GetsOn
        BY <1>2, <3>1, <3>3, <3>4, NotedGetsOn
      <3>. QED
        BY <3>1, <3>5, StepKeepsRescan
    <2>. QED
      BY <2>1, <2>2
  <1>. QED
    BY <1>4, <1>5 DEF Noted, Polled

(* What the scans found is noted, and the developers are told. *)
LEMMA ResultKeepsRescan ==
  ASSUME RescanInv, NEW t \in Tasks, Conclude(t) \/ Concluded(t)
  PROVE  RescanInv'
  <1>. DEFINE v == task[t].verif
  <1>1. task[t].pc \in {"reading", "telling"}
    BY DEF Conclude, Concluded, Told
  <1>2. /\ task[t] \in Work /\ v \in DOMAIN verifs /\ verifs[v] \in Verification
        /\ ~Scanning(v)
    BY <1>1, Followed
  <1>3. \A p \in Projects : verifs[v].entry[p] # "Running"
    BY <1>2 DEF Scanning
  <1>4. CASE Conclude(t)
    <2>. DEFINE x == [verifs[v] EXCEPT !.result = TRUE]
                w == [task[t] EXCEPT !.pc = "telling"]
    <2>1. /\ verifs' = [verifs EXCEPT ![v] = x] /\ Become(t, w) /\ UNCHANGED <<round, current, window>>
      BY <1>4 DEF Conclude
    <2>2. /\ x \in Verification /\ x.round = verifs[v].round /\ x.turn = verifs[v].turn
          /\ x.stale = verifs[v].stale /\ x.overtaken = verifs[v].overtaken /\ x.entry = verifs[v].entry
          /\ verifs[v].finished => x.finished
          /\ x.finished => verifs[v].finished
      BY <1>2 DEF Verification
    <2>. HIDE DEF x
    <2>3. GetsOn
      BY <1>2, <1>3, <2>1, <2>2, NotedGetsOn
    <2>4. PICK y \in Work : y = w /\ y.pc = "telling" /\ y.verif = v
      <3>1. w \in Work /\ w.pc = "telling" /\ w.verif = v
        BY <1>2 DEF Work
      <3>. QED
        BY <3>1, Zenon
    <2>5. ~Scanning(y.verif) /\ y.verif \in DOMAIN verifs
      BY <1>2, <2>4
    <2>6. StillSo(y)
      BY <2>4, <2>5 DEF StillSo
    <2>7. Become(t, y) /\ StillSo(y)'
      BY <2>1, <2>3, <2>4, <2>6, FoundIsSo
    <2>8. window \in Windows /\ window.round <= round
      BY DEF RescanInv, RescanTypes, RoundsOK
    <2>. QED
      BY <2>1, <2>3, <2>7, <2>8, GettingOnKeepsRescan
  <1>5. ASSUME NEW expired \in BOOLEAN, Told(t, expired) PROVE RescanInv'
    <2>. DEFINE ends == ~task[t].still \/ expired
                x == [verifs[v] EXCEPT !.finished = @ \/ ends]
    <2>1. verifs' = [verifs EXCEPT ![v] = x] /\ Step(t)
      BY <1>5 DEF Told, FinishedIf
    <2>2. ends \in BOOLEAN
      OBVIOUS
    <2>. HIDE DEF ends
    <2>3. /\ x \in Verification /\ x.round = verifs[v].round /\ x.turn = verifs[v].turn
          /\ x.stale = verifs[v].stale /\ x.overtaken = verifs[v].overtaken /\ x.entry = verifs[v].entry
          /\ x.finished = (verifs[v].finished \/ ends)
      BY <1>2, <2>2 DEF Verification
    <2>. HIDE DEF x
    <2>4. GetsOn
      BY <1>2, <1>3, <2>1, <2>3, NotedGetsOn
    <2>. QED
      BY <2>1, <2>4, StepKeepsRescan
  <1>. QED
    BY <1>4, <1>5 DEF Concluded

(* This task is done, and what the others still act on counts as old. *)
LEMMA DoneKeepsOthers ==
  ASSUME RescanInv, NEW t \in Tasks, DoneBefore(t),
         DOMAIN verifs \subseteq DOMAIN verifs',
         \A i \in DOMAIN verifs : verifs'[i].entry = verifs[i].entry
  PROVE  task' \in [Tasks -> Work] /\ \A s \in Tasks : StillSo(task[s])'
  <1>1. Idle \in Work /\ Idle.pc = "idle"
    BY DEF Idle, Work, Guards
  <1>2. ASSUME NEW s \in Tasks PROVE task'[s] \in Work /\ StillSo(task[s])'
    <2>1. task[s] \in Work /\ StillSo(task[s])
      BY DEF RescanInv, RescanTypes
    <2>2. CASE s = t
      <3>1. task'[s] = Idle
        BY <2>2 DEF DoneBefore
      <3>. QED
        BY <1>1, <3>1 DEF StillSo
    <2>3. CASE s # t /\ task[s].pc \in {"asking", "starting", "moving"}
      <3>1. task'[s] = [task[s] EXCEPT !.stale = Guards]
        BY <2>3 DEF DoneBefore
      <3>2. task'[s] \in Work /\ task'[s].pc = task[s].pc /\ task'[s].stale = Guards
        BY <2>1, <3>1 DEF Work
      <3>. QED
        BY <2>3, <3>2 DEF StillSo, Guards
    <2>4. CASE s # t /\ task[s].pc \notin {"asking", "starting", "moving"}
      <3>1. task'[s] = task[s]
        BY <2>4 DEF DoneBefore
      <3>2. ASSUME NEW i \in DOMAIN verifs, ~Scanning(i) PROVE ~Scanning(i)'
        BY <3>2 DEF Scanning
      <3>. QED
        BY <2>1, <2>4, <3>1, <3>2 DEF StillSo
    <2>. QED
      BY <2>2, <2>3, <2>4
  <1>3. task' = [s \in Tasks |-> task'[s]]
    BY DEF DoneBefore
  <1>. QED
    BY <1>2, <1>3

(* The verifications before, once the report's is another, or none. *)
LEMMA ReplacedOnly ==
  ASSUME RescanInv, NEW t \in Tasks
  PROVE  /\ Replaced(t) \in Seq(Verification) /\ DOMAIN Replaced(t) = DOMAIN verifs
         /\ Len(Replaced(t)) = Len(verifs)
         /\ \A i \in DOMAIN verifs :
              /\ Replaced(t)[i].round = verifs[i].round /\ Replaced(t)[i].turn = verifs[i].turn
              /\ Replaced(t)[i].entry = verifs[i].entry /\ Replaced(t)[i].finished = verifs[i].finished
              /\ Replaced(t)[i].stale = verifs[i].stale
              /\ Replaced(t)[i].overtaken = (verifs[i].overtaken \/ (i = current /\ "free" \in task[t].stale))
  <1>1. DOMAIN verifs = 1..Len(verifs) /\ Len(verifs) \in Nat
        /\ \A i \in DOMAIN verifs : verifs[i] \in Verification
    BY DEF RescanInv, RescanTypes
  <1>2. \A i \in DOMAIN verifs :
          Replaced(t)[i] = [verifs[i] EXCEPT !.overtaken = @ \/ (i = current /\ "free" \in task[t].stale)]
    BY DEF Replaced
  <1>3. \A i \in DOMAIN verifs : Replaced(t)[i] \in Verification
    BY <1>1, <1>2 DEF Verification
  <1>4. Replaced(t) \in [1..Len(verifs) -> Verification]
    BY <1>1, <1>3 DEF Replaced
  <1>5. Replaced(t) \in Seq(Verification) /\ DOMAIN Replaced(t) = DOMAIN verifs
        /\ Len(Replaced(t)) = Len(verifs)
    BY <1>1, <1>4
  <1>. QED
    BY <1>1, <1>2, <1>5 DEF Verification

(* The scans were asked for: none of the verifications before still runs,  *)
(* and if it is the developers' turn, this round had none, unless what the *)
(* task found was old.                                                     *)
LEMMA LaunchKeepsRescan ==
  ASSUME RescanInv, NEW t \in Tasks, Launched(t)
  PROVE  RescanInv'
  <1>1. PICK waits \in SUBSET Projects : Started(t, waits)
    BY DEF Launched
  <1>. DEFINE w == task[t]
              n == Len(verifs) + 1
              x == [round |-> round, turn |-> w.turn, finished |-> FALSE, result |-> FALSE,
                    stale |-> "turn" \in w.stale, overtaken |-> FALSE,
                    entry |-> [p \in Projects |-> IF p \in waits THEN "waiting" ELSE "Running"]]
              older == Replaced(t)
  <1>2. /\ w \in Work
        /\ "free" \notin w.stale => ~Unfinished
        /\ w.turn /\ "turn" \notin w.stale => ~RoundVerified
    BY <1>1 DEF Started, RescanInv, RescanTypes, StillSo
  <1>3. verifs' = Append(older, x) /\ current' = n /\ round' = round /\ DoneBefore(t)
        /\ window' = [window EXCEPT !.started = @ \/ (w.window = window.nr /\ window.open)]
    BY <1>1 DEF Started
  <1>4. /\ x \in Verification /\ x.round = round /\ x.turn = w.turn /\ ~x.finished
        /\ x.stale = ("turn" \in w.stale)
    BY <1>2 DEF Verification, Statuses, Work, RescanInv, RescanTypes
  <1>5. /\ older \in Seq(Verification) /\ DOMAIN older = DOMAIN verifs /\ Len(older) = Len(verifs)
        /\ \A i \in DOMAIN verifs :
             /\ older[i].round = verifs[i].round /\ older[i].turn = verifs[i].turn
             /\ older[i].entry = verifs[i].entry /\ older[i].finished = verifs[i].finished
             /\ older[i].stale = verifs[i].stale
             /\ older[i].overtaken = (verifs[i].overtaken \/ (i = current /\ "free" \in w.stale))
    BY ReplacedOnly
  <1>. HIDE DEF x, older, w
  <1>6. /\ verifs' \in Seq(Verification) /\ Len(verifs') = n /\ verifs'[n] = x /\ n \in Nat \ {0}
        /\ \A i \in DOMAIN verifs : verifs'[i] = older[i] /\ i # n /\ i < n
        /\ DOMAIN verifs' = DOMAIN verifs \cup {n} /\ DOMAIN verifs = 1..Len(verifs)
    BY <1>3, <1>4, <1>5 DEF RescanInv, RescanTypes
  <1>7. task' \in [Tasks -> Work] /\ \A s \in Tasks : StillSo(task[s])'
    BY <1>3, <1>5, <1>6, DoneKeepsOthers
  <1>8. window' \in Windows /\ window'.round = window.round
    BY <1>3 DEF RescanInv, RescanTypes, Windows
  <1>9. RescanTypes'
    BY <1>3, <1>6, <1>7, <1>8 DEF RescanInv, RescanTypes
  <1>10. RoundsOK'
    BY <1>3, <1>4, <1>5, <1>6, <1>8 DEF RescanInv, RescanTypes, RoundsOK
  <1>11. OneTurnPerRound'
    <2>1. w.turn /\ "turn" \notin w.stale => \A i \in DOMAIN verifs : verifs[i].round # round
      BY <1>2 DEF RescanInv, RoundsOK, RoundVerified
    <2>. SUFFICES ASSUME NEW i \in DOMAIN verifs', NEW j \in DOMAIN verifs', i < j,
                         verifs'[i].turn, verifs'[j].turn, verifs'[i].round = verifs'[j].round
                  PROVE  verifs'[j].stale
      BY DEF OneTurnPerRound
    <2>2. CASE j \in DOMAIN verifs
      <3>1. i \in DOMAIN verifs
        BY <1>6, <2>2
      <3>. QED
        BY <2>2, <3>1, <1>5, <1>6 DEF RescanInv, RoundsKeepTheirRescan, OneTurnPerRound
    <2>3. CASE j = n
      <3>1. i \in DOMAIN verifs
        BY <1>6, <2>3
      <3>2. verifs'[i].round = verifs[i].round /\ verifs'[i] = older[i]
        BY <1>5, <1>6, <3>1
      <3>3. verifs'[j] = x
        BY <1>6, <2>3
      <3>4. w.turn /\ verifs[i].round = round
        BY <1>4, <3>2, <3>3
      <3>. QED
        BY <2>1, <3>1, <3>3, <3>4, <1>4
    <2>. QED
      BY <2>2, <2>3, <1>6
  <1>12. ScansAreFollowed'
    <2>1. ASSUME NEW i \in DOMAIN verifs, Scanning(i)'
          PROVE  ~verifs'[i].finished /\ verifs'[i].overtaken
      <3>1. Scanning(i)
        BY <2>1, <1>5, <1>6 DEF Scanning
      <3>2. ~verifs[i].finished /\ (i = current \/ verifs[i].overtaken)
        BY <3>1 DEF RescanInv, RoundsKeepTheirRescan, ScansAreFollowed
      <3>3. i = current => "free" \in w.stale
        BY <3>2, <1>2, <1>6 DEF Unfinished
      <3>. QED
        BY <3>2, <3>3, <1>5, <1>6
    <2>. QED
      BY <2>1, <1>3, <1>4, <1>6 DEF ScansAreFollowed
  <1>13. RoundVerified'
    BY <1>3, <1>4, <1>6 DEF RoundVerified
  <1>. QED
    BY <1>7, <1>9, <1>10, <1>11, <1>12, <1>13 DEF RescanInv, RoundsKeepTheirRescan, UsedWindowIsVerified

(* The report moves on: what was verified is of rounds before. *)
LEMMA MovedKeepsRescan ==
  ASSUME RescanInv, NEW t \in Tasks, Moved(t)
  PROVE  RescanInv'
  <1>. DEFINE w == task[t]
              older == Replaced(t)
  <1>1. /\ round' = round + 1 /\ current' = 0 /\ verifs' = older /\ window' = window /\ DoneBefore(t)
        /\ "free" \notin w.stale => ~(Unfinished /\ Scanning(current))
    BY DEF Moved, RescanInv, StillSo
  <1>2. /\ older \in Seq(Verification) /\ DOMAIN older = DOMAIN verifs /\ Len(older) = Len(verifs)
        /\ \A i \in DOMAIN verifs :
             /\ older[i].round = verifs[i].round /\ older[i].turn = verifs[i].turn
             /\ older[i].entry = verifs[i].entry /\ older[i].finished = verifs[i].finished
             /\ older[i].stale = verifs[i].stale
             /\ older[i].overtaken = (verifs[i].overtaken \/ (i = current /\ "free" \in w.stale))
    BY ReplacedOnly
  <1>. HIDE DEF older, w
  <1>3. task' \in [Tasks -> Work] /\ \A s \in Tasks : StillSo(task[s])'
    BY <1>1, <1>2, DoneKeepsOthers
  <1>4. RescanTypes'
    BY <1>1, <1>2, <1>3 DEF RescanInv, RescanTypes
  <1>5. \A i \in DOMAIN verifs : verifs[i].round \in Nat /\ verifs[i].round <= round
    <2>1. \A i \in DOMAIN verifs : verifs[i] \in Verification
      BY DEF RescanInv, RescanTypes
    <2>. QED
      BY <2>1 DEF RescanInv, RoundsOK, Verification
  <1>6. RoundsOK' /\ window.round # round + 1
    BY <1>1, <1>2, <1>5 DEF RescanInv, RescanTypes, RoundsOK, Windows
  <1>7. ScansAreFollowed'
    <2>. SUFFICES ASSUME NEW i \in DOMAIN verifs, Scanning(i)'
                  PROVE  ~verifs'[i].finished /\ verifs'[i].overtaken
      BY <1>1, <1>2 DEF ScansAreFollowed
    <2>1. Scanning(i)
      BY <1>1, <1>2 DEF Scanning
    <2>2. ~verifs[i].finished /\ (i = current \/ verifs[i].overtaken)
      BY <2>1 DEF RescanInv, RoundsKeepTheirRescan, ScansAreFollowed
    <2>3. i = current => Unfinished /\ Scanning(current)
      BY <2>1, <2>2 DEF Unfinished, RescanInv, RescanTypes
    <2>. QED
      BY <1>1, <1>2, <2>2, <2>3
  <1>8. OneTurnPerRound'
    BY <1>1, <1>2 DEF RescanInv, RoundsKeepTheirRescan, OneTurnPerRound
  <1>9. UsedWindowIsVerified'
    BY <1>1, <1>6 DEF UsedWindowIsVerified, InWindow
  <1>. QED
    BY <1>3, <1>4, <1>6, <1>7, <1>8, <1>9 DEF RescanInv, RoundsKeepTheirRescan

(* A task begins, or gives up, and what it found is so. *)
LEMMA BegunKeepsRescan ==
  ASSUME RescanInv, NEW t \in Tasks,
         \/ Follow(t) \/ ByDeveloper(t) \/ DeveloperStarts(t)
         \/ Fails(t) \/ ByAdministrator(t) \/ NextRound(t)
  PROVE  RescanInv'
  <1>. SUFFICES \E w \in Work : Become(t, w) /\ StillSo(w) /\ UNCHANGED <<round, window, verifs, current>>
    <2>1. PICK w \in Work : Become(t, w) /\ StillSo(w) /\ UNCHANGED <<round, window, verifs, current>>
      OBVIOUS
    <2>2. GetsOn
      BY <2>1, NothingGetsOn
    <2>3. StillSo(w)'
      BY <2>1, <2>2, FoundIsSo
    <2>. QED
      BY <2>1, <2>2, <2>3, GettingOnKeepsRescan DEF RescanInv, RescanTypes, RoundsOK
  <1>. USE DEF Work, Idle, StillSo, Guards
  <1>1. /\ task[t] \in Work /\ StillSo(task[t]) /\ Idle \in Work
        /\ current \in Nat /\ window.nr \in Nat
        /\ Unfinished => current \in DOMAIN verifs
    BY DEF RescanInv, RescanTypes, Windows, Unfinished
  <1>2. CASE Follow(t)
    BY <1>1, <1>2 DEF Follow
  <1>3. CASE ByDeveloper(t)
    BY <1>1, <1>3 DEF ByDeveloper
  <1>4. CASE DeveloperStarts(t)
    BY <1>1, <1>4 DEF DeveloperStarts, MayStart
  <1>5. CASE Fails(t)
    BY <1>1, <1>5 DEF Fails
  <1>6. CASE ByAdministrator(t)
    BY <1>1, <1>6 DEF ByAdministrator, MayStart
  <1>7. CASE NextRound(t)
    BY <1>1, <1>7 DEF NextRound
  <1>. QED
    BY <1>2, <1>3, <1>4, <1>5, <1>6, <1>7

(* The developers' window opens, is called off, or its rescan begins. *)
LEMMA WindowKeepsRescan ==
  ASSUME RescanInv, NEW t \in Tasks, StepOnly(t) \/ Opened(t)
  PROVE  RescanInv'
  <1>1. GetsOn
    BY NothingGetsOn DEF StepOnly, Opened
  <1>2. CASE Opened(t)
    <2>1. /\ window' = [open |-> TRUE, nr |-> window.nr + 1, round |-> round, started |-> FALSE]
          /\ Become(t, Idle) /\ UNCHANGED <<round, verifs, current>>
      BY <1>2 DEF Opened
    <2>2. Idle \in Work /\ StillSo(Idle)'
      BY DEF Work, Idle, StillSo, Guards
    <2>3. window' \in Windows /\ window'.round <= round /\ ~window'.started
      BY <2>1 DEF RescanInv, RescanTypes, Windows
    <2>. QED
      BY <1>1, <2>1, <2>2, <2>3, GettingOnKeepsRescan
  <1>3. CASE StepOnly(t)
    BY <1>1, <1>3, StepKeepsRescan DEF StepOnly
  <1>. QED
    BY <1>2, <1>3

(* Each round keeps its rescan: the developers' turn of a round is taken    *)
(* once, only the report's own verification still scans, and no window      *)
(* counts as used in a round without one (server.js, rescan-window.js);     *)
(* except for one that was asked for while another had passed the same      *)
(* guards and was noted first.  For any projects, rounds, windows, people,  *)
(* failures and answers, whatever is under way at once.                     *)
THEOREM RoundsAreRescannedOnce == Spec => []RoundsKeepTheirRescan
  <1>1. RescanInv /\ [Next]_vars => RescanInv'
    <2>. SUFFICES ASSUME RescanInv, [Next]_vars PROVE RescanInv'
      OBVIOUS
    <2>1. CASE Refresh \/ TimePasses \/ UNCHANGED vars
      <3>1. UNCHANGED <<round, window, verifs, current, task>>
        BY <2>1 DEF Refresh, TimePasses, vars
      <3>. QED
        BY <3>1 DEF RescanInv, RescanTypes, RoundsOK, StillSo, Unfinished, Scanning, RoundVerified,
               RoundsKeepTheirRescan, OneTurnPerRound, ScansAreFollowed, UsedWindowIsVerified, InWindow
    <2>2. ASSUME NEW t \in Tasks,
                 \/ Follow(t) \/ StepOnly(t) \/ Answered(t)
                 \/ ByDeveloper(t) \/ ByAdministrator(t) \/ NextRound(t)
          PROVE  RescanInv'
      BY <2>2, BegunKeepsRescan, WindowKeepsRescan, PollKeepsRescan, ResultKeepsRescan,
         LaunchKeepsRescan, MovedKeepsRescan DEF Answered
    <2>. QED
      BY <2>1, <2>2 DEF Next
  <1>2. RescanInv => RoundsKeepTheirRescan
    BY DEF RescanInv
  <1>. QED
    BY <1>1, <1>2, RescanInit, PTL DEF Spec

-----------------------------------------------------------------------------
(* The parts of Office.tla side by side: rescans and sign-ins each take only *)
(* steps of their own specification.                                        *)
THEOREM OfficePartsAreThemselves == AllSpec => Spec /\ Sign!Spec
  <1>1. AllInit => Init /\ Sign!Init
    BY DEF AllInit
  <1>2. UNCHANGED signVars => UNCHANGED Sign!vars
    BY DEF signVars, Sign!vars, Sign!memory, Sign!disk, Sign!history
  <1>3. [AllNext]_all => [Next]_vars /\ [Sign!Next]_(Sign!vars)
    BY <1>2 DEF AllNext, all
  <1>. QED
    BY <1>1, <1>3, PTL DEF AllSpec, Spec, Sign!Spec
===============================================================================
