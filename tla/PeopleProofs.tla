----------------------------- MODULE PeopleProofs -----------------------------
(***************************************************************************)
(* Accounts and roles, a forgotten password, reminders and rescans         *)
(* (People.tla), for any number of accounts, requests, browsers, links,    *)
(* projects, messages, rounds, restarts and runs of the command.  Each is  *)
(* proved of its own specification, and the behaviours of People are       *)
(* behaviours of each.                                                     *)
(*                                                                         *)
(* Accounts: that an Admin remains is not inductive, as a request whose    *)
(* password is being hashed will add an account to whatever is in memory   *)
(* by then, and the command will write what it read.  So the same is said  *)
(* of what is in memory and of what the command holds, and that an account *)
(* being made fits into both.                                              *)
(*                                                                         *)
(* Links: a browser that awaits something is the only one, and its link    *)
(* has set no password.                                                    *)
(*                                                                         *)
(* Reminders: whatever people were told is noted, or the pass under way    *)
(* still knows of it, and its own message is not to be sent again.         *)
(*                                                                         *)
(* Rescans: proved in OfficeProofs.tla, of any tracked report.             *)
(***************************************************************************)
EXTENDS People, TLAPS


(* What may be stored: `ids` were ever made, `rc` are the races so far. *)
Sound(s, ids, rc) ==
  /\ s \in States
  /\ Users(s) \subseteq ids
  /\ Active(s) # {}
  /\ \A i, j \in Users(s) :
       i # j /\ s.users[i].address = s.users[j].address => s.users[i].address \in rc
  /\ \A i \in Users(s) : s.users[i].role \in s.roles \cup {"admin"} \cup rc

(* The account that q is making has a place there. *)
Room(s, q, rc) ==
  /\ q.id \notin Users(s)
  /\ Taken(s, q.address) => q.address \in rc
  /\ q.role \in s.roles \cup {"admin"} \cup rc

Making(q) ==
  q.pc = "hashing" /\ q.id \in Ids /\ q.address \in Addresses /\ q.role \in Custom \cup {"admin"}

(* Accounts being made: none twice, and with a place in s. *)
HashingOK(s, q, ids, rc) == q.pc = "hashing" => Making(q) /\ q.id \in ids /\ Room(s, q, rc)

(* What the command read, and will write. *)
CliOK ==
  cli.who # None /\ cli.state # None =>
    /\ Sound(cli.state, made, raced)
    /\ cli.who \in Users(cli.state)
    /\ \A r \in Hashing : req[r].id \notin Users(cli.state)

Requesting ==
  [pc : {"idle", "admitted", "hashing"}, actor : Ids \cup {None}, id : Ids \cup {None},
   address : Addresses \cup {None}, role : Custom \cup {"admin", None}]

IInv ==
  /\ req \in [Requests -> Requesting]
  /\ \A q, r \in Hashing : q # r => req[q].id # req[r].id
  /\ seen => mem = file
  /\ \A s \in {file, mem} :
       Sound(s, made, raced) /\ \A r \in Requests : HashingOK(s, req[r], made, raced)
  /\ CliOK

-----------------------------------------------------------------------------
(* A stored state has its parts, and its users are accounts. *)
LEMMA StateType ==
  ASSUME NEW s \in States
  PROVE  /\ s.users \in [Ids -> Account \cup {None}] /\ s.roles \in SUBSET Custom
         /\ \A i \in Ids : i \in Users(s) <=> s.users[i] # None
         /\ \A i \in Users(s) : i \in Ids /\ s.users[i] \in Account
         /\ \A i : i \in Active(s) <=>
              i \in Users(s) /\ s.users[i].role = "admin" /\ ~s.users[i].disabled
  BY DEF States, Users, Active

(* One account stored. *)
LEMMA SetUser ==
  ASSUME NEW s \in States, NEW i \in Ids, NEW u \in Account
  PROVE  LET t == [s EXCEPT !.users[i] = u]
         IN  /\ t \in States /\ t.roles = s.roles
             /\ t.users[i] = u /\ \A j \in Ids \ {i} : t.users[j] = s.users[j]
             /\ Users(t) = Users(s) \cup {i}
  <1>. DEFINE t == [s EXCEPT !.users[i] = u]
  <1>1. t \in States /\ t.roles = s.roles /\ t.users = [s.users EXCEPT ![i] = u]
    BY DEF States
  <1>2. t.users[i] = u /\ \A j \in Ids \ {i} : t.users[j] = s.users[j]
    BY <1>1, StateType
  <1>. HIDE DEF t
  <1>3. Users(t) = Users(s) \cup {i}
    BY <1>2, AccountsAssumption DEF Users
  <1>. QED
    BY <1>1, <1>2, <1>3 DEF t

(* One removed. *)
LEMMA RemoveUser ==
  ASSUME NEW s \in States, NEW i \in Ids
  PROVE  LET t == [s EXCEPT !.users[i] = None]
         IN  /\ t \in States /\ t.roles = s.roles
             /\ \A j \in Ids \ {i} : t.users[j] = s.users[j]
             /\ Users(t) = Users(s) \ {i}
  <1>. DEFINE t == [s EXCEPT !.users[i] = None]
  <1>1. t \in States /\ t.roles = s.roles /\ t.users = [s.users EXCEPT ![i] = None]
    BY DEF States
  <1>2. t.users[i] = None /\ \A j \in Ids \ {i} : t.users[j] = s.users[j]
    BY <1>1, StateType
  <1>. HIDE DEF t
  <1>3. Users(t) = Users(s) \ {i}
    BY <1>2 DEF Users
  <1>. QED
    BY <1>1, <1>2, <1>3 DEF t

(* What was sound stays so as more accounts are made and more races seen. *)
LEMMA StaysSound ==
  ASSUME NEW s, NEW ids, NEW jds, NEW rc, NEW sc, Sound(s, ids, rc), ids \subseteq jds, rc \subseteq sc
  PROVE  Sound(s, jds, sc)
  BY DEF Sound

(* An account changed where another active Admin remains, or it is one. *)
LEMMA ChangedIsSound ==
  ASSUME NEW s, NEW ids, NEW rc, Sound(s, ids, rc), NEW i \in Users(s), NEW u \in Account,
         NEW t \in States, t.roles = s.roles, Users(t) = Users(s),
         t.users[i] = u, \A j \in Ids \ {i} : t.users[j] = s.users[j],
         (u.role = "admin" /\ u.disabled = FALSE) \/ ~LastAdmin(s, i),
         \A j \in Users(s) \ {i} : s.users[j].address = u.address => u.address \in rc,
         u.role \in s.roles \cup {"admin"} \cup rc
  PROVE  Sound(t, ids, rc)
  <1>1. s \in States /\ i \in Ids
    BY DEF Sound, Users
  <1>2. /\ t \in States /\ t.roles = s.roles
        /\ t.users[i] = u /\ \A j \in Ids \ {i} : t.users[j] = s.users[j]
        /\ Users(t) = Users(s)
    OBVIOUS
  <1>3. Active(t) # {}
    <2>1. CASE u.role = "admin" /\ u.disabled = FALSE
      BY <1>1, <1>2, <2>1, StateType
    <2>2. CASE ~LastAdmin(s, i)
      <3>1. PICK j \in Active(s) : j # i
        BY <2>2 DEF Sound, LastAdmin
      <3>. QED
        BY <1>1, <1>2, <3>1, StateType
    <2>. QED
      BY <2>1, <2>2
  <1>4. \A j, k \in Users(t) :
          j # k /\ t.users[j].address = t.users[k].address => t.users[j].address \in rc
    <2>. SUFFICES ASSUME NEW j \in Users(t), NEW k \in Users(t), j # k,
                         t.users[j].address = t.users[k].address
                  PROVE  t.users[j].address \in rc
      OBVIOUS
    <2>1. j \in Ids /\ k \in Ids
      BY DEF Users
    <2>. QED
      BY <1>2, <2>1 DEF Sound
  <1>5. \A j \in Users(t) : t.users[j].role \in t.roles \cup {"admin"} \cup rc
    BY <1>2 DEF Sound, Users
  <1>. QED
    BY <1>2, <1>3, <1>4, <1>5 DEF Sound

(* A state is saved whose accounts are sound and leave those being made    *)
(* their place.                                                            *)
LEMMA SavedKeepsIInv ==
  ASSUME IInv, NEW s, Save(s), UNCHANGED <<cli, made>>, raced \subseteq raced',
         Sound(s, made, raced'),
         NEW x \in Requests, Done(x),
         \A r \in Hashing \ {x} : Room(s, req[r], raced')
  PROVE  IInv'
  <1>1. req' \in [Requests -> Requesting]
    BY DEF IInv, Requesting, Done, Idle
  <1>2. \A r \in Requests : IF r = x THEN req'[r].pc = "idle" ELSE req'[r] = req[r]
    BY DEF IInv, Done, Idle
  <1>3. Hashing' = Hashing \ {x}
    BY <1>2 DEF Hashing
  <1>4. \A q, r \in Hashing' : q # r => req'[q].id # req'[r].id
    BY <1>2, <1>3 DEF IInv, Hashing
  <1>5. ASSUME NEW r \in Requests PROVE HashingOK(s, req'[r], made', raced')
    <2>1. CASE r = x
      BY <1>2, <2>1 DEF HashingOK
    <2>2. CASE r # x
      <3>1. HashingOK(file, req[r], made, raced)
        BY DEF IInv
      <3>. QED
        BY <1>2, <2>2, <3>1 DEF HashingOK, Hashing
    <2>. QED
      BY <2>1, <2>2
  <1>6. CliOK'
    <2>. SUFFICES ASSUME cli.who # None, cli.state # None
                  PROVE  /\ Sound(cli.state, made, raced')
                         /\ cli.who \in Users(cli.state)
                         /\ \A r \in Hashing' : req'[r].id \notin Users(cli.state)
      BY DEF CliOK
    <2>1. /\ Sound(cli.state, made, raced) /\ cli.who \in Users(cli.state)
          /\ \A r \in Hashing : req[r].id \notin Users(cli.state)
      BY DEF IInv, CliOK
    <2>2. \A r \in Hashing' : req'[r].id \notin Users(cli.state)
      BY <1>2, <1>3, <2>1 DEF Hashing
    <2>. QED
      BY <2>1, <2>2, StaysSound
  <1>7. mem' = s /\ file' = s
    BY DEF Save
  <1>8. \A v \in {file', mem'} :
          Sound(v, made', raced') /\ \A r \in Requests : HashingOK(v, req'[r], made', raced')
    BY <1>5, <1>7
  <1>. QED
    BY <1>1, <1>4, <1>6, <1>7, <1>8 DEF IInv

(* The state a request sees is sound, and has the place of accounts that   *)
(* are being made.                                                         *)
LEMMA KnownIsSound ==
  ASSUME IInv
  PROVE  /\ Known \in {file, mem} /\ Sound(Known, made, raced)
         /\ \A r \in Hashing : Room(Known, req[r], raced)
  <1>1. Known \in {file, mem}
    BY DEF Known
  <1>. QED
    BY <1>1 DEF IInv, HashingOK, Hashing

(* With its accounts' addresses the same, a state has the same places. *)
LEMMA SameRoom ==
  ASSUME NEW s, NEW t, NEW q, NEW rc, NEW sc, rc \subseteq sc, Room(s, q, rc),
         Users(t) \subseteq Users(s), t.roles = s.roles,
         \A i \in Users(t) : t.users[i].address = s.users[i].address
  PROVE  Room(t, q, sc)
  BY DEF Room, Taken

(* Others' accounts are changed where an active Admin remains. *)
LEMMA ChangeKeepsIInv ==
  ASSUME IInv, NEW r \in Requests, NEW i \in Users(Known), NEW u \in Account,
         u.address = Known.users[i].address,
         u.role \in Known.roles \cup {"admin"} \cup raced,
         (u.role = "admin" /\ u.disabled = FALSE) \/ ~LastAdmin(Known, i),
         Save([Known EXCEPT !.users[i] = u]), Done(r), UNCHANGED <<cli, made, raced>>
  PROVE  IInv'
  <1>. DEFINE s == Known
              t == [s EXCEPT !.users[i] = u]
  <1>1. Sound(s, made, raced) /\ \A q \in Hashing : Room(s, req[q], raced)
    BY KnownIsSound
  <1>2. /\ Save(t) /\ i \in Users(s) /\ u.address = s.users[i].address
        /\ (u.role = "admin" /\ u.disabled = FALSE) \/ ~LastAdmin(s, i)
        /\ u.role \in s.roles \cup {"admin"} \cup raced
    OBVIOUS
  <1>. HIDE DEF s
  <1>3. \A j \in Users(s) \ {i} : s.users[j].address = u.address => u.address \in raced
    BY <1>1, <1>2 DEF Sound
  <1>4. s \in States /\ i \in Ids
    BY <1>1, <1>2 DEF Sound, Users
  <1>5. /\ t \in States /\ t.roles = s.roles
        /\ t.users[i] = u /\ \A j \in Ids \ {i} : t.users[j] = s.users[j]
        /\ Users(t) = Users(s) \cup {i}
    BY <1>4, SetUser
  <1>. HIDE DEF t
  <1>6. Users(t) = Users(s) /\ \A j \in Users(t) : t.users[j].address = s.users[j].address
    BY <1>2, <1>5 DEF Users
  <1>7. Sound(t, made, raced)
    BY <1>1, <1>2, <1>3, <1>5, <1>6, ChangedIsSound
  <1>8. \A q \in Hashing \ {r} : Room(t, req[q], raced)
    BY <1>1, <1>5, <1>6, SameRoom
  <1>. QED
    BY <1>2, <1>7, <1>8, SavedKeepsIInv

(* So it is with their role. *)
LEMMA ChangeRoleKeepsIInv ==
  ASSUME IInv, NEW r \in Requests, NEW i \in Ids, NEW role \in Custom \cup {"admin"},
         ChangeRole(r, i, role)
  PROVE  IInv'
  <1>. DEFINE s == Known
              u == [s.users[i] EXCEPT !.role = role]
  <1>1. /\ i \in Users(s) /\ Save([s EXCEPT !.users[i].role = role]) /\ Done(r)
        /\ UNCHANGED <<cli, made, raced>>
        /\ role \in s.roles \cup {"admin"} /\ (role = "admin" \/ ~LastAdmin(s, i))
    BY DEF ChangeRole, Change
  <1>2. Sound(s, made, raced)
    BY KnownIsSound
  <1>3. s \in States /\ s.users[i] \in Account
    BY <1>1, <1>2, StateType DEF Sound
  <1>4. Save([s EXCEPT !.users[i] = u])
    <2>. HIDE DEF s
    <2>. QED
      BY <1>1, <1>3 DEF States
  <1>5. u \in Account /\ u.role = role /\ u.address = s.users[i].address
        /\ u.disabled = s.users[i].disabled
    <2>. HIDE DEF s
    <2>. QED
      BY <1>3 DEF Account
  <1>6. (u.role = "admin" /\ u.disabled = FALSE) \/ ~LastAdmin(s, i)
    <2>1. LastAdmin(s, i) => s.users[i].disabled = FALSE
      BY <1>3, StateType DEF LastAdmin, Account
    <2>. QED
      BY <1>1, <1>5, <2>1
  <1>. HIDE DEF u
  <1>. QED
    BY <1>1, <1>4, <1>5, <1>6, ChangeKeepsIInv

(* And with their status. *)
LEMMA DisableKeepsIInv ==
  ASSUME IInv, NEW r \in Requests, NEW i \in Ids, NEW disabled \in BOOLEAN,
         Disable(r, i, disabled)
  PROVE  IInv'
  <1>. DEFINE s == Known
              u == [s.users[i] EXCEPT !.disabled = disabled]
  <1>1. /\ i \in Users(s) /\ Save([s EXCEPT !.users[i].disabled = disabled]) /\ Done(r)
        /\ UNCHANGED <<cli, made, raced>>
        /\ disabled => ~LastAdmin(s, i)
    BY DEF Disable, Change
  <1>2. Sound(s, made, raced)
    BY KnownIsSound
  <1>3. s \in States /\ s.users[i] \in Account
    BY <1>1, <1>2, StateType DEF Sound
  <1>4. Save([s EXCEPT !.users[i] = u])
    <2>. HIDE DEF s
    <2>. QED
      BY <1>1, <1>3 DEF States
  <1>5. u \in Account /\ u.role = s.users[i].role /\ u.address = s.users[i].address
        /\ u.disabled = disabled
    <2>. HIDE DEF s
    <2>. QED
      BY <1>3 DEF Account
  <1>6. (u.role = "admin" /\ u.disabled = FALSE) \/ ~LastAdmin(s, i)
    <2>1. LastAdmin(s, i) => s.users[i].role = "admin"
      BY <1>3, StateType DEF LastAdmin
    <2>. QED
      BY <1>1, <1>5, <2>1
  <1>7. u.role \in s.roles \cup {"admin"} \cup raced
    BY <1>1, <1>2, <1>5 DEF Sound
  <1>. HIDE DEF u
  <1>. QED
    BY <1>1, <1>4, <1>5, <1>6, <1>7, ChangeKeepsIInv

(* An account is removed where another is an active Admin. *)
LEMMA DeleteKeepsIInv ==
  ASSUME IInv, NEW r \in Requests, NEW i \in Ids, Delete(r, i)
  PROVE  IInv'
  <1>. DEFINE s == Known
              t == [s EXCEPT !.users[i] = None]
  <1>1. /\ Save(t) /\ Done(r) /\ UNCHANGED <<cli, made, raced>> /\ ~LastAdmin(s, i)
    BY DEF Delete, Change
  <1>2. Sound(s, made, raced) /\ \A q \in Hashing : Room(s, req[q], raced)
    BY KnownIsSound
  <1>. HIDE DEF s
  <1>3. s \in States
    BY <1>2 DEF Sound
  <1>4. /\ t \in States /\ t.roles = s.roles
        /\ \A j \in Ids \ {i} : t.users[j] = s.users[j]
        /\ Users(t) = Users(s) \ {i}
    BY <1>3, RemoveUser
  <1>. HIDE DEF t
  <1>5. \A j \in Users(t) : j \in Users(s) /\ t.users[j] = s.users[j]
    BY <1>4 DEF Users
  <1>6. Active(t) # {}
    <2>1. PICK j \in Active(s) : j # i
      BY <1>1, <1>2 DEF LastAdmin, Sound
    <2>. QED
      BY <1>3, <1>4, <1>5, <2>1, StateType
  <1>7. Sound(t, made, raced)
    BY <1>2, <1>4, <1>5, <1>6 DEF Sound
  <1>8. \A q \in Hashing \ {r} : Room(t, req[q], raced)
    BY <1>2, <1>4, <1>5, SameRoom
  <1>. QED
    BY <1>1, <1>7, <1>8, SavedKeepsIInv

(* An account gets an address that nobody has; where one is being made     *)
(* with it, that is a race.                                                *)
LEMMA ChangeEmailKeepsIInv ==
  ASSUME IInv, NEW r \in Requests, NEW i \in Ids, NEW a \in Addresses, ChangeEmail(r, i, a)
  PROVE  IInv'
  <1>. DEFINE s == Known
              u == [s.users[i] EXCEPT !.address = a]
              t == [s EXCEPT !.users[i] = u]
  <1>1. /\ i \in Users(s) /\ Save([s EXCEPT !.users[i].address = a]) /\ Done(r)
        /\ UNCHANGED <<cli, made>> /\ ~Taken(s, a)
        /\ raced \subseteq raced'
        /\ \A q \in Hashing : req[q].address = a => a \in raced'
    BY DEF ChangeEmail, Change
  <1>2. Sound(s, made, raced) /\ \A q \in Hashing : Room(s, req[q], raced)
    BY KnownIsSound
  <1>. HIDE DEF s
  <1>3. s \in States /\ s.users[i] \in Account
    BY <1>1, <1>2, StateType DEF Sound
  <1>4. Save(t)
    BY <1>1, <1>3 DEF States
  <1>5. /\ u \in Account /\ u.address = a
        /\ u.role = s.users[i].role /\ u.disabled = s.users[i].disabled
    BY <1>3 DEF Account
  <1>. HIDE DEF u
  <1>6. /\ t \in States /\ t.roles = s.roles
        /\ t.users[i] = u /\ \A j \in Ids \ {i} : t.users[j] = s.users[j]
        /\ Users(t) = Users(s) \cup {i}
    BY <1>3, <1>5, SetUser
  <1>. HIDE DEF t
  <1>7. Sound(t, made, raced')
    <2>1. Sound(s, made, raced')
      BY <1>1, <1>2, StaysSound
    <2>2. (u.role = "admin" /\ u.disabled = FALSE) \/ ~LastAdmin(s, i)
      BY <1>3, <1>5, StateType DEF LastAdmin, Account
    <2>3. \A j \in Users(s) \ {i} : s.users[j].address = u.address => u.address \in raced'
      BY <1>1, <1>5 DEF Taken
    <2>4. u.role \in s.roles \cup {"admin"} \cup raced'
      BY <1>1, <1>5, <2>1 DEF Sound
    <2>. QED
      BY <1>1, <1>5, <1>6, <2>1, <2>2, <2>3, <2>4, ChangedIsSound
  <1>8. ASSUME NEW q \in Hashing \ {r} PROVE Room(t, req[q], raced')
    <2>1. Room(s, req[q], raced)
      BY <1>2
    <2>2. Taken(t, req[q].address) => req[q].address = a \/ Taken(s, req[q].address)
      BY <1>1, <1>5, <1>6 DEF Taken, Users
    <2>. QED
      BY <1>1, <1>6, <2>1, <2>2 DEF Room
  <1>. QED
    BY <1>1, <1>4, <1>7, <1>8, SavedKeepsIInv

(* The account that was being made is there; others that are being made    *)
(* have another id, and with the same address it is a race.                *)
LEMMA CreatedKeepsIInv ==
  ASSUME IInv, NEW r \in Requests, Created(r)
  PROVE  IInv'
  <1>. DEFINE q == req[r]
              u == [address |-> q.address, role |-> q.role, disabled |-> FALSE]
              t == [mem EXCEPT !.users[q.id] = u]
  <1>1. /\ r \in Hashing /\ Save(t) /\ Done(r) /\ UNCHANGED <<cli, made>>
        /\ raced \subseteq raced'
        /\ \A x \in Hashing \ {r} : req[x].address = q.address => q.address \in raced'
    BY DEF Created, Hashing
  <1>2. /\ Sound(mem, made, raced) /\ \A x \in Hashing : Room(mem, req[x], raced)
        /\ Making(q) /\ q.id \in made
    BY <1>1 DEF IInv, HashingOK, Hashing
  <1>3. \A x \in Hashing \ {r} : req[x].id # q.id
    BY <1>1 DEF IInv
  <1>4. mem \in States /\ q.id \in Ids
    BY <1>2 DEF Sound, Making
  <1>5. u \in Account /\ u.address = q.address /\ u.role = q.role /\ u.disabled = FALSE
    BY <1>2 DEF Account, Making
  <1>. HIDE DEF u
  <1>6. /\ t \in States /\ t.roles = mem.roles
        /\ t.users[q.id] = u /\ \A j \in Ids \ {q.id} : t.users[j] = mem.users[j]
        /\ Users(t) = Users(mem) \cup {q.id}
    BY <1>4, <1>5, SetUser
  <1>. HIDE DEF q, t
  <1>7. Room(mem, q, raced)
    BY <1>1, <1>2 DEF q
  <1>8. /\ q.id \notin Users(mem)
        /\ \A j \in Users(mem) : j \in Users(t) /\ j # q.id /\ t.users[j] = mem.users[j]
    BY <1>6, <1>7 DEF Room, Users
  <1>9. Sound(t, made, raced')
    <2>1. Sound(mem, made, raced')
      BY <1>1, <1>2, StaysSound
    <2>2. Active(t) # {}
      BY <1>4, <1>6, <1>8, <2>1, StateType DEF Sound
    <2>3. \A j, k \in Users(t) :
            j # k /\ t.users[j].address = t.users[k].address => t.users[j].address \in raced'
      <3>1. \A j \in Users(mem) : mem.users[j].address = q.address => q.address \in raced'
        BY <1>1, <1>7 DEF Room, Taken
      <3>. QED
        BY <1>5, <1>6, <1>8, <2>1, <3>1 DEF Sound
    <2>4. \A j \in Users(t) : t.users[j].role \in t.roles \cup {"admin"} \cup raced'
      BY <1>1, <1>5, <1>6, <1>7, <1>8, <2>1 DEF Sound, Room
    <2>. QED
      BY <1>2, <1>6, <2>1, <2>2, <2>3, <2>4 DEF Sound
  <1>10. ASSUME NEW x \in Hashing \ {r} PROVE Room(t, req[x], raced')
    <2>1. Room(mem, req[x], raced)
      BY <1>2
    <2>2. req[x].id \notin Users(t)
      BY <1>3, <1>6, <2>1 DEF Room
    <2>3. Taken(t, req[x].address) => req[x].address = q.address \/ Taken(mem, req[x].address)
      BY <1>5, <1>6, <1>8 DEF Taken
    <2>. QED
      BY <1>1, <1>6, <2>1, <2>2, <2>3 DEF Room
  <1>. QED
    BY <1>1, <1>9, <1>10, SavedKeepsIInv

(* A role is added, or removed where nobody in memory holds it. *)
LEMMA RolesKeepIInv ==
  ASSUME IInv, NEW r \in Requests, NEW roles \in SUBSET Custom,
         Save([mem EXCEPT !.roles = roles]), Done(r), UNCHANGED <<cli, made>>,
         raced \subseteq raced',
         \A i \in Users(mem) : mem.users[i].role \in mem.roles =>
           mem.users[i].role \in roles \cup {"admin"} \cup raced',
         \A q \in Hashing : req[q].role \in mem.roles =>
           req[q].role \in roles \cup {"admin"} \cup raced'
  PROVE  IInv'
  <1>. DEFINE t == [mem EXCEPT !.roles = roles]
  <1>1. /\ Sound(mem, made, raced) /\ \A q \in Hashing : Room(mem, req[q], raced)
    BY DEF IInv, HashingOK, Hashing
  <1>2. t \in States /\ t.roles = roles /\ t.users = mem.users
    BY <1>1 DEF Sound, States
  <1>3. Save(t)
    OBVIOUS
  <1>. HIDE DEF t
  <1>4. Users(t) = Users(mem) /\ Active(t) = Active(mem)
    BY <1>2 DEF Users, Active
  <1>5. Sound(t, made, raced')
    <2>1. \A i \in Users(t) : t.users[i].role \in t.roles \cup {"admin"} \cup raced'
      BY <1>1, <1>2, <1>4 DEF Sound
    <2>. QED
      BY <1>1, <1>2, <1>4, <2>1 DEF Sound
  <1>6. \A q \in Hashing \ {r} : Room(t, req[q], raced')
    BY <1>1, <1>2, <1>4 DEF Room, Taken
  <1>. QED
    BY <1>3, <1>5, <1>6, SavedKeepsIInv

(* It is added: roles that are held are still there. *)
LEMMA AddRoleKeepsIInv ==
  ASSUME IInv, NEW r \in Requests, NEW role \in Custom, AddRole(r, role)
  PROVE  IInv'
  <1>1. mem \in States
    BY DEF IInv, Sound
  <1>2. mem.roles \cup {role} \in SUBSET Custom
    BY <1>1 DEF States
  <1>3. Save([mem EXCEPT !.roles = mem.roles \cup {role}])
    BY DEF AddRole
  <1>. QED
    BY <1>2, <1>3, RolesKeepIInv DEF AddRole

(* It is removed: an account being made with it is a race. *)
LEMMA DeleteRoleKeepsIInv ==
  ASSUME IInv, NEW r \in Requests, NEW role \in Custom, DeleteRole(r, role)
  PROVE  IInv'
  <1>1. mem \in States
    BY DEF IInv, Sound
  <1>2. mem.roles \ {role} \in SUBSET Custom
    BY <1>1 DEF States
  <1>3. /\ Save([mem EXCEPT !.roles = mem.roles \ {role}]) /\ Done(r) /\ UNCHANGED <<cli, made>>
        /\ raced \subseteq raced'
        /\ \A i \in Users(mem) : mem.users[i].role # role
        /\ \A q \in Hashing : req[q].role = role => role \in raced'
    BY DEF DeleteRole
  <1>. QED
    BY <1>2, <1>3, RolesKeepIInv

(* A step that stores nothing but what the file says, and moves a request. *)
LEMMA RequestKeepsIInv ==
  ASSUME IInv, UNCHANGED <<file, cli, raced>>, mem' \in {mem, Known}, seen' => mem' = file,
         made \subseteq made',
         NEW x \in Requests, NEW q \in Requesting, req' = [req EXCEPT ![x] = q],
         q.pc = "hashing" =>
           Making(q) /\ q.id \in made' \ made /\ \A s \in {file, mem'} : Room(s, q, raced)
  PROVE  IInv'
  <1>1. /\ req' \in [Requests -> Requesting]
        /\ req'[x] = q /\ \A r \in Requests \ {x} : req'[r] = req[r]
    BY DEF IInv
  <1>2. \A r \in Hashing' : r \in Requests /\ req'[r].pc = "hashing" /\ (r # x => r \in Hashing)
    BY <1>1 DEF Hashing
  <1>3. \A r \in Hashing : req[r].id \in made
    BY DEF IInv, HashingOK, Hashing
  <1>4. \A p, r \in Hashing' : p # r => req'[p].id # req'[r].id
    <2>. SUFFICES ASSUME NEW p \in Hashing', NEW r \in Hashing', p # r
                  PROVE  req'[p].id # req'[r].id
      OBVIOUS
    <2>1. CASE p # x /\ r # x
      BY <1>1, <1>2, <2>1 DEF IInv
    <2>2. CASE p = x \/ r = x
      BY <1>1, <1>2, <1>3, <2>2
    <2>. QED
      BY <2>1, <2>2
  <1>5. mem' \in {file, mem}
    BY DEF Known
  <1>6. ASSUME NEW s \in {file', mem'}, NEW r \in Requests
        PROVE  HashingOK(s, req'[r], made', raced')
    <2>1. CASE r = x
      BY <1>1, <2>1 DEF HashingOK
    <2>2. CASE r # x
      <3>1. HashingOK(s, req[r], made, raced)
        BY <1>5 DEF IInv
      <3>. QED
        BY <1>1, <2>2, <3>1 DEF HashingOK
    <2>. QED
      BY <2>1, <2>2
  <1>7. \A s \in {file', mem'} : Sound(s, made', raced')
    BY <1>5, StaysSound DEF IInv
  <1>8. CliOK'
    <2>. SUFFICES ASSUME cli.who # None, cli.state # None
                  PROVE  /\ Sound(cli.state, made', raced)
                         /\ cli.who \in Users(cli.state)
                         /\ \A r \in Hashing' : req'[r].id \notin Users(cli.state)
      BY DEF CliOK
    <2>1. /\ Sound(cli.state, made, raced) /\ cli.who \in Users(cli.state)
          /\ \A r \in Hashing : req[r].id \notin Users(cli.state)
      BY DEF IInv, CliOK
    <2>2. \A r \in Hashing' : req'[r].id \notin Users(cli.state)
      BY <1>1, <1>2, <2>1 DEF Sound
    <2>. QED
      BY <2>1, <2>2, StaysSound
  <1>. QED
    BY <1>1, <1>4, <1>6, <1>7, <1>8 DEF IInv

(* A request is admitted. *)
LEMMA AdmitKeepsIInv ==
  ASSUME IInv, NEW r \in Requests, NEW i \in Ids, Admit(r, i)
  PROVE  IInv'
  <1>. DEFINE q == [Idle EXCEPT !.pc = "admitted", !.actor = i]
  <1>1. q \in Requesting /\ q.pc = "admitted"
    BY DEF Idle, Requesting
  <1>2. req' = [req EXCEPT ![r] = q] /\ mem' = Known /\ UNCHANGED <<file, cli, made, raced>>
    BY DEF Admit
  <1>3. seen' => mem' = file
    BY <1>2 DEF Known, IInv
  <1>. HIDE DEF q
  <1>. QED
    BY <1>1, <1>2, <1>3, RequestKeepsIInv

(* It ends with a refusal. *)
LEMMA RefusedKeepsIInv ==
  ASSUME IInv, NEW r \in Requests, Refused(r)
  PROVE  IInv'
  <1>1. Idle \in Requesting /\ Idle.pc = "idle"
    BY DEF Idle, Requesting
  <1>2. req' = [req EXCEPT ![r] = Idle] /\ UNCHANGED <<file, mem, seen, cli, made, raced>>
    BY DEF Refused, Done, stored
  <1>3. seen' => mem' = file
    BY <1>2 DEF IInv
  <1>. QED
    BY <1>1, <1>2, <1>3, RequestKeepsIInv

(* An account begins to be made, with an id of its own, an address nobody  *)
(* has and a role that exists.                                             *)
LEMMA CreateKeepsIInv ==
  ASSUME IInv, NEW r \in Requests, NEW i \in Ids, NEW a \in Addresses,
         NEW role \in Custom \cup {"admin"}, Create(r, i, a, role)
  PROVE  IInv'
  <1>. DEFINE q == [req[r] EXCEPT !.pc = "hashing", !.id = i, !.address = a, !.role = role]
  <1>1. req[r] \in Requesting
    BY DEF IInv
  <1>2. /\ q \in Requesting
        /\ q.pc = "hashing" /\ q.id = i /\ q.address = a /\ q.role = role
    BY <1>1 DEF Requesting
  <1>3. /\ req' = [req EXCEPT ![r] = q] /\ mem' = Known /\ UNCHANGED <<file, cli, raced>>
        /\ made' = made \cup {i} /\ i \notin made /\ ~Taken(Known, a)
        /\ role \in Known.roles \cup {"admin"}
    BY <1>1 DEF Create
  <1>4. Known = file
    BY DEF Known, IInv
  <1>5. Sound(file, made, raced)
    BY DEF IInv
  <1>. HIDE DEF q
  <1>6. Making(q) /\ \A s \in {file, mem'} : Room(s, q, raced)
    BY <1>2, <1>3, <1>4, <1>5 DEF Making, Room, Sound
  <1>. QED
    BY <1>2, <1>3, <1>4, <1>6, RequestKeepsIInv

(* The command reads the file. *)
LEMMA CliStartsKeepsIInv ==
  ASSUME IInv, NEW i \in Ids, CliStarts(i)
  PROVE  IInv'
  <1>1. /\ cli' = [who |-> i, state |-> file] /\ i \in Users(file)
        /\ UNCHANGED <<file, mem, seen, req, made, raced>>
    BY DEF CliStarts, stored
  <1>2. Hashing' = Hashing
    BY <1>1 DEF Hashing
  <1>3. Sound(file, made, raced) /\ \A r \in Hashing : Room(file, req[r], raced)
    BY DEF IInv, HashingOK, Hashing
  <1>4. CliOK'
    BY <1>1, <1>2, <1>3 DEF CliOK, Room
  <1>. QED
    BY <1>1, <1>2, <1>4 DEF IInv

(* It writes what it read; the accounts being made that find their address *)
(* taken, or their role gone, are races.                                   *)
LEMMA CliWritesKeepsIInv ==
  ASSUME IInv, CliWrites
  PROVE  IInv'
  <1>. DEFINE s == cli.state
  <1>1. /\ cli.who # None /\ s # None /\ file' = s /\ seen' = FALSE
        /\ cli' = [who |-> cli.who, state |-> None] /\ UNCHANGED <<mem, req, made>>
        /\ raced \subseteq raced'
        /\ \A q \in Hashing : req[q].role \notin s.roles \cup {"admin"} => req[q].role \in raced'
        /\ \A q \in Hashing : Taken(s, req[q].address) => req[q].address \in raced'
    BY DEF CliWrites
  <1>2. Sound(s, made, raced) /\ \A q \in Hashing : req[q].id \notin Users(s)
    BY <1>1 DEF IInv, CliOK
  <1>3. \A q \in Hashing : Room(s, req[q], raced')
    BY <1>1, <1>2 DEF Room
  <1>4. \A q \in Hashing : Making(req[q]) /\ req[q].id \in made /\ Room(mem, req[q], raced)
    BY DEF IInv, HashingOK, Hashing
  <1>5. Hashing' = Hashing
    BY <1>1 DEF Hashing
  <1>6. Sound(s, made, raced') /\ Sound(mem, made, raced')
    BY <1>1, <1>2, StaysSound DEF IInv
  <1>7. \A v \in {file', mem'} : \A r \in Requests : HashingOK(v, req'[r], made', raced')
    BY <1>1, <1>3, <1>4 DEF HashingOK, Hashing, Room
  <1>8. CliOK'
    BY <1>1 DEF CliOK
  <1>. QED
    BY <1>1, <1>5, <1>6, <1>7, <1>8 DEF IInv

(* It enables an Admin: whose accounts and addresses stay as they are. *)
LEMMA CliEnablesKeepsIInv ==
  ASSUME IInv, CliEnables
  PROVE  IInv'
  <1>. DEFINE s == file
              i == cli.who
              u == [s.users[i] EXCEPT !.disabled = FALSE]
              t == [s EXCEPT !.users[i] = u]
  <1>1. /\ cli' = NoCli /\ UNCHANGED <<mem, req, made, raced>>
        /\ \/ UNCHANGED <<file, seen>>
           \/ /\ i \in Users(s) /\ s.users[i].role = "admin" /\ seen' = FALSE
              /\ file' = [s EXCEPT !.users[i].disabled = FALSE]
    BY DEF CliEnables
  <1>2. CliOK'
    BY <1>1 DEF CliOK, NoCli
  <1>3. Hashing' = Hashing
    BY <1>1 DEF Hashing
  <1>4. CASE UNCHANGED <<file, seen>>
    BY <1>1, <1>2, <1>3, <1>4 DEF IInv
  <1>5. CASE /\ i \in Users(s) /\ s.users[i].role = "admin" /\ seen' = FALSE
             /\ file' = [s EXCEPT !.users[i].disabled = FALSE]
    <2>1. Sound(s, made, raced) /\ \A q \in Hashing : Making(req[q]) /\ req[q].id \in made
                                        /\ Room(s, req[q], raced)
      BY DEF IInv, HashingOK, Hashing
    <2>. HIDE DEF s, i
    <2>2. s \in States /\ i \in Ids /\ s.users[i] \in Account
      BY <1>5, <2>1, StateType DEF Sound
    <2>3. file' = t
      BY <1>5, <2>2 DEF States
    <2>4. /\ u \in Account /\ u.address = s.users[i].address
          /\ u.role = s.users[i].role /\ u.disabled = FALSE
      BY <2>2 DEF Account
    <2>. HIDE DEF u
    <2>5. /\ t \in States /\ t.roles = s.roles
          /\ t.users[i] = u /\ \A j \in Ids \ {i} : t.users[j] = s.users[j]
          /\ Users(t) = Users(s) \cup {i}
      BY <2>2, <2>4, SetUser
    <2>. HIDE DEF t
    <2>6. Users(t) = Users(s) /\ \A j \in Users(t) : t.users[j].address = s.users[j].address
      BY <1>5, <2>4, <2>5 DEF Users
    <2>7. \A j \in Users(s) \ {i} : s.users[j].address = u.address => u.address \in raced
      BY <1>5, <2>1, <2>4 DEF Sound
    <2>8. Sound(t, made, raced)
      BY <1>5, <2>1, <2>2, <2>4, <2>5, <2>6, <2>7, ChangedIsSound
    <2>9. \A q \in Hashing : Room(t, req[q], raced)
      BY <2>1, <2>5, <2>6, SameRoom
    <2>10. \A v \in {file', mem'} :
             Sound(v, made', raced') /\ \A r \in Requests : HashingOK(v, req'[r], made', raced')
      BY <1>1, <2>1, <2>3, <2>8, <2>9 DEF IInv, HashingOK, Hashing
    <2>. QED
      BY <1>1, <1>2, <1>3, <1>5, <2>10 DEF IInv
  <1>. QED
    BY <1>1, <1>4, <1>5

(* The first administrator, and no one else. *)
LEMMA InitIInv == Init => IInv
  <1>. SUFFICES ASSUME Init PROVE IInv
    OBVIOUS
  <1>1. PICK i \in Ids, a \in Addresses :
          file = [users |-> [[j \in Ids |-> None] EXCEPT ![i] =
                    [address |-> a, role |-> "admin", disabled |-> FALSE]],
                  roles |-> Custom]
    BY DEF Init
  <1>2. [address |-> a, role |-> "admin", disabled |-> FALSE] \in Account
    BY DEF Account
  <1>3. /\ file \in States /\ file.roles = Custom
        /\ file.users[i] = [address |-> a, role |-> "admin", disabled |-> FALSE]
        /\ \A j \in Ids \ {i} : file.users[j] = None
    BY <1>1, <1>2 DEF States
  <1>4. Users(file) = {i}
    BY <1>2, <1>3, AccountsAssumption DEF Users
  <1>5. Sound(file, made, raced)
    <2>1. Active(file) # {}
      BY <1>3, <1>4 DEF Active
    <2>2. \A j \in Users(file) : file.users[j].role = "admin"
      BY <1>3, <1>4
    <2>. QED
      BY <1>3, <1>4, <2>1, <2>2 DEF Sound, Init
  <1>6. req = [r \in Requests |-> Idle] /\ Idle \in Requesting /\ Idle.pc = "idle"
    BY DEF Init, Idle, Requesting
  <1>7. Hashing = {} /\ \A r \in Requests : HashingOK(file, req[r], made, raced)
    BY <1>6 DEF Hashing, HashingOK
  <1>8. CliOK
    BY DEF CliOK, Init, NoCli
  <1>. QED
    BY <1>5, <1>6, <1>7, <1>8 DEF IInv, Init

(* No step breaks it. *)
LEMMA StepKeepsIInv == IInv /\ [Next]_vars => IInv'
  <1>. SUFFICES ASSUME IInv, [Next]_vars PROVE IInv'
    OBVIOUS
  <1>. USE DEF Next
  <1>1. CASE \E r \in Requests : Created(r) \/ Refused(r)
    BY <1>1, CreatedKeepsIInv, RefusedKeepsIInv
  <1>2. CASE \E r \in Requests, i \in Ids : Admit(r, i) \/ Delete(r, i)
    BY <1>2, AdmitKeepsIInv, DeleteKeepsIInv
  <1>3. CASE \E r \in Requests, i \in Ids, role \in Custom \cup {"admin"} : ChangeRole(r, i, role)
    BY <1>3, ChangeRoleKeepsIInv
  <1>4. CASE \E r \in Requests, i \in Ids, disabled \in BOOLEAN : Disable(r, i, disabled)
    BY <1>4, DisableKeepsIInv
  <1>5. CASE \E r \in Requests, i \in Ids, a \in Addresses : ChangeEmail(r, i, a)
    BY <1>5, ChangeEmailKeepsIInv
  <1>6. CASE \E r \in Requests, i \in Ids, a \in Addresses, role \in Custom \cup {"admin"} :
               Create(r, i, a, role)
    BY <1>6, CreateKeepsIInv
  <1>7. CASE \E r \in Requests, role \in Custom : AddRole(r, role) \/ DeleteRole(r, role)
    BY <1>7, AddRoleKeepsIInv, DeleteRoleKeepsIInv
  <1>8. CASE CliWrites \/ CliEnables
    BY <1>8, CliWritesKeepsIInv, CliEnablesKeepsIInv
  <1>9. CASE \E i \in Ids : CliStarts(i)
    BY <1>9, CliStartsKeepsIInv
  <1>10. CASE UNCHANGED vars
    <2>1. UNCHANGED <<file, mem, seen, req, cli, made, raced>>
      BY <1>10 DEF vars, stored
    <2>. QED
      BY <2>1 DEF IInv, CliOK, Hashing
  <1>. QED
    BY <1>1, <1>2, <1>3, <1>4, <1>5, <1>6, <1>7, <1>8, <1>9, <1>10

(* Everything stored is sound, through every order of requests, hashes and *)
(* runs of the command.                                                    *)
THEOREM AccountsAreSound == Spec => []IInv
  BY InitIInv, StepKeepsIInv, PTL DEF Spec

(* "There must always be at least one active Admin" (iam.js): in the file  *)
(* and in what the server goes by.                                         *)
THEOREM AnAdminRemains == Spec => []AlwaysAnAdmin
  <1>1. IInv => AlwaysAnAdmin
    BY KnownIsSound DEF IInv, Sound, AlwaysAnAdmin
  <1>. QED
    BY <1>1, AccountsAreSound, PTL

(* An address has one account and a role that is held exists, unless they  *)
(* were taken or removed while an account with them was being made.        *)
THEOREM AddressesAndRolesAgree == Spec => []AccountsAgree
  <1>1. IInv => AccountsAgree
    BY DEF IInv, Sound, AccountsAgree, OneAccountEach, HeldRolesExist
  <1>. QED
    BY <1>1, AccountsAreSound, PTL

-----------------------------------------------------------------------------
(* A forgotten password (PasswordReset.tla). *)

(* Which link there may be, and what was set with it. *)
LinksOK ==
  /\ given \in Nat
  /\ links \subseteq {given} /\ links \subseteq 1..given
  /\ over \subseteq 1..given /\ links \cap over = {}
  /\ setWith \in [Reset!Links -> Nat]
  /\ \A l \in Reset!Links :
       /\ setWith[l] <= 1
       /\ l \in links \/ l > given => setWith[l] = 0

(* A browser that is setting a password is the only one, with a link that  *)
(* set none.                                                               *)
TabOK(t) ==
  t.pc # "idle" =>
    /\ inUse = TRUE
    /\ t.link \in Reset!Links /\ t.link <= given /\ setWith[t.link] = 0

ResetInv ==
  /\ LinksOK
  /\ tab \in [Tabs -> [pc : {"idle", "comparing", "hashing"}, link : Reset!Links \cup {0}]]
  /\ \A t \in Tabs : TabOK(tab[t])
  /\ \A t, u \in Tabs : tab[t].pc # "idle" /\ tab[u].pc # "idle" => t = u

(* No link at first. *)
LEMMA ResetInit == Reset!Init => ResetInv
  BY DEF Reset!Init, Reset!Idle, ResetInv, LinksOK, TabOK

(* A link is issued, and no other goes on. *)
LEMMA IssueKeepsReset ==
  ASSUME ResetInv, Reset!Issue
  PROVE  ResetInv'
  <1>1. /\ given' = given + 1 /\ links' = {given + 1} /\ over' = over \cup links
        /\ UNCHANGED <<setWith, inUse, tab>>
    BY DEF Reset!Issue, Reset!Mailed, Reset!account
  <1>2. /\ given \in Nat /\ links \subseteq 1..given /\ over \subseteq 1..given
        /\ setWith \in [Reset!Links -> Nat]
        /\ \A l \in Reset!Links : l \in Nat /\ setWith[l] <= 1 /\ (l > given => setWith[l] = 0)
    BY DEF ResetInv, LinksOK, Reset!Links
  <1>3. given' \in Nat /\ links' \subseteq 1..given' /\ over' \subseteq 1..given'
    BY <1>1, <1>2
  <1>4. links' \cap over' = {}
    BY <1>1, <1>2
  <1>5. \A l \in Reset!Links : setWith[l] <= 1 /\ (l \in links' \/ l > given' => setWith[l] = 0)
    BY <1>1, <1>2
  <1>6. LinksOK'
    BY <1>1, <1>2, <1>3, <1>4, <1>5 DEF LinksOK
  <1>7. \A t \in Tabs : TabOK(tab[t])'
    BY <1>1, <1>2 DEF ResetInv, TabOK
  <1>. QED
    BY <1>1, <1>6, <1>7 DEF ResetInv

(* Links end, without a password being set. *)
LEMMA EndsKeepReset ==
  ASSUME ResetInv, NEW ls \in SUBSET links, links' = links \ ls, over' = over \cup ls,
         UNCHANGED <<given, setWith>>,
         UNCHANGED <<inUse, tab>> \/ tab' = [t \in Tabs |-> Reset!Idle]
  PROVE  ResetInv'
  <1>1. LinksOK'
    BY DEF ResetInv, LinksOK
  <1>2. CASE UNCHANGED <<inUse, tab>>
    BY <1>1, <1>2 DEF ResetInv, TabOK
  <1>3. CASE tab' = [t \in Tabs |-> Reset!Idle]
    BY <1>1, <1>3 DEF ResetInv, TabOK, Reset!Idle
  <1>. QED
    BY <1>2, <1>3

(* A browser begins, when no other has. *)
LEMMA ConfirmKeepsReset ==
  ASSUME ResetInv, NEW t \in Tabs, NEW l \in Reset!Links, Reset!Confirm(t, l)
  PROVE  ResetInv'
  <1>1. /\ inUse # TRUE /\ l \in links /\ inUse' = TRUE
        /\ tab' = [tab EXCEPT ![t] = [pc |-> "comparing", link |-> l]]
        /\ UNCHANGED <<links, given, over, setWith>>
    BY DEF Reset!Confirm, Reset!Compare, Reset!Works, Reset!account
  <1>2. \A u \in Tabs : tab[u].pc = "idle"
    BY <1>1 DEF ResetInv, TabOK
  <1>3. LinksOK'
    BY <1>1 DEF ResetInv, LinksOK
  <1>4. l <= given /\ setWith[l] = 0
    BY <1>1 DEF ResetInv, LinksOK
  <1>. QED
    BY <1>1, <1>2, <1>3, <1>4 DEF ResetInv, TabOK

(* It is over with it, or the link ends and the password is hashed. *)
LEMMA ComparedKeepsReset ==
  ASSUME ResetInv, NEW t \in Tabs, Reset!Same(t) \/ Reset!Consume(t)
  PROVE  ResetInv'
  <1>1. CASE Reset!Same(t)
    <2>1. /\ tab[t].pc = "comparing" /\ tab' = [tab EXCEPT ![t] = Reset!Idle]
          /\ UNCHANGED <<links, given, over, setWith>>
      BY <1>1 DEF Reset!Same, Reset!account
    <2>2. \A u \in Tabs : tab'[u].pc = "idle"
      BY <2>1 DEF ResetInv, Reset!Idle
    <2>. QED
      BY <2>1, <2>2 DEF ResetInv, LinksOK, TabOK, Reset!Idle
  <1>2. CASE Reset!Consume(t)
    <2>1. /\ tab[t].pc = "comparing" /\ tab' = [tab EXCEPT ![t].pc = "hashing"]
          /\ links' \in {links, {}} /\ over' \in {over, over \cup links}
          /\ links' = links => over' = over \/ links = {}
          /\ UNCHANGED <<given, setWith, inUse>>
      BY <1>2 DEF Reset!Consume, Reset!Revoked, Reset!account
    <2>2. LinksOK'
      BY <2>1 DEF ResetInv, LinksOK
    <2>3. \A u \in Tabs : tab'[u].pc # "idle" => tab[u].pc # "idle" /\ tab'[u].link = tab[u].link
      BY <2>1 DEF ResetInv
    <2>4. \A u \in Tabs : TabOK(tab[u])'
      BY <2>1, <2>3 DEF ResetInv, TabOK
    <2>5. tab' \in [Tabs -> [pc : {"idle", "comparing", "hashing"}, link : Reset!Links \cup {0}]]
      BY <2>1 DEF ResetInv
    <2>. QED
      BY <2>2, <2>3, <2>4, <2>5 DEF ResetInv
  <1>. QED
    BY <1>1, <1>2

(* The password is set, the first with its link. *)
LEMMA HashedKeepsReset ==
  ASSUME ResetInv, NEW t \in Tabs, Reset!Hashed(t)
  PROVE  ResetInv'
  <1>. DEFINE l == tab[t].link
  <1>1. /\ tab[t].pc = "hashing" /\ tab' = [tab EXCEPT ![t] = Reset!Idle]
        /\ setWith' = [setWith EXCEPT ![l] = setWith[l] + 1]
        /\ links' = {} /\ over' = over \cup links
        /\ UNCHANGED given
    BY DEF Reset!Hashed, Reset!Revoked, ResetInv, LinksOK, TabOK
  <1>2. l \in Reset!Links /\ setWith[l] = 0 /\ l <= given
    BY <1>1 DEF ResetInv, TabOK
  <1>3. \A u \in Tabs : tab'[u].pc = "idle"
    BY <1>1 DEF ResetInv, Reset!Idle
  <1>4. LinksOK'
    <2>. HIDE DEF l
    <2>. QED
      BY <1>1, <1>2 DEF ResetInv, LinksOK, Reset!Links
  <1>5. tab' \in [Tabs -> [pc : {"idle", "comparing", "hashing"}, link : Reset!Links \cup {0}]]
    BY <1>1 DEF ResetInv, Reset!Idle
  <1>. QED
    BY <1>3, <1>4, <1>5 DEF ResetInv, TabOK

(* No step breaks it. *)
LEMMA ResetStep == ResetInv /\ [Reset!Next]_(Reset!vars) => ResetInv'
  <1>. SUFFICES ASSUME ResetInv, [Reset!Next]_(Reset!vars) PROVE ResetInv'
    OBVIOUS
  <1>1. CASE Reset!Issue
    BY <1>1, IssueKeepsReset
  <1>2. CASE Reset!ChangeEmail \/ Reset!Restart \/ \E l \in Reset!Links : Reset!MailFails(l)
    <2>1. /\ links' = links \ links /\ over' = over \cup links /\ UNCHANGED <<given, setWith>>
          /\ UNCHANGED <<inUse, tab>> \/ tab' = [t \in Tabs |-> Reset!Idle]
      BY <1>2 DEF Reset!ChangeEmail, Reset!Restart, Reset!MailFails, Reset!Revoked, Reset!account
    <2>. QED
      BY <2>1, EndsKeepReset
  <1>3. ASSUME NEW l \in Reset!Links, Reset!Dead(l) PROVE ResetInv'
    <2>1. /\ {l} \in SUBSET links /\ links' = links \ {l} /\ over' = over \cup {l}
          /\ UNCHANGED <<given, setWith>> /\ UNCHANGED <<inUse, tab>>
      BY <1>3 DEF Reset!Dead, Reset!account
    <2>. QED
      BY <2>1, EndsKeepReset
  <1>4. CASE Reset!SetOtherwise \/ (\E l \in Reset!Links : Reset!MailSent(l) \/ Reset!Expire(l))
             \/ UNCHANGED Reset!vars
    <2>1. UNCHANGED <<links, over, given, setWith, inUse, tab>>
      BY <1>4 DEF Reset!SetOtherwise, Reset!MailSent, Reset!Expire, Reset!vars, Reset!account
    <2>. QED
      BY <2>1 DEF ResetInv, LinksOK, TabOK
  <1>5. ASSUME NEW t \in Tabs, NEW l \in Reset!Links, Reset!Confirm(t, l) PROVE ResetInv'
    BY <1>5, ConfirmKeepsReset
  <1>6. ASSUME NEW t \in Tabs, Reset!Same(t) \/ Reset!Consume(t) \/ Reset!Hashed(t) PROVE ResetInv'
    BY <1>6, ComparedKeepsReset, HashedKeepsReset
  <1>. QED
    BY <1>1, <1>2, <1>3, <1>4, <1>5, <1>6 DEF Reset!Next

(* A link sets one password, and only the last one issued works, however   *)
(* many browsers have it open (password-reset.js).                         *)
THEOREM ALinkSetsOnce == Reset!Spec => []LinksDoTheirWork
  <1>1. ResetInv => LinksDoTheirWork
    BY DEF ResetInv, LinksOK, LinksDoTheirWork, Reset!LinksDoTheirWork, Reset!LinkSetsOnce, Reset!LastLinkWorks, Reset!Works
  <1>. QED
    BY <1>1, ResetInit, ResetStep, PTL DEF Reset!Spec

-----------------------------------------------------------------------------
(* Unattended reminders (Automation.tla). *)

(* The developer of a project has an address that is not the list's. *)
RemindConstants ==
  MaxAge \in Nat /\ List \notin Mailboxes /\ Developer \in [Projects -> Mailboxes \cup {None}]

Passing ==
  [pc : {"no", "reading", "escalating", "issuing", "sending"}, dry : BOOLEAN,
   seen : SUBSET Projects, overdue : SUBSET Projects, new : SUBSET (Projects \X Remind!Limits),
   messages : SUBSET Remind!Messages, todo : SUBSET Remind!Messages,
   failedTo : SUBSET (Mailboxes \cup {List}), out : SUBSET Remind!Pairs]

(* A finding is in one message to developers and one to the list at most. *)
OneEach(ms) ==
  \A m, n \in ms : \A p \in m.about \cap n.about : (m.to = List <=> n.to = List) => m = n

(* A pass: what it has to report is not in the ledger; of its messages     *)
(* those that are gone failed, or are among what went out.                 *)
PassOK ==
  /\ pass.new \cap ledger = {}
  /\ OneEach(pass.messages) /\ pass.todo \subseteq pass.messages
  /\ pass.dry = TRUE => pass.todo = {}
  /\ pass.dry = FALSE =>
       \A m \in pass.messages \ pass.todo :
         /\ pass.pc = "sending"
         /\ m.to \in pass.failedTo \/ Remind!Of(pass.new, m.about) \subseteq pass.out

(* The pass is sending x, and its own message is gone. *)
Sent(x) ==
  /\ pass.pc = "sending" /\ pass.dry = FALSE
  /\ x \in pass.new
  /\ Remind!Own(x[1]) # {} /\ Remind!Own(x[1]) \cap pass.todo = {}

(* What people were told is known: an escalation is noted, a limit in the  *)
(* ledger or about to be.                                                  *)
ToldOK ==
  \A x \in told : IF x[2] = 0 THEN x[1] \in escalated ELSE x \in ledger \/ Sent(x)

RemindInv ==
  /\ pass \in Passing
  /\ {escalated, saved, open} \subseteq SUBSET Projects
  /\ {ledger, told} \subseteq SUBSET Remind!Pairs
  /\ PassOK /\ ToldOK
  /\ nagged = {}

(* No pass has nothing to send, and nothing it may repeat. *)
LEMMA NoPassOK ==
  ASSUME RemindInv, NEW d \in BOOLEAN,
         \/ pass' = Remind!NoPass
         \/ pass' = [Remind!NoPass EXCEPT !.pc = "reading", !.dry = d]
  PROVE  pass' \in Passing /\ PassOK' /\ pass'.pc \in {"no", "reading"}
  <1>1. CASE pass' = Remind!NoPass
    BY <1>1 DEF Passing, PassOK, OneEach, Remind!NoPass
  <1>2. CASE pass' = [Remind!NoPass EXCEPT !.pc = "reading", !.dry = d]
    BY <1>2 DEF Passing, PassOK, OneEach, Remind!NoPass
  <1>. QED
    BY <1>1, <1>2

(* A pass that has not read anything sends nothing. *)
LEMMA IdleToldIsNoted ==
  ASSUME RemindInv, pass.pc # "sending"
  PROVE  \A x \in told : x[2] # 0 => x \in ledger
  BY DEF RemindInv, ToldOK, Sent

(* compose(): an address of a developer is not the list's, so a finding is *)
(* in one message of each kind.                                            *)
LEMMA ComposedOneEach ==
  ASSUME RemindConstants, NEW ps \in SUBSET Projects,
         NEW audience, NEW perProject \in BOOLEAN
  PROVE  /\ Remind!Composed(ps, audience, perProject) \subseteq Remind!Messages
         /\ OneEach(Remind!Composed(ps, audience, perProject))
  <1>. DEFINE known == {p \in ps : Developer[p] # None}
              D == Remind!ToDevelopers(ps, perProject)
              L == [to |-> List, about |-> ps]
  <1>1. \A p \in known : p \in Projects /\ Developer[p] \in Mailboxes /\ Developer[p] # List
    BY DEF RemindConstants
  <1>2. \A m \in D : /\ m \in Remind!Messages /\ m.to # List
                     /\ m.about \subseteq known /\ \A p \in m.about : m.to = Developer[p]
    BY <1>1 DEF Remind!ToDevelopers, Remind!Messages
  <1>3. \A m, n \in D : \A p \in m.about \cap n.about : m = n
    <2>1. CASE perProject
      BY <2>1 DEF Remind!ToDevelopers
    <2>2. CASE ~perProject
      BY <2>2 DEF Remind!ToDevelopers
    <2>. QED
      BY <2>1, <2>2
  <1>4. L \in Remind!Messages /\ L.to = List
    BY DEF Remind!Messages
  <1>5. Remind!Composed(ps, audience, perProject) \subseteq D \cup {L}
    BY DEF Remind!Composed
  <1>. HIDE DEF D, L, known
  <1>6. OneEach(D \cup {L})
    BY <1>2, <1>3, <1>4 DEF OneEach
  <1>. QED
    BY <1>2, <1>4, <1>5, <1>6 DEF OneEach

(* Nothing of the pass or of what is known changes but what is forgotten.  *)
LEMMA OutsideKeepsRemind ==
  ASSUME RemindInv, UNCHANGED pass, UNCHANGED <<ledger, escalated, nagged>>,
         told' \subseteq told, saved' \in {saved, escalated}, open' \in SUBSET Projects
  PROVE  RemindInv'
  <1>1. PassOK'
    BY DEF RemindInv, PassOK
  <1>2. ToldOK'
    BY DEF RemindInv, ToldOK, Sent, Remind!Own
  <1>. QED
    BY <1>1, <1>2 DEF RemindInv

(* reset() empties the ledger. *)
LEMMA ResetKeepsRemind == RemindInv /\ Remind!Reset => RemindInv'
  <1>. SUFFICES ASSUME RemindInv, Remind!Reset PROVE RemindInv'
    OBVIOUS
  <1>1. /\ UNCHANGED <<pass, escalated, nagged, open>> /\ ledger' = {} /\ saved' = escalated
        /\ told' = {x \in told : x[2] = 0}
    BY DEF Remind!Reset, Remind!findings
  <1>2. PassOK'
    BY <1>1 DEF RemindInv, PassOK
  <1>3. ToldOK'
    BY <1>1 DEF RemindInv, ToldOK
  <1>. QED
    BY <1>1, <1>2, <1>3 DEF RemindInv

(* A pass begins, fails, or is lost with the server. *)
LEMMA NoPassKeepsRemind ==
  ASSUME RemindInv, pass' \in Passing, PassOK', pass'.pc \in {"no", "reading"},
         UNCHANGED <<ledger, nagged, open>>, told' \subseteq told,
         escalated' \in SUBSET Projects, saved' \in SUBSET Projects,
         \A x \in told' : IF x[2] = 0 THEN x[1] \in escalated' ELSE x \in ledger
  PROVE  RemindInv'
  <1>1. ToldOK'
    BY DEF ToldOK
  <1>. QED
    BY <1>1 DEF RemindInv

(* The timer or a person starts a pass, or it cannot read anything. *)
LEMMA BeginKeepsRemind ==
  ASSUME RemindInv, \/ \E dry \in BOOLEAN : Remind!TimerFires(dry) \/ Remind!RunNow(dry)
                    \/ \E interval \in BOOLEAN : Remind!Fails(interval)
  PROVE  RemindInv'
  <1>1. CASE \E dry \in BOOLEAN : Remind!TimerFires(dry) \/ Remind!RunNow(dry)
    <2>1. PICK dry \in BOOLEAN : Remind!TimerFires(dry) \/ Remind!RunNow(dry)
      BY <1>1
    <2>2. /\ pass.pc = "no" /\ pass' = [Remind!NoPass EXCEPT !.pc = "reading", !.dry = dry]
          /\ UNCHANGED <<ledger, escalated, saved, told, nagged, open>>
      BY <2>1 DEF Remind!TimerFires, Remind!RunNow, Remind!Begin, Remind!findings, Remind!memory,
                  Remind!history
    <2>3. pass' \in Passing /\ PassOK' /\ pass'.pc \in {"no", "reading"}
      BY <2>2, NoPassOK
    <2>. QED
      BY <2>2, <2>3, IdleToldIsNoted, NoPassKeepsRemind DEF RemindInv, ToldOK
  <1>2. CASE \E interval \in BOOLEAN : Remind!Fails(interval)
    <2>2. /\ pass.pc = "reading" /\ pass' = Remind!NoPass
          /\ saved' = escalated /\ UNCHANGED <<ledger, escalated, told, nagged, open>>
      BY <1>2 DEF Remind!Fails, Remind!PassEnds, Remind!findings, Remind!history
    <2>3. pass' \in Passing /\ PassOK' /\ pass'.pc \in {"no", "reading"}
      BY <2>2, NoPassOK
    <2>. QED
      BY <2>2, <2>3, IdleToldIsNoted, NoPassKeepsRemind DEF RemindInv, ToldOK
  <1>. QED
    BY <1>1, <1>2

(* The server starts again: what was told and not noted is forgotten. *)
LEMMA RestartKeepsRemind == RemindInv /\ Remind!Restart => RemindInv'
  <1>. SUFFICES ASSUME RemindInv, Remind!Restart PROVE RemindInv'
    OBVIOUS
  <1>1. /\ pass' = Remind!NoPass /\ escalated' = saved
        /\ told' = {x \in told : IF x[2] = 0 THEN x[1] \in saved ELSE x \notin pass.new}
        /\ UNCHANGED <<ledger, saved, nagged, open>>
    BY DEF Remind!Restart, Remind!findings
  <1>2. pass' \in Passing /\ PassOK' /\ pass'.pc \in {"no", "reading"}
    BY <1>1, NoPassOK
  <1>3. \A x \in told' : IF x[2] = 0 THEN x[1] \in escalated' ELSE x \in ledger
    BY <1>1 DEF RemindInv, ToldOK, Sent
  <1>. QED
    BY <1>1, <1>2, <1>3, NoPassKeepsRemind DEF RemindInv

(* What it reads and composes. *)
LEMMA ReadKeepsRemind ==
  ASSUME RemindConstants, RemindInv, NEW unread \in SUBSET Projects,
         NEW audience, NEW perProject \in BOOLEAN, Remind!Read(unread, audience, perProject)
  PROVE  RemindInv'
  <1>. DEFINE issues == open \ unread
              new == {x \in issues \X Remind!Limits : x[2] <= age[x[1]]} \ ledger
              ms == Remind!Composed({x[1] : x \in new}, audience, perProject)
              overdue == {p \in issues : age[p] = MaxAge}
              todo == IF pass.dry THEN {} ELSE ms
  <1>1. /\ pass.pc = "reading" /\ escalated' = escalated \cap issues
        /\ told' = {x \in told : x[2] # 0 \/ x[1] \in issues}
        /\ pass' = [pass EXCEPT !.pc = "escalating", !.seen = issues, !.overdue = overdue,
                                !.new = new, !.messages = ms, !.todo = todo]
        /\ UNCHANGED <<open, ledger, saved, nagged>>
    BY DEF Remind!Read, Remind!findings
  <1>2. /\ issues \in SUBSET Projects /\ overdue \in SUBSET Projects
        /\ new \in SUBSET (Projects \X Remind!Limits) /\ new \cap ledger = {}
        /\ {x[1] : x \in new} \in SUBSET Projects
    BY DEF RemindInv
  <1>3. ms \in SUBSET Remind!Messages /\ OneEach(ms)
    BY <1>2, ComposedOneEach
  <1>4. /\ todo \in SUBSET Remind!Messages /\ (pass.dry = TRUE => todo = {})
        /\ (pass.dry = FALSE => todo = ms)
    BY <1>3
  <1>. HIDE DEF new, ms, overdue, todo
  <1>5. /\ pass' \in Passing /\ pass'.pc = "escalating" /\ pass'.new = new
        /\ pass'.messages = ms /\ pass'.todo = todo /\ pass'.dry = pass.dry
    BY <1>1, <1>2, <1>3, <1>4 DEF RemindInv, Passing
  <1>6. PassOK'
    BY <1>1, <1>2, <1>3, <1>4, <1>5 DEF PassOK
  <1>7. ToldOK'
    BY <1>1, IdleToldIsNoted DEF RemindInv, ToldOK
  <1>. QED
    BY <1>1, <1>5, <1>6, <1>7 DEF RemindInv

(* The escalation goes out and is noted, and issues are opened. *)
LEMMA EscalateKeepsRemind ==
  ASSUME RemindConstants, RemindInv, NEW ok \in BOOLEAN, Remind!Escalate(ok)
  PROVE  RemindInv'
  <1>. DEFINE items == IF pass.dry \/ ~ok THEN {} ELSE pass.overdue \ escalated
              pc == IF OpensIssues THEN "issuing" ELSE "sending"
  <1>1. /\ pass.pc = "escalating" /\ escalated' = escalated \cup items
        /\ told' = told \cup Remind!Of(items \X {0}, open)
        /\ nagged' = nagged \cup (told \cap (items \X {0}))
        /\ saved' \in {saved, escalated'}
        /\ pass' = [pass EXCEPT !.pc = pc, !.out = items \X {0}]
        /\ UNCHANGED <<open, ledger>>
    BY DEF Remind!Escalate, Remind!Tells, Remind!findings
  <1>2. items \in SUBSET Projects /\ items \cap escalated = {} /\ pc \in {"issuing", "sending"}
    BY DEF RemindInv, Passing
  <1>3. items \X {0} \in SUBSET Remind!Pairs
    BY <1>2 DEF Remind!Pairs, RemindConstants
  <1>. HIDE DEF items, pc
  <1>4. /\ pass' \in Passing /\ pass'.pc = pc /\ pass'.new = pass.new
        /\ pass'.messages = pass.messages /\ pass'.todo = pass.todo /\ pass'.dry = pass.dry
    BY <1>1, <1>2, <1>3 DEF RemindInv, Passing
  <1>5. pass.dry = FALSE => pass.messages \ pass.todo = {}
    BY <1>1 DEF RemindInv, PassOK
  <1>6. PassOK'
    BY <1>1, <1>4, <1>5 DEF RemindInv, PassOK
  <1>7. \A x \in told' : IF x[2] = 0 THEN x[1] \in escalated' ELSE x \in ledger
    <2>. SUFFICES ASSUME NEW x \in told'
                  PROVE  IF x[2] = 0 THEN x[1] \in escalated' ELSE x \in ledger
      OBVIOUS
    <2>1. CASE x \in told
      BY <1>1, <2>1, IdleToldIsNoted DEF RemindInv, ToldOK
    <2>2. CASE x \in items \X {0}
      BY <1>1, <2>2
    <2>. QED
      BY <1>1, <2>1, <2>2 DEF Remind!Of
  <1>8. told \cap (items \X {0}) = {}
    BY <1>2 DEF RemindInv, ToldOK
  <1>9. told' \in SUBSET Remind!Pairs
    BY <1>1, <1>3 DEF RemindInv, Remind!Of
  <1>. QED
    BY <1>1, <1>2, <1>4, <1>6, <1>7, <1>8, <1>9 DEF RemindInv, ToldOK

(* Issues are opened. *)
LEMMA IssueKeepsRemind ==
  ASSUME RemindInv, NEW opened, Remind!Issue(opened)
  PROVE  RemindInv'
  <1>1. /\ pass.pc = "issuing" /\ pass' = [pass EXCEPT !.pc = "sending"]
        /\ saved' = escalated /\ UNCHANGED <<open, ledger, escalated, told, nagged>>
    BY DEF Remind!Issue, Remind!findings
  <1>2. /\ pass' \in Passing /\ pass'.pc = "sending" /\ pass'.new = pass.new
        /\ pass'.messages = pass.messages /\ pass'.todo = pass.todo /\ pass'.dry = pass.dry
    BY <1>1 DEF RemindInv, Passing
  <1>3. pass.dry = FALSE => pass.messages \ pass.todo = {}
    BY <1>1 DEF RemindInv, PassOK
  <1>4. PassOK'
    BY <1>1, <1>2, <1>3 DEF RemindInv, PassOK
  <1>5. ToldOK'
    BY <1>1, IdleToldIsNoted DEF RemindInv, ToldOK
  <1>. QED
    BY <1>1, <1>2, <1>4, <1>5 DEF RemindInv

(* A message is gone, sent or not: no finding's own message is sent twice. *)
LEMMA SendKeepsRemind ==
  ASSUME RemindInv, NEW m \in pass.todo, NEW ok \in BOOLEAN, Remind!Send(m, ok)
  PROVE  RemindInv'
  <1>. DEFINE within == Remind!Of(pass.new, m.about)
              own == {x \in within : m \in Remind!Own(x[1])}
              todo == pass.todo \ {m}
              failedTo == IF ok THEN pass.failedTo ELSE pass.failedTo \cup {m.to}
              out == IF ok THEN pass.out \cup within ELSE pass.out
  <1>1. /\ pass.pc = "sending"
        /\ pass' = [pass EXCEPT !.todo = todo, !.failedTo = failedTo, !.out = out]
        /\ told' \subseteq told \cup Remind!Of(own, open)
        /\ nagged' \subseteq nagged \cup (told \cap own)
        /\ UNCHANGED <<open, ledger, escalated, saved>>
    BY DEF Remind!Send, Remind!Tells, Remind!findings, Remind!memory, Remind!Of
  <1>2. /\ within \subseteq pass.new /\ pass.new \in SUBSET (Projects \X Remind!Limits)
        /\ m \in Remind!Messages
    BY DEF RemindInv, Passing, Remind!Of
  <1>3. pass.new \in SUBSET Remind!Pairs /\ \A x \in pass.new : x[2] # 0
    BY <1>2 DEF Remind!Pairs, Remind!Limits
  <1>4. /\ todo \in SUBSET Remind!Messages /\ failedTo \in SUBSET (Mailboxes \cup {List})
        /\ out \in SUBSET Remind!Pairs
    BY <1>2, <1>3 DEF RemindInv, Passing, Remind!Messages
  <1>5. pass.dry = FALSE /\ m \in pass.messages
    BY DEF RemindInv, Passing, PassOK
  <1>6. \A x \in own : x \in pass.new /\ m \in Remind!Own(x[1]) /\ x \notin ledger
    BY <1>2 DEF RemindInv, PassOK
  <1>7. m.to \in failedTo \/ within \subseteq out
    OBVIOUS
  <1>8. pass.failedTo \subseteq failedTo /\ pass.out \subseteq out
    OBVIOUS
  <1>9. ASSUME NEW x \in own PROVE Remind!Own(x[1]) \cap todo = {}
    <2>1. \A n \in Remind!Own(x[1]) :
            /\ n \in pass.messages /\ x[1] \in n.about /\ (n.to = List <=> m.to = List)
      BY <1>6 DEF Remind!Own
    <2>2. \A n \in Remind!Own(x[1]) : n = m
      BY <1>5, <1>6, <2>1 DEF RemindInv, PassOK, OneEach
    <2>. QED
      BY <2>2
  <1>. HIDE DEF own, todo, failedTo, out
  <1>10. /\ pass' \in Passing /\ pass'.pc = "sending" /\ pass'.new = pass.new
         /\ pass'.messages = pass.messages /\ pass'.todo = todo /\ pass'.dry = pass.dry
         /\ pass'.failedTo = failedTo /\ pass'.out = out
    BY <1>1, <1>4 DEF RemindInv, Passing
  <1>11. PassOK'
    <2>1. ASSUME NEW n \in pass'.messages \ pass'.todo
          PROVE  n.to \in failedTo \/ Remind!Of(pass.new, n.about) \subseteq out
      <3>1. CASE n = m
        BY <1>7, <3>1
      <3>2. CASE n # m
        <4>1. n \in pass.messages \ pass.todo
          BY <1>10, <2>1, <3>2 DEF todo
        <4>2. n.to \in pass.failedTo \/ Remind!Of(pass.new, n.about) \subseteq pass.out
          BY <1>5, <4>1 DEF RemindInv, PassOK
        <4>. QED
          BY <4>2, <1>8
      <3>. QED
        BY <3>1, <3>2
    <2>2. /\ pass'.new \cap ledger' = {} /\ OneEach(pass'.messages)
          /\ pass'.dry = FALSE /\ pass'.todo \subseteq pass'.messages
      BY <1>1, <1>5, <1>10 DEF RemindInv, PassOK, todo
    <2>. QED
      BY <1>10, <2>1, <2>2 DEF PassOK
  <1>12. \A p : Remind!Own(p)' = Remind!Own(p)
    BY <1>10 DEF Remind!Own
  <1>13. ToldOK'
    <2>. SUFFICES ASSUME NEW x \in told'
                  PROVE  IF x[2] = 0 THEN x[1] \in escalated ELSE x \in ledger \/ Sent(x)'
      BY <1>1 DEF ToldOK
    <2>1. CASE x \in told
      BY <1>1, <1>10, <1>12, <2>1 DEF RemindInv, ToldOK, Sent, todo
    <2>2. CASE x \in own
      BY <1>3, <1>5, <1>6, <1>9, <1>10, <1>12, <2>2 DEF Sent
    <2>. QED
      BY <1>1, <2>1, <2>2 DEF Remind!Of
  <1>14. told \cap own = {}
    <2>. SUFFICES ASSUME NEW x \in told \cap own PROVE FALSE
      OBVIOUS
    <2>1. Sent(x)
      BY <1>3, <1>6 DEF RemindInv, ToldOK
    <2>. QED
      BY <1>6, <2>1 DEF Sent
  <1>15. told' \in SUBSET Remind!Pairs
    BY <1>1, <1>3, <1>6 DEF RemindInv, Remind!Of
  <1>. QED
    BY <1>1, <1>10, <1>11, <1>13, <1>14, <1>15 DEF RemindInv

(* The pass is noted. *)
LEMMA NoteKeepsRemind ==
  ASSUME RemindInv, NEW interval, Remind!Note(interval)
  PROVE  RemindInv'
  <1>1. /\ pass.pc = "sending" /\ pass.todo = {}
        /\ ledger' = Remind!Of(ledger \cup (IF pass.dry THEN {} ELSE Remind!WentOut), pass.seen)
        /\ told' = {x \in told : \/ x[2] = 0
                                 \/ /\ x[1] \in pass.seen
                                    /\ x \in pass.new =>
                                         \A m \in Remind!Own(x[1]) : m.to \notin pass.failedTo}
        /\ saved' = escalated /\ pass' = Remind!NoPass
        /\ UNCHANGED <<open, escalated, nagged>>
    BY DEF Remind!Note, Remind!PassEnds, Remind!findings
  <1>2. ledger' \in SUBSET Remind!Pairs
    BY <1>1 DEF RemindInv, Passing, Remind!Of, Remind!WentOut, Remind!Pairs, Remind!Limits
  <1>3. ToldOK'
    <2>. SUFFICES ASSUME NEW x \in told', x[2] # 0 PROVE x \in ledger'
      BY <1>1 DEF RemindInv, ToldOK
    <2>1. x \in told /\ x[1] \in pass.seen
      BY <1>1
    <2>2. CASE x \in ledger
      BY <1>1, <2>1, <2>2 DEF Remind!Of
    <2>3. CASE Sent(x)
      <3>1. x \in Remind!WentOut
        BY <1>1, <2>3 DEF Sent, Remind!WentOut
      <3>. QED
        BY <1>1, <2>1, <2>3, <3>1 DEF Sent, Remind!Of
    <2>. QED
      BY <2>1, <2>2, <2>3 DEF RemindInv, ToldOK
  <1>4. pass' \in Passing /\ PassOK'
    BY <1>1 DEF Passing, PassOK, OneEach, Remind!NoPass
  <1>. QED
    BY <1>1, <1>2, <1>3, <1>4 DEF RemindInv

(* Every step keeps what is known of a pass and of what was told. *)
LEMMA RemindStep ==
  RemindConstants /\ RemindInv /\ [Remind!AutomationNext]_(Remind!vars) => RemindInv'
  <1>. SUFFICES ASSUME RemindConstants, RemindInv, [Remind!AutomationNext]_(Remind!vars)
                PROVE  RemindInv'
    OBVIOUS
  <1>1. ASSUME NEW p \in Projects, Remind!Older(p) \/ Remind!Fixed(p) \/ Remind!Back(p)
        PROVE  RemindInv'
    <2>1. /\ UNCHANGED <<pass, ledger, escalated, nagged, saved>>
          /\ told' \subseteq told /\ open' \in SUBSET Projects
      BY <1>1 DEF RemindInv, Remind!Older, Remind!Fixed, Remind!Back, Remind!memory,
                  Remind!history, Remind!Of
    <2>. QED
      BY <2>1, OutsideKeepsRemind
  <1>2. CASE Remind!Reset \/ Remind!Restart
    BY <1>2, ResetKeepsRemind, RestartKeepsRemind
  <1>3. CASE (\E on \in BOOLEAN : Remind!Sync(on)) \/ UNCHANGED Remind!vars
    <2>1. /\ UNCHANGED <<pass, ledger, escalated, nagged, saved, told, open>>
      BY <1>3 DEF Remind!Sync, Remind!vars, Remind!findings, Remind!memory, Remind!history
    <2>. QED
      BY <2>1, OutsideKeepsRemind DEF RemindInv
  <1>4. CASE \E dry \in BOOLEAN : Remind!TimerFires(dry) \/ Remind!RunNow(dry)
    BY <1>4, BeginKeepsRemind
  <1>5. ASSUME NEW unread \in SUBSET Projects, NEW audience, NEW perProject \in BOOLEAN,
               Remind!Read(unread, audience, perProject)
        PROVE  RemindInv'
    BY <1>5, ReadKeepsRemind
  <1>6. CASE \E opened \in SUBSET Projects : Remind!Issue(opened)
    BY <1>6, IssueKeepsRemind
  <1>7. CASE \E m \in pass.todo, ok \in BOOLEAN : Remind!Send(m, ok)
    BY <1>7, SendKeepsRemind
  <1>8. CASE \E yes \in BOOLEAN : Remind!Escalate(yes) \/ Remind!Note(yes) \/ Remind!Fails(yes)
    BY <1>8, EscalateKeepsRemind, NoteKeepsRemind, BeginKeepsRemind
  <1>9. (IF ReadsFail THEN SUBSET Projects ELSE {{}}) \subseteq SUBSET Projects
    OBVIOUS
  <1>. QED
    BY <1>1, <1>2, <1>3, <1>4, <1>5, <1>6, <1>7, <1>8, <1>9 DEF Remind!AutomationNext

(* Nothing was told at first. *)
LEMMA RemindInit == RemindConstants /\ Remind!AutomationInit => RemindInv
  BY DEF Remind!AutomationInit, RemindInv, Passing, PassOK, ToldOK, OneEach, Remind!NoPass

(* "At most one message per threshold" (automation.js), for any number of  *)
(* projects, developers, limits, messages and restarts.                    *)
THEOREM NothingToldTwice ==
  ASSUME RemindConstants
  PROVE  Remind!AutomationSpec => []NotNagged
  <1>1. RemindInv => NotNagged
    BY DEF RemindInv, NotNagged, Remind!NotNagged
  <1>. QED
    BY <1>1, RemindInit, RemindStep, PTL DEF Remind!AutomationSpec

(* What went into the ledger is in what the pass sent. *)
LEMMA LedgerGrowsByWhatWent ==
  ASSUME RemindInv, [Remind!AutomationNext]_(Remind!vars)
  PROVE  ledger' \subseteq ledger \cup pass.out
  <1>1. ASSUME NEW interval, Remind!Note(interval) PROVE ledger' \subseteq ledger \cup pass.out
    <2>1. SUFFICES ASSUME pass.dry = FALSE PROVE Remind!WentOut \subseteq pass.out
      BY <1>1 DEF Remind!Note, Remind!Of, RemindInv, Passing
    <2>2. SUFFICES ASSUME NEW x \in Remind!WentOut PROVE x \in pass.out
      OBVIOUS
    <2>3. PICK m \in Remind!Own(x[1]) : m.to \notin pass.failedTo
      BY DEF Remind!WentOut
    <2>4. x \in pass.new /\ m \in pass.messages \ pass.todo /\ x[1] \in m.about
      BY <1>1 DEF Remind!WentOut, Remind!Own, Remind!Note
    <2>5. Remind!Of(pass.new, m.about) \subseteq pass.out
      BY <2>1, <2>3, <2>4 DEF RemindInv, PassOK
    <2>. QED
      BY <2>4, <2>5 DEF Remind!Of
  <1>2. CASE UNCHANGED ledger
    BY <1>2
  <1>3. CASE Remind!Reset
    BY <1>3 DEF Remind!Reset
  <1>4. UNCHANGED ledger \/ Remind!Reset \/ \E interval \in BOOLEAN : Remind!Note(interval)
    BY DEF Remind!AutomationNext, Remind!vars, Remind!memory, Remind!Older, Remind!Fixed, Remind!Back,
           Remind!Restart, Remind!Sync, Remind!TimerFires, Remind!RunNow, Remind!Read, Remind!Issue,
           Remind!Send, Remind!Escalate, Remind!Fails
  <1>. QED
    BY <1>1, <1>2, <1>3, <1>4

(* What became escalated is in what the pass sent. *)
LEMMA EscalatedGrowsByWhatWent ==
  ASSUME RemindInv, [Remind!AutomationNext]_(Remind!vars)
  PROVE  (escalated' \ (escalated \cup saved)) \X {0} \subseteq pass'.out
  <1>1. ASSUME NEW ok, Remind!Escalate(ok)
        PROVE  (escalated' \ (escalated \cup saved)) \X {0} \subseteq pass'.out
    <2>. DEFINE items == IF pass.dry \/ ~ok THEN {} ELSE pass.overdue \ escalated
    <2>1. /\ escalated' = escalated \cup items
          /\ pass' = [pass EXCEPT !.pc = IF OpensIssues THEN "issuing" ELSE "sending",
                                  !.out = items \X {0}]
      BY <1>1 DEF Remind!Escalate
    <2>. HIDE DEF items
    <2>2. pass'.out = items \X {0}
      BY <2>1 DEF RemindInv, Passing
    <2>. QED
      BY <2>1, <2>2
  <1>2. CASE escalated' \subseteq escalated \cup saved
    BY <1>2
  <1>3. escalated' \subseteq escalated \cup saved \/ \E ok \in BOOLEAN : Remind!Escalate(ok)
    BY DEF Remind!AutomationNext, Remind!vars, Remind!memory, Remind!Older, Remind!Fixed, Remind!Back,
           Remind!Restart, Remind!Sync, Remind!TimerFires, Remind!RunNow, Remind!Read, Remind!Issue,
           Remind!Send, Remind!Note, Remind!Fails, Remind!Reset
  <1>. QED
    BY <1>1, <1>2, <1>3

(* "Only mark what actually went out, so a failed send is retried"         *)
(* (automation.js): in every step.                                         *)
THEOREM WhatIsNotedWentOut ==
  ASSUME RemindConstants
  PROVE  Remind!AutomationSpec => NotedWentOut
  <1>1. RemindInv /\ [Remind!AutomationNext]_(Remind!vars)
          => [/\ ledger' \subseteq ledger \cup pass.out
              /\ (escalated' \ (escalated \cup saved)) \X {0} \subseteq pass'.out]_(Remind!vars)
    BY LedgerGrowsByWhatWent, EscalatedGrowsByWhatWent
  <1>. QED
    BY <1>1, RemindInit, RemindStep, PTL DEF Remind!AutomationSpec, NotedWentOut, Remind!NotedWentOut

-----------------------------------------------------------------------------
(* The timer: armed, or its own pass is under way. *)
TimerInv ==
  /\ {enabled, timer, firing} \subseteq BOOLEAN
  /\ enabled = TRUE => timer = TRUE \/ firing = TRUE
  /\ firing = TRUE => pass.pc # "no"

(* No step leaves it unarmed. *)
LEMMA TimerStep ==
  ASSUME RemindInv, TimerInv, [Remind!AutomationNext]_(Remind!vars)
  PROVE  TimerInv'
  <1>1. CASE UNCHANGED Remind!schedule /\ (pass.pc = "no" \/ pass'.pc # "no")
    BY <1>1 DEF TimerInv, Remind!schedule
  <1>2. ASSUME NEW dry \in BOOLEAN, Remind!TimerFires(dry) \/ Remind!RunNow(dry) PROVE TimerInv'
    <2>1. pass.pc = "no" /\ pass'.pc = "reading"
      BY <1>2 DEF Remind!TimerFires, Remind!RunNow, Remind!Begin, Remind!NoPass
    <2>. QED
      BY <1>2, <2>1 DEF TimerInv, Remind!TimerFires, Remind!RunNow, Remind!schedule
  <1>3. ASSUME NEW yes \in BOOLEAN, Remind!Note(yes) \/ Remind!Fails(yes) PROVE TimerInv'
    BY <1>3 DEF TimerInv, Remind!Note, Remind!Fails, Remind!PassEnds
  <1>4. CASE Remind!Restart \/ \E on \in BOOLEAN : Remind!Sync(on)
    BY <1>4 DEF TimerInv, Remind!Restart, Remind!Sync
  <1>5. CASE Remind!Reset \/ (\E p \in Projects : Remind!Older(p) \/ Remind!Fixed(p) \/ Remind!Back(p))
             \/ UNCHANGED Remind!vars
    <2>1. UNCHANGED Remind!schedule /\ UNCHANGED pass
      BY <1>5 DEF Remind!Reset, Remind!Older, Remind!Fixed, Remind!Back, Remind!vars
    <2>. QED
      BY <1>1, <2>1
  <1>6. ASSUME NEW unread, NEW audience, NEW perProject, Remind!Read(unread, audience, perProject)
        PROVE  TimerInv'
    <2>1. UNCHANGED Remind!schedule /\ pass'.pc = "escalating"
      BY <1>6 DEF Remind!Read, RemindInv, Passing
    <2>. QED
      BY <1>1, <2>1
  <1>7. CASE \/ \E opened \in SUBSET Projects : Remind!Issue(opened)
             \/ \E m \in pass.todo, ok \in BOOLEAN : Remind!Send(m, ok)
             \/ \E ok \in BOOLEAN : Remind!Escalate(ok)
    <2>1. UNCHANGED Remind!schedule /\ pass'.pc \in {"issuing", "sending"}
      BY <1>7 DEF Remind!Issue, Remind!Send, Remind!Escalate, RemindInv, Passing
    <2>. QED
      BY <1>1, <2>1
  <1>. QED
    BY <1>2, <1>3, <1>4, <1>5, <1>6, <1>7 DEF Remind!AutomationNext

(* Reminders that are switched on go on (automation.js): after any order of *)
(* passes, runs by hand, settings saved and restarts the timer is armed, or *)
(* the pass that will arm it is under way.                                  *)
THEOREM RemindersGoOn ==
  ASSUME RemindConstants
  PROVE  Remind!AutomationSpec => []SchedulerAlive
  <1>1. Remind!AutomationInit => TimerInv
    BY DEF Remind!AutomationInit, TimerInv
  <1>2. RemindInv /\ TimerInv /\ [Remind!AutomationNext]_(Remind!vars) => TimerInv'
    BY TimerStep
  <1>3. TimerInv => SchedulerAlive
    BY DEF TimerInv, SchedulerAlive, Remind!SchedulerAlive
  <1>. QED
    BY <1>1, <1>2, <1>3, RemindInit, RemindStep, PTL DEF Remind!AutomationSpec

-----------------------------------------------------------------------------
(* Rescans (TrackedRescan.tla).  OfficeProofs proves of any tracked report  *)
(* that a round keeps its rescan, so also of the one of People.tla; the     *)
(* sign-ins that stand beside it there do not matter.                       *)
Report == INSTANCE OfficeProofs WITH
  Projects <- Scanned, People <- {}, Numbers <- {}, MaxStops <- 0,
  server <- "up", live <- {}, adopted <- {}, fetched <- {}, asking <- {}, index <- {},
  files <- {}, queued <- {}, writing <- None, ended <- {}, unsaved <- {}, lost <- {}, stops <- 0

(* A round of a tracked report keeps the rescan that was started for it,    *)
(* its developers take their turn once and a used window is verified,       *)
(* unless a rescan or the next round acts on guards it passed before        *)
(* another was noted (rescanByDeveloper() and startVerification() of        *)
(* server.js): for any number of people and steps at work at once.          *)
THEOREM ReportsKeepTheirRescans == Rescan!Spec => []RoundsKeepTheirRescan
  <1>1. Report!Spec => []Report!RoundsKeepTheirRescan
    BY Report!RoundsAreRescannedOnce, RoundsAssumption
  <1>2. Rescan!Init => Report!Init
    BY DEF Rescan!Init, Report!Init, Rescan!NoWindow, Report!NoWindow, Rescan!Idle, Report!Idle
  <1>3. [Rescan!Next]_(Rescan!vars) => [Report!Next]_(Report!vars)
    BY DEF Rescan!vars, Rescan!Next, Rescan!Refresh, Rescan!TimePasses,
           Rescan!InWindow, Rescan!Free, Rescan!Become, Rescan!Idle,
           Rescan!Unfinished, Rescan!Follow, Rescan!Step, Rescan!WindowAction,
           Rescan!RoundVerified, Rescan!MayStart, Rescan!StepOnly,
           Rescan!Note, Rescan!Terminal, Rescan!FinishedIf, Rescan!Poll,
           Rescan!Conclude, Rescan!Told, Rescan!Opened, Rescan!ByDeveloper,
           Rescan!DeveloperStarts, Rescan!ByAdministrator, Rescan!Fails,
           Rescan!Guards, Rescan!DoneBefore, Rescan!Replaced, Rescan!Started,
           Rescan!NextRound, Rescan!Scanning, Rescan!Moved, Rescan!Noted,
           Rescan!Polled, Rescan!Concluded, Rescan!Launched, Rescan!Answered,
           Rescan!NoWindow, Report!vars, Report!Next, Report!Refresh,
           Report!TimePasses, Report!InWindow, Report!Free, Report!Become,
           Report!Idle, Report!Unfinished, Report!Follow, Report!Step,
           Report!WindowAction, Report!RoundVerified, Report!MayStart,
           Report!StepOnly, Report!Note, Report!Terminal, Report!FinishedIf,
           Report!Poll, Report!Conclude, Report!Told, Report!Opened,
           Report!ByDeveloper, Report!DeveloperStarts, Report!ByAdministrator,
           Report!Fails, Report!Guards, Report!DoneBefore, Report!Replaced,
           Report!Started, Report!NextRound, Report!Scanning, Report!Moved,
           Report!Noted, Report!Polled, Report!Concluded, Report!Launched,
           Report!Answered, Report!NoWindow
  <1>4. Report!RoundsKeepTheirRescan => RoundsKeepTheirRescan
    BY DEF RoundsKeepTheirRescan, Rescan!RoundsKeepTheirRescan, Rescan!OneTurnPerRound,
           Rescan!ScansAreFollowed, Rescan!UsedWindowIsVerified,
           Rescan!Scanning, Rescan!InWindow, Rescan!RoundVerified,
           Report!RoundsKeepTheirRescan, Report!OneTurnPerRound,
           Report!ScansAreFollowed, Report!UsedWindowIsVerified,
           Report!Scanning, Report!InWindow, Report!RoundVerified
  <1>. QED
    BY <1>1, <1>2, <1>3, <1>4, PTL DEF Rescan!Spec, Report!Spec

-----------------------------------------------------------------------------
(* The parts of People have no variable in common, so that what is proved  *)
(* of each holds when they stand side by side.                             *)
THEOREM EachPartIsItself ==
  AllSpec => Spec /\ Reset!Spec /\ Remind!AutomationSpec /\ Rescan!Spec
  <1>1. AllInit => Init /\ Reset!Init /\ Remind!AutomationInit /\ Rescan!Init
    BY DEF AllInit
  <1>2. UNCHANGED resetVars => UNCHANGED Reset!vars
    BY DEF resetVars, Reset!vars, Reset!account, Reset!mail
  <1>3. UNCHANGED remindVars => UNCHANGED Remind!vars
    BY DEF remindVars, Remind!vars, Remind!findings, Remind!memory, Remind!schedule, Remind!history
  <1>4. UNCHANGED rescanVars => UNCHANGED Rescan!vars
    BY DEF rescanVars, Rescan!vars
  <1>5. [AllNext]_all => [Next]_vars /\ [Reset!Next]_(Reset!vars)
                          /\ [Remind!AutomationNext]_(Remind!vars) /\ [Rescan!Next]_(Rescan!vars)
    BY <1>2, <1>3, <1>4 DEF AllNext, all
  <1>. QED
    BY <1>1, <1>5, PTL DEF AllSpec, Spec, Reset!Spec, Remind!AutomationSpec, Rescan!Spec
==============================================================================
