------------------------------ MODULE Accounts --------------------------------
(***************************************************************************)
(* Who may sign in: IamStore of src/src/iam.js, with the requests of       *)
(* src/src/server.js that change accounts and roles, and the command       *)
(* scripts/reset-admin.mjs, which writes the same file.                    *)
(*                                                                         *)
(* A request is admitted as somebody's, and may then await the server's    *)
(* connection before it acts; a new account awaits its password's hash.    *)
(* What a request looks at in one go is one step.  Names, passwords,       *)
(* tenants and the other roles' permissions are left out: whoever acts is  *)
(* an Admin when admitted.                                                 *)
(***************************************************************************)
EXTENDS Naturals, FiniteSets

CONSTANTS Ids,        \* accounts that ever exist
          Addresses,  \* sign-in emails
          Custom,     \* roles other than Admin
          Requests,
          None,
          MaxCli      \* bound: runs of reset-admin.mjs

VARIABLES file,   \* iam.json
          mem,    \* #state
          seen,   \* #mtime is the file's
          req,    \* per request: whose, and what it awaits
          cli,    \* the command: for whom, and what it read and did not write yet
          runs,   \* how often it ran
          made,   \* history: accounts that ever were (their ids are random)
          raced   \* history: addresses and roles taken or removed under a request

stored == <<file, mem, seen>>
vars   == <<stored, req, cli, runs, made, raced>>

Account == [address : Addresses, role : Custom \cup {"admin"}, disabled : BOOLEAN]
ASSUME AccountsAssumption == None \notin Account

States  == [users : [Ids -> Account \cup {None}], roles : SUBSET Custom]
NoCli   == [who |-> None, state |-> None]
Idle    == [pc |-> "idle", actor |-> None, id |-> None, address |-> None, role |-> None]

TypeOK ==
  /\ {file, mem} \subseteq States
  /\ seen \in BOOLEAN
  /\ req \in [Requests ->
       [pc : {"idle", "admitted", "hashing"}, actor : Ids \cup {None}, id : Ids \cup {None},
        address : Addresses \cup {None}, role : Custom \cup {"admin", None}]]
  /\ cli \in [who : Ids \cup {None}, state : States \cup {None}]
  /\ runs \in 0..MaxCli
  /\ made \subseteq Ids
  /\ raced \subseteq Addresses \cup Custom

Users(s) == {i \in Ids : s.users[i] # None}
Active(s) == {i \in Users(s) : s.users[i].role = "admin" /\ ~s.users[i].disabled}

(* The first administrator was set up. *)
Init ==
  /\ \E i \in Ids, a \in Addresses :
       file = [users |-> [[j \in Ids |-> None] EXCEPT ![i] =
                 [address |-> a, role |-> "admin", disabled |-> FALSE]],
               roles |-> Custom]
  /\ mem = file /\ seen = TRUE
  /\ req = [r \in Requests |-> Idle]
  /\ cli = NoCli
  /\ runs = 0
  /\ made = Users(file)
  /\ raced = {}

(* #fresh(): the file, when it is not the one that was read. *)
Known == IF seen THEN mem ELSE file

(* #save(): the file as it is in memory, whatever the file says by then. *)
Save(s) == mem' = s /\ file' = s /\ seen' = TRUE

Done(r) == req' = [req EXCEPT ![r] = Idle]
Hashing == {r \in Requests : req[r].pc = "hashing"}

-----------------------------------------------------------------------------
Admit(r, i) ==
  /\ req[r].pc = "idle"
  /\ i \in Active(Known)
  /\ req' = [req EXCEPT ![r] = [Idle EXCEPT !.pc = "admitted", !.actor = i]]
  /\ mem' = Known /\ seen' = TRUE
  /\ UNCHANGED <<file, cli, runs, made, raced>>

Acts(r) == req[r].pc = "admitted"

(* Fault: the other Admins that are counted may be disabled. *)
FaultLastAdmin(s, i) ==
  i \in Active(s) /\ {j \in Users(s) \ {i} : s.users[j].role = "admin"} = {}

(* "There must always be at least one active Admin." *)
LastAdmin(s, i) == i \in Active(s) /\ Active(s) = {i}

(* updateUser(), deleteUser(): one's own role, status and account are left *)
(* to others.                                                              *)
Change(r, i, s) ==
  /\ Acts(r)
  /\ i \in Users(Known) \ {req[r].actor}
  /\ Save(s)
  /\ Done(r)
  /\ UNCHANGED <<cli, runs, made>>

ChangeRole(r, i, role) ==
  /\ role \in Known.roles \cup {"admin"}
  /\ role = "admin" \/ ~LastAdmin(Known, i)
  /\ Change(r, i, [Known EXCEPT !.users[i].role = role])
  /\ UNCHANGED raced

Disable(r, i, disabled) ==
  /\ disabled => ~LastAdmin(Known, i)
  /\ Change(r, i, [Known EXCEPT !.users[i].disabled = disabled])
  /\ UNCHANGED raced

Delete(r, i) ==
  /\ ~LastAdmin(Known, i)
  /\ Change(r, i, [Known EXCEPT !.users[i] = None])
  /\ UNCHANGED raced

(* Fault: addresses of accounts that are disabled are free. *)
FaultTaken(s, a) == \E i \in Users(s) : s.users[i].address = a /\ ~s.users[i].disabled

Taken(s, a) == \E i \in Users(s) : s.users[i].address = a

ChangeEmail(r, i, a) ==
  /\ ~Taken(Known, a)
  /\ Change(r, i, [Known EXCEPT !.users[i].address = a])
  /\ raced' = raced \cup {a : q \in {q \in Hashing : req[q].address = a}}

(* createUser(), up to the hash. *)
Create(r, i, a, role) ==
  /\ Acts(r)
  /\ i \notin made
  /\ made' = made \cup {i}
  /\ ~Taken(Known, a)
  /\ role \in Known.roles \cup {"admin"}
  /\ req' = [req EXCEPT ![r] = [@ EXCEPT !.pc = "hashing", !.id = i, !.address = a, !.role = role]]
  /\ mem' = Known /\ seen' = TRUE
  /\ UNCHANGED <<file, cli, runs, raced>>

(* It is added to what is in memory by then. *)
Created(r) ==
  LET q == req[r]
  IN  /\ q.pc = "hashing"
      /\ Save([mem EXCEPT !.users[q.id] = [address |-> q.address, role |-> q.role, disabled |-> FALSE]])
      /\ raced' = raced \cup {q.address : x \in {x \in Hashing \ {r} : req[x].address = q.address}}
      /\ Done(r)
      /\ UNCHANGED <<cli, runs, made>>

(* saveRole(), deleteRole(): they look at what is in memory. *)
AddRole(r, role) ==
  /\ Acts(r)
  /\ role \notin mem.roles
  /\ Save([mem EXCEPT !.roles = @ \cup {role}])
  /\ Done(r)
  /\ UNCHANGED <<cli, runs, made, raced>>

DeleteRole(r, role) ==
  /\ Acts(r)
  /\ role \in mem.roles
  /\ ~\E i \in Users(mem) : mem.users[i].role = role
  /\ Save([mem EXCEPT !.roles = @ \ {role}])
  /\ raced' = raced \cup {role : q \in {q \in Hashing : req[q].role = role}}
  /\ Done(r)
  /\ UNCHANGED <<cli, runs, made>>

Refused(r) == Acts(r) /\ Done(r) /\ UNCHANGED <<stored, cli, runs, made, raced>>

-----------------------------------------------------------------------------
(* reset-admin.mjs reads the file and awaits the hash of the new password. *)
CliStarts(i) ==
  /\ cli.who = None
  /\ runs < MaxCli
  /\ i \in Users(file)
  /\ cli' = [who |-> i, state |-> file]
  /\ runs' = runs + 1
  /\ UNCHANGED <<stored, req, made, raced>>

(* setPassword() writes what it read: whatever was saved meanwhile is gone. *)
CliWrites ==
  LET s == cli.state
  IN  /\ cli.who # None /\ s # None
      /\ file' = s
      /\ seen' = FALSE
      /\ cli' = [who |-> cli.who, state |-> None]
      /\ raced' = raced \cup {req[q].role : q \in {q \in Hashing : req[q].role \notin s.roles \cup {"admin"}}}
                        \cup {req[q].address : q \in {q \in Hashing : Taken(s, req[q].address)}}
      /\ UNCHANGED <<mem, req, runs, made>>

(* An Admin the file has disabled by then is enabled. *)
CliEnables ==
  LET i == cli.who
  IN  /\ i # None /\ cli.state = None
      /\ IF i \in Users(file) \ Active(file) /\ file.users[i].role = "admin"
         THEN /\ file' = [file EXCEPT !.users[i].disabled = FALSE]
              /\ seen' = FALSE
         ELSE UNCHANGED <<file, seen>>
      /\ cli' = NoCli
      /\ UNCHANGED <<mem, req, runs, made, raced>>

Next ==
  \/ \E r \in Requests :
       \/ Created(r) \/ Refused(r)
       \/ \E i \in Ids :
            \/ Admit(r, i) \/ Delete(r, i)
            \/ \E role \in Custom \cup {"admin"} : ChangeRole(r, i, role)
            \/ \E disabled \in BOOLEAN : Disable(r, i, disabled)
            \/ \E a \in Addresses :
                 \/ ChangeEmail(r, i, a)
                 \/ \E role \in Custom \cup {"admin"} : Create(r, i, a, role)
       \/ \E role \in Custom : AddRole(r, role) \/ DeleteRole(r, role)
  \/ CliWrites \/ CliEnables \/ \E i \in Ids : CliStarts(i)

Spec == Init /\ [][Next]_vars

-----------------------------------------------------------------------------
(* "There must always be at least one active Admin", although two of them  *)
(* may remove each other at once and a command writes an older file.       *)
AlwaysAnAdmin == Active(file) # {} /\ Active(Known) # {}

(* An address is one account's, unless it was taken by two at once. *)
OneAccountEach ==
  \A i, j \in Users(file) :
    i # j /\ file.users[i].address = file.users[j].address => file.users[i].address \in raced

(* A role that is held exists, unless it was removed at that moment. *)
HeldRolesExist ==
  \A i \in Users(file) : file.users[i].role \in file.roles \cup {"admin"} \cup raced

(* "That email address already has access", "Give them another role        *)
(* first": through restarts of the command and requests that overlap, an   *)
(* address is shared, and a role that is held is gone, only where the      *)
(* other request came while an account with it was being made.             *)
AccountsAgree == OneAccountEach /\ HeldRolesExist
==============================================================================
