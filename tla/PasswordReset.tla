---------------------------- MODULE PasswordReset -----------------------------
(***************************************************************************)
(* A forgotten password of one account: the one-time links of              *)
(* src/src/password-reset.js, sent and used by the handlers of             *)
(* src/src/server.js, while the password and the address change otherwise. *)
(*                                                                         *)
(* Links are numbered as they are issued.  A password is told from another *)
(* by how many were set before it.                                         *)
(***************************************************************************)
EXTENDS Naturals, FiniteSets

CONSTANTS Tabs,         \* browsers with a link open
          MaxLinks,     \* bound: links issued
          MaxPasswords  \* bound: passwords set

Links == 1..MaxLinks

VARIABLES password,  \* the account's
          links,     \* #links: those of this account
          stamp,     \* per link: the password it was made for
          expired,   \* links whose time is up
          issued,    \* how many there were
          mailing,   \* emails on their way
          received,  \* links in the person's mailbox
          inUse,     \* resetsInFlight has the account
          tab,       \* per browser: the link it uses, and what it awaits
          setWith,   \* history: per link, passwords set with it
          ended      \* history: links that ended

account == <<password, setWith>>
mail    == <<mailing, received>>
vars    == <<account, links, stamp, expired, issued, mail, inUse, tab, ended>>

Idle == [pc |-> "idle", link |-> 0]

TypeOK ==
  /\ password \in 0..MaxPasswords
  /\ stamp \in [Links -> 0..MaxPasswords]
  /\ issued \in 0..MaxLinks
  /\ {links, expired, mailing, received, ended} \subseteq SUBSET (1..issued)
  /\ inUse \in BOOLEAN
  /\ tab \in [Tabs -> [pc : {"idle", "comparing", "hashing"}, link : 0..MaxLinks]]
  /\ setWith \in [Links -> 0..MaxPasswords]

Init ==
  /\ password = 0
  /\ links = {} /\ expired = {} /\ issued = 0
  /\ stamp = [l \in Links |-> 0]
  /\ mailing = {} /\ received = {}
  /\ inUse = FALSE
  /\ tab = [t \in Tabs |-> Idle]
  /\ setWith = [l \in Links |-> 0]
  /\ ended = {}

(* revokeUser(): every link of the account ends, whichever it is. *)
Revoked ==
  /\ links' = {}
  /\ ended' = ended \cup links

(* sendResetLink(): a link is issued, and mailed.                          *)
Mailed ==
  /\ issued' = issued + 1
  /\ stamp' = [stamp EXCEPT ![issued'] = password]
  /\ mailing' = mailing \cup {issued'}
  /\ UNCHANGED <<account, expired, received, inUse, tab>>

(* Fault: an earlier link goes on working. *)
FaultIssue ==
  /\ issued < MaxLinks
  /\ links' = links \cup {issued + 1}
  /\ ended' = ended
  /\ Mailed

(* Any earlier link ends. *)
Issue ==
  /\ issued < MaxLinks
  /\ links' = {issued + 1}
  /\ ended' = ended \cup links
  /\ Mailed

MailSent(l) ==
  /\ l \in mailing
  /\ mailing' = mailing \ {l}
  /\ received' = received \cup {l}
  /\ UNCHANGED <<account, links, stamp, expired, issued, inUse, tab, ended>>

(* An email that could not be sent takes the account's links with it, a    *)
(* newer one included.                                                     *)
MailFails(l) ==
  /\ l \in mailing
  /\ mailing' = mailing \ {l}
  /\ Revoked
  /\ UNCHANGED <<account, stamp, expired, issued, received, inUse, tab>>

Expire(l) ==
  /\ l \in links \ expired
  /\ expired' = expired \cup {l}
  /\ UNCHANGED <<account, links, stamp, issued, mail, inUse, tab, ended>>

(* check(): one of ours, in time, and of the password there is now.        *)
Works(l) == l \in links \ expired /\ stamp[l] = password

(* One that does not work is forgotten. *)
Dead(l) ==
  /\ l \in received \cap links
  /\ ~Works(l)
  /\ links' = links \ {l}
  /\ ended' = ended \cup {l}
  /\ UNCHANGED <<account, stamp, expired, issued, mail, inUse, tab>>

(* POST .../confirm, up to the comparison with the current password.       *)
Compare(t, l) ==
  /\ tab[t].pc = "idle"
  /\ l \in received
  /\ Works(l)
  /\ inUse' = TRUE
  /\ tab' = [tab EXCEPT ![t] = [pc |-> "comparing", link |-> l]]
  /\ UNCHANGED <<account, links, stamp, expired, issued, mail, ended>>

(* Fault: a link in use is used again. *)
FaultConfirm(t, l) == Compare(t, l)

Confirm(t, l) == ~inUse /\ Compare(t, l)

(* It is the current one: another is asked for, with the same link. *)
Same(t) ==
  /\ tab[t].pc = "comparing"
  /\ tab' = [tab EXCEPT ![t] = Idle]
  /\ inUse' = FALSE
  /\ UNCHANGED <<account, links, stamp, expired, issued, mail, ended>>

(* consume(): the link ends, if it is still one of ours, and with it any   *)
(* other; the new password is hashed.                                      *)
Consume(t) ==
  /\ tab[t].pc = "comparing"
  /\ IF tab[t].link \in links THEN Revoked ELSE UNCHANGED <<links, ended>>
  /\ tab' = [tab EXCEPT ![t].pc = "hashing"]
  /\ UNCHANGED <<account, stamp, expired, issued, mail, inUse>>

(* It is set, and any link issued meanwhile ends as well. *)
Hashed(t) ==
  /\ tab[t].pc = "hashing"
  /\ password < MaxPasswords
  /\ password' = password + 1
  /\ setWith' = [setWith EXCEPT ![tab[t].link] = @ + 1]
  /\ Revoked
  /\ tab' = [tab EXCEPT ![t] = Idle]
  /\ inUse' = FALSE
  /\ UNCHANGED <<stamp, expired, issued, mail>>

(* An administrator or the person sets another password: no link is told,  *)
(* but none has its stamp.                                                 *)
SetOtherwise ==
  /\ password < MaxPasswords
  /\ password' = password + 1
  /\ UNCHANGED <<links, stamp, expired, issued, setWith, mail, inUse, tab, ended>>

(* PUT /api/iam/users/:id/profile with another address. *)
ChangeEmail ==
  /\ links # {}
  /\ Revoked
  /\ UNCHANGED <<account, stamp, expired, issued, mail, inUse, tab>>

(* "A restart ends every link." *)
Restart ==
  /\ Revoked
  /\ mailing' = {}
  /\ inUse' = FALSE
  /\ tab' = [t \in Tabs |-> Idle]
  /\ UNCHANGED <<account, stamp, expired, issued, received>>

Next ==
  \/ Issue \/ SetOtherwise \/ ChangeEmail \/ Restart
  \/ \E l \in Links : MailSent(l) \/ MailFails(l) \/ Expire(l) \/ Dead(l)
  \/ \E t \in Tabs :
       \/ \E l \in Links : Confirm(t, l)
       \/ Same(t) \/ Consume(t) \/ Hashed(t)

Spec == Init /\ [][Next]_vars

-----------------------------------------------------------------------------
(* "So one link cannot set two passwords at once", nor one after another,  *)
(* however many browsers have it open.                                     *)
LinkSetsOnce == \A l \in Links : setWith[l] <= 1

(* "One link per person at a time: asking again replaces the earlier one": *)
(* the one that works is the last one issued, and never one that ended.    *)
LastLinkWorks == \A l \in Links : Works(l) => l = issued /\ l \notin ended

(* Both: through restarts, failed emails, other changes of the password    *)
(* and any number of browsers.                                             *)
LinksDoTheirWork == LinkSetsOnce /\ LastLinkWorks
==============================================================================
