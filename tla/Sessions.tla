------------------------------- MODULE Sessions -------------------------------
(***************************************************************************)
(* The user view: login, masquerading, reset and activation codes, changed *)
(* passwords and deleted users.                                            *)
(*                                                                         *)
(* A password and a login are known by the time they were set, so no two   *)
(* are alike.  A request that changes its user reads the row without a     *)
(* lock and later saves every field of the instance it read.  A browser    *)
(* has one session and sends one request at a time.                        *)
(***************************************************************************)
EXTENDS Integers, Sequences, FiniteSets

CONSTANTS User, Session, Nobody,
          Masquerader,  \* who has the permission to masquerade
          MaxClock,     \* the last moment at which something is set
          MaxCodes,     \* how many codes are mailed
          MaxDepth      \* how many users can masquerade over each other

ASSUME SessionsAssumption == Nobody \notin User /\ Masquerader \subseteq User

VARIABLES users,     \* the committed users; login 0 is a last_login of None
          sessions,  \* user, password hash and hijack_history of each session
          codes,     \* the reset and activation codes that were mailed
          req,       \* the request of each session between its read and its save
          clock,
          spent,     \* the codes with which a request has succeeded
          opened     \* who logged in to the session

vars == <<users, sessions, codes, req, clock, spent, opened>>

-----------------------------------------------------------------------------

Idle == [kind |-> "idle"]
Closed == [user |-> Nobody, hash |-> 0, hijackers |-> << >>]
Code(u, row) == [user |-> u, password |-> row.password, login |-> row.login]

(* request.user: the session of a deleted user, or one that was opened     *)
(* with another password, is nobody's.                                     *)
RequestUser(s) ==
  LET u == sessions[s].user
  IN IF u # Nobody /\ users[u].active /\ users[u].password = sessions[s].hash THEN u ELSE Nobody

(* auth.login: what is in the session stays if it is the user's already.   *)
Resumes(s, u, hash) == sessions[s].user = u /\ sessions[s].hash = hash
LoggedIn(s, u, hash) ==
  [user |-> u, hash |-> hash,
   hijackers |-> IF Resumes(s, u, hash) THEN sessions[s].hijackers ELSE << >>]
Opener(s, u, hash) == IF Resumes(s, u, hash) THEN opened[s] ELSE u

Init ==
  /\ users = [u \in User |-> [password |-> 0, login |-> 0, active |-> TRUE]]
  /\ sessions = [s \in Session |-> Closed]
  /\ codes = {} /\ spent = {}
  /\ req = [s \in Session |-> Idle]
  /\ clock = 1
  /\ opened = [s \in Session |-> Nobody]

-----------------------------------------------------------------------------

(* reset_request: get_users passes over the users that are deleted.        *)
ResetRequest(u) ==
  /\ users[u].active /\ Cardinality(codes) < MaxCodes
  /\ codes' = codes \cup {Code(u, users[u])}
  /\ UNCHANGED <<users, sessions, req, clock, spent, opened>>

(* send_activation_email: for a user who has never logged in.              *)
SendActivationEmail(u) ==
  /\ users[u].active /\ users[u].login = 0 /\ Cardinality(codes) < MaxCodes
  /\ codes' = codes \cup {Code(u, users[u])}
  /\ UNCHANGED <<users, sessions, req, clock, spent, opened>>

(* The read of login (authenticate), reset_password, activate (check_token)*)
(* and change_password (request.user).                                     *)
MayStart(s, u, kind) ==
  \/ kind = "login" /\ users[u].active
  \/ kind = "change" /\ RequestUser(s) = u
  \/ kind \in {"reset", "activate"} /\ Code(u, users[u]) \in codes
Read(s, u, kind) ==
  /\ req[s] = Idle
  /\ MayStart(s, u, kind)
  /\ req' = [req EXCEPT ![s] = [kind |-> kind, user |-> u, row |-> users[u]]]
  /\ UNCHANGED <<users, sessions, codes, clock, spent, opened>>

(* A wrong password, or one that validate_password refuses.                *)
Refuse(s) ==
  /\ req[s] # Idle
  /\ req' = [req EXCEPT ![s] = Idle]
  /\ UNCHANGED <<users, sessions, codes, clock, spent, opened>>

(* auth_login after the save; update_last_login writes its column alone.   *)
Stamped(row) == [row EXCEPT !.login = clock]

(* Mutant: who activates is not logged in.                                 *)
StoredQuietly(s) ==
  LET row == req[s].row
  IN IF req[s].kind = "login" THEN Stamped(users[req[s].user])
     ELSE IF req[s].kind = "activate" THEN [row EXCEPT !.active = TRUE]
     ELSE IF req[s].kind = "reset" THEN Stamped([row EXCEPT !.password = clock])
     ELSE [row EXCEPT !.password = clock]

(* Mutant: a new password makes the user active.                           *)
StoredActive(s) ==
  LET row == req[s].row
  IN IF req[s].kind = "login" THEN Stamped(users[req[s].user])
     ELSE IF req[s].kind = "activate" THEN Stamped([row EXCEPT !.active = TRUE])
     ELSE IF req[s].kind = "reset" THEN Stamped([row EXCEPT !.password = clock, !.active = TRUE])
     ELSE [row EXCEPT !.password = clock]

(* The row that the save of each request leaves.                           *)
Stored(s) ==
  LET row == req[s].row
  IN IF req[s].kind = "login" THEN Stamped(users[req[s].user])
     ELSE IF req[s].kind = "activate" THEN Stamped([row EXCEPT !.active = TRUE])
     ELSE IF req[s].kind = "reset" THEN Stamped([row EXCEPT !.password = clock])
     ELSE [row EXCEPT !.password = clock]

(* The password of the instance, which the session is signed with.         *)
Hash(s) == IF req[s].kind \in {"login", "activate"} THEN req[s].row.password ELSE clock

(* Mutant: update_session_auth_hash is not called.                         *)
SessionForgotten(s) ==
  IF req[s].kind = "change" THEN sessions[s] ELSE LoggedIn(s, req[s].user, Hash(s))

(* auth.login, or update_session_auth_hash.                                *)
SessionAfter(s) ==
  IF req[s].kind = "change" THEN [sessions[s] EXCEPT !.hash = Hash(s)]
  ELSE LoggedIn(s, req[s].user, Hash(s))

Save(s) ==
  /\ req[s] # Idle
  /\ clock < MaxClock /\ clock' = clock + 1
  /\ users' = [users EXCEPT ![req[s].user] = Stored(s)]
  /\ sessions' = [sessions EXCEPT ![s] = SessionAfter(s)]
  /\ opened' = [opened EXCEPT ![s] = IF req[s].kind = "change" THEN @ ELSE Opener(s, req[s].user, Hash(s))]
  /\ spent' = spent \cup IF req[s].kind \in {"reset", "activate"} THEN {Code(req[s].user, req[s].row)} ELSE {}
  /\ req' = [req EXCEPT ![s] = Idle]
  /\ UNCHANGED codes

-----------------------------------------------------------------------------

(* Mutant: the session remembers the last masquerader only.                *)
MasqueradeOver(s, u) ==
  /\ req[s] = Idle
  /\ RequestUser(s) \in Masquerader
  /\ Len(sessions[s].hijackers) < MaxDepth
  /\ sessions' = [sessions EXCEPT ![s] = [user |-> u, hash |-> users[u].password,
                                          hijackers |-> <<RequestUser(s)>>]]
  /\ UNCHANGED <<users, codes, req, clock, spent, opened>>

(* A login that leaves last_login alone; django-hijack keeps the history.  *)
Masquerade(s, u) ==
  /\ req[s] = Idle
  /\ RequestUser(s) \in Masquerader
  /\ Len(sessions[s].hijackers) < MaxDepth
  /\ sessions' = [sessions EXCEPT ![s] = [user |-> u, hash |-> users[u].password,
                                          hijackers |-> Append(@.hijackers, RequestUser(s))]]
  /\ UNCHANGED <<users, codes, req, clock, spent, opened>>

(* _end_masquerade: back to the last masquerader; no last_login is stamped.*)
Released(s) ==
  LET h == sessions[s].hijackers
      last == h[Len(h)]
  IN [user |-> last, hash |-> users[last].password, hijackers |-> SubSeq(h, 1, Len(h) - 1)]
EndMasquerade(s) ==
  /\ req[s] = Idle
  /\ RequestUser(s) # Nobody /\ sessions[s].hijackers # << >>
  /\ sessions' = [sessions EXCEPT ![s] = Released(s)]
  /\ UNCHANGED <<users, codes, req, clock, spent, opened>>

(* _logout: for who masquerades, this ends the masquerade and no more.     *)
Logout(s) ==
  \/ EndMasquerade(s)
  \/ /\ req[s] = Idle
     /\ RequestUser(s) # Nobody /\ sessions[s].hijackers = << >>
     /\ sessions' = [sessions EXCEPT ![s] = Closed]
     /\ opened' = [opened EXCEPT ![s] = Nobody]
     /\ UNCHANGED <<users, codes, req, clock, spent>>

(* soft_delete, on a row that DELETE has locked and read again.            *)
SoftDelete(u, undelete) ==
  /\ users[u].active = ~undelete
  /\ users' = [users EXCEPT ![u].active = undelete]
  /\ UNCHANGED <<sessions, codes, req, clock, spent, opened>>

Kinds == {"login", "change", "reset", "activate"}
Next ==
  \/ \E u \in User : \/ ResetRequest(u) \/ SendActivationEmail(u)
                     \/ \E undelete \in BOOLEAN : SoftDelete(u, undelete)
  \/ \E s \in Session : \/ Refuse(s) \/ Save(s) \/ EndMasquerade(s) \/ Logout(s)
                        \/ \E u \in User : Masquerade(s, u) \/ \E kind \in Kinds : Read(s, u, kind)

Spec == Init /\ [][Next]_vars

-----------------------------------------------------------------------------

Row == [password : Nat, login : Nat, active : BOOLEAN]
CodeSet == [user : User, password : Nat, login : Nat]

TypeOK ==
  /\ users \in [User -> Row]
  /\ sessions \in [Session -> [user : User \cup {Nobody}, hash : Nat, hijackers : Seq(User)]]
  /\ codes \subseteq CodeSet /\ spent \subseteq CodeSet
  /\ req \in [Session -> {Idle} \cup [kind : Kinds, user : User, row : Row]]
  /\ clock \in Nat
  /\ opened \in [Session -> User \cup {Nobody}]

(* A code with which a reset or an activation has succeeded is never taken *)
(* for a valid one again, although a request that read the user before may *)
(* still write back the password or the last login it has read: every save *)
(* makes one of the two new.                                               *)
SpentCodesRefused == \A u \in User : Code(u, users[u]) \notin spent

(* Ending masquerades one by one (and logging out does) leads back to the  *)
(* user who logged in to the session, through whatever logins, masquerades *)
(* and changes of passwords.                                               *)
BackToOpener ==
  \A s \in Session :
    IF sessions[s].hijackers = << >> THEN sessions[s].user = opened[s]
    ELSE sessions[s].hijackers[1] = opened[s] /\ sessions[s].user # Nobody

(* Who has set a new password is not logged out by it, and every other     *)
(* session of the user is, one that masquerades as the user too.           *)
OnlyOwnSessionKept == [][
  \A s \in Session :
    (req[s] # Idle /\ clock' # clock /\ req'[s] = Idle /\ req[s].kind \in {"change", "reset"}) =>
      \A other \in Session :
        sessions'[other].user = req[s].user =>
          (RequestUser(other)' = req[s].user <=> (other = s /\ users'[req[s].user].active))]_vars

(* A deleted user comes back by an undelete or an activation, or because a *)
(* request that read the user before the deletion saves it afterwards; no  *)
(* password, code or masquerade brings the user back.                      *)
DeletedStaysOut == [][
  \A u \in User : (~users[u].active /\ users'[u].active) =>
    \/ UNCHANGED <<sessions, req, clock>>
    \/ \E s \in Session : /\ req[s] # Idle /\ req'[s] = Idle /\ req[s].user = u
                          /\ \/ req[s].kind = "activate"
                             \/ req[s].kind # "login" /\ req[s].row.active]_vars
=============================================================================
