----------------------------- MODULE UsersProofs ------------------------------
(***************************************************************************)
(* Proofs about users: who a session belongs to (Sessions), and what the   *)
(* scopes of a user allow (ScopedRequests), for any users, sessions,       *)
(* permissions, rows and bounds.  The two machines share no state.         *)
(***************************************************************************)
EXTENDS Sessions, ScopedRequests, FiniteSetTheorems, TLAPS

(* Whatever is stored, read, or spent was set before now.                  *)
Earlier(row) == row.password < clock /\ row.login < clock
AllEarlier == /\ \A u \in User : Earlier(users[u])
              /\ \A c \in spent : Earlier(c)
              /\ \A s \in Session : req[s] # Idle => Earlier(req[s].row)

Inv == TypeOK /\ AllEarlier /\ SpentCodesRefused

-----------------------------------------------------------------------------

LEMMA RequestUserType ==
  ASSUME TypeOK, NEW s \in Session, RequestUser(s) # Nobody
  PROVE  RequestUser(s) \in User /\ RequestUser(s) = sessions[s].user
BY DEF TypeOK, RequestUser

LEMMA ReleasedType ==
  ASSUME TypeOK, NEW s \in Session, sessions[s].hijackers # << >>
  PROVE  /\ Released(s) \in [user : User, hash : Nat, hijackers : Seq(User)]
         /\ Len(sessions[s].hijackers) = 1 => Released(s).hijackers = << >>
         /\ Released(s).hijackers # << >> => Released(s).hijackers[1] = sessions[s].hijackers[1]
         /\ Len(sessions[s].hijackers) = 1 => Released(s).user = sessions[s].hijackers[1]
         /\ Len(sessions[s].hijackers) # 1 => Released(s).hijackers # << >>
<1> DEFINE h == sessions[s].hijackers
           t == SubSeq(h, 1, Len(h) - 1)
<1>1. h \in Seq(User) /\ Len(h) \in Nat /\ Len(h) >= 1
  BY DEF TypeOK
<1>2. h[Len(h)] \in User /\ users[h[Len(h)]].password \in Nat
  BY <1>1 DEF TypeOK, Row
<1>3. t \in Seq(User) /\ Len(t) = Len(h) - 1
  BY <1>1
<1>4. \A i \in 1..(Len(h) - 1) : t[i] = h[i]
  BY <1>1
<1>5. Released(s).hijackers = t /\ Released(s).user = h[Len(h)]
  BY DEF Released
<1>6. Released(s) \in [user : User, hash : Nat, hijackers : Seq(User)]
  BY <1>2, <1>3 DEF Released
<1>0. \A q \in Seq(User) : q = << >> <=> Len(q) = 0
  OBVIOUS
<1>7. t = << >> <=> Len(h) = 1
  <2> HIDE DEF t, h
  <2> QED BY <1>0, <1>1, <1>3
<1>8. t # << >> => t[1] = h[1]
  BY <1>1, <1>4, <1>7
<1> HIDE DEF t
<1> QED BY <1>5, <1>6, <1>7, <1>8

LEMMA SessionAfterType ==
  ASSUME TypeOK, NEW s \in Session, req[s] # Idle
  PROVE  SessionAfter(s) \in [user : User \cup {Nobody}, hash : Nat, hijackers : Seq(User)]
<1>1. req[s] \in [kind : Kinds, user : User, row : Row]
  BY DEF TypeOK
<1>2. Hash(s) \in Nat
  BY <1>1 DEF TypeOK, Hash, Row
<1>3. << >> \in Seq(User) /\ sessions[s].hijackers \in Seq(User)
  BY DEF TypeOK
<1> QED BY <1>1, <1>2, <1>3 DEF TypeOK, SessionAfter, LoggedIn

LEMMA StoredType ==
  ASSUME TypeOK, NEW s \in Session, req[s] # Idle
  PROVE  Stored(s) \in Row
<1>1. req[s].user \in User /\ req[s].row \in Row /\ users[req[s].user] \in Row /\ clock \in Nat
  BY DEF TypeOK
<1> QED BY <1>1 DEF Stored, Stamped, Row

-----------------------------------------------------------------------------

LEMMA TypeStep ==
  ASSUME TypeOK, [Next]_vars
  PROVE  TypeOK'
<1> USE SessionsAssumption
<1>1. ASSUME NEW u \in User, ResetRequest(u) \/ SendActivationEmail(u)
      PROVE  TypeOK'
  <2>1. Code(u, users[u]) \in CodeSet
    BY DEF TypeOK, Row, Code, CodeSet
  <2> QED BY <1>1, <2>1 DEF TypeOK, ResetRequest, SendActivationEmail
<1>2. ASSUME NEW u \in User, NEW undelete \in BOOLEAN, SoftDelete(u, undelete)
      PROVE  TypeOK'
  BY <1>2 DEF TypeOK, SoftDelete, Row
<1>3. ASSUME NEW s \in Session, Refuse(s)
      PROVE  TypeOK'
  BY <1>3 DEF TypeOK, Refuse
<1>4. ASSUME NEW s \in Session, Save(s)
      PROVE  TypeOK'
  <2>1. req[s] # Idle /\ req[s].user \in User /\ req[s].row \in Row
    BY <1>4 DEF TypeOK, Save
  <2>2. Stored(s) \in Row
    BY <2>1, StoredType
  <2>3. SessionAfter(s) \in [user : User \cup {Nobody}, hash : Nat, hijackers : Seq(User)]
    BY <2>1, SessionAfterType
  <2>4. Opener(s, req[s].user, Hash(s)) \in User \cup {Nobody}
    BY <2>1 DEF Opener, TypeOK
  <2>5. Code(req[s].user, req[s].row) \in CodeSet
    BY <2>1 DEF Code, CodeSet, Row
  <2>6. users' \in [User -> Row]
    BY <1>4, <2>2 DEF Save, TypeOK
  <2>7. sessions' \in [Session -> [user : User \cup {Nobody}, hash : Nat, hijackers : Seq(User)]]
    BY <1>4, <2>3 DEF Save, TypeOK
  <2>8. opened' \in [Session -> User \cup {Nobody}]
    BY <1>4, <2>4 DEF Save, TypeOK
  <2>9. spent' \subseteq CodeSet /\ codes' \subseteq CodeSet
    BY <1>4, <2>5 DEF Save, TypeOK
  <2>10. req' \in [Session -> {Idle} \cup [kind : Kinds, user : User, row : Row]] /\ clock' \in Nat
    BY <1>4 DEF Save, TypeOK
  <2> QED BY <2>6, <2>7, <2>8, <2>9, <2>10 DEF TypeOK
<1>5. ASSUME NEW s \in Session, EndMasquerade(s)
      PROVE  TypeOK'
  <2>1. Released(s) \in [user : User, hash : Nat, hijackers : Seq(User)]
    BY <1>5, ReleasedType DEF EndMasquerade
  <2> QED BY <1>5, <2>1 DEF TypeOK, EndMasquerade
<1>6. ASSUME NEW s \in Session, Logout(s)
      PROVE  TypeOK'
  <2>1. Closed \in [user : User \cup {Nobody}, hash : Nat, hijackers : Seq(User)]
    BY DEF Closed
  <2>2. CASE EndMasquerade(s)
    BY <1>5, <2>2
  <2>3. CASE ~EndMasquerade(s)
    <3>1. sessions' = [sessions EXCEPT ![s] = Closed] /\ opened' = [opened EXCEPT ![s] = Nobody]
      BY <1>6, <2>3 DEF Logout
    <3>2. UNCHANGED <<users, codes, req, clock, spent>>
      BY <1>6, <2>3 DEF Logout
    <3>3. sessions' \in [Session -> [user : User \cup {Nobody}, hash : Nat, hijackers : Seq(User)]]
      BY <2>1, <3>1 DEF TypeOK
    <3> QED BY <3>1, <3>2, <3>3 DEF TypeOK
  <2> QED BY <2>2, <2>3
<1>7. ASSUME NEW s \in Session, NEW u \in User, Masquerade(s, u)
      PROVE  TypeOK'
  <2>1. RequestUser(s) \in User /\ users[u].password \in Nat
    BY <1>7 DEF Masquerade, TypeOK, Row
  <2>2. Append(sessions[s].hijackers, RequestUser(s)) \in Seq(User)
    BY <2>1 DEF TypeOK
  <2> QED BY <1>7, <2>1, <2>2 DEF TypeOK, Masquerade
<1>8. ASSUME NEW s \in Session, NEW u \in User, NEW kind \in Kinds, Read(s, u, kind)
      PROVE  TypeOK'
  BY <1>8 DEF TypeOK, Read
<1>9. ASSUME UNCHANGED vars
      PROVE  TypeOK'
  BY <1>9 DEF TypeOK, vars
<1> QED BY <1>1, <1>2, <1>3, <1>4, <1>5, <1>6, <1>7, <1>8, <1>9 DEF Next

-----------------------------------------------------------------------------

(* The row that a save leaves has a password or a login of this moment.    *)
LEMMA StoredIsNew ==
  ASSUME Inv, NEW s \in Session, Save(s)
  PROVE  /\ Stored(s).password = clock \/ Stored(s).login = clock
         /\ Stored(s).password <= clock /\ Stored(s).login <= clock
<1>1. /\ req[s] # Idle /\ req[s].user \in User /\ req[s].row \in Row /\ req[s].kind \in Kinds
      /\ users[req[s].user] \in Row /\ clock \in Nat
  BY DEF Save, Inv, TypeOK
<1>2. Earlier(req[s].row) /\ Earlier(users[req[s].user])
  BY <1>1 DEF Inv, AllEarlier
<1> QED BY <1>1, <1>2 DEF Stored, Stamped, Row, Earlier, Kinds

LEMMA AllEarlierStep ==
  ASSUME Inv, [Next]_vars
  PROVE  AllEarlier'
<1> USE DEF Inv
<1>1. ASSUME NEW s \in Session, Save(s)
      PROVE  AllEarlier'
  <2>1. clock \in Nat /\ clock' = clock + 1 /\ req[s] # Idle /\ req[s].user \in User
    BY <1>1 DEF Save, TypeOK
  <2>2. \A u \in User : Earlier(users[u])'
    <3> TAKE u \in User
    <3>1. CASE u = req[s].user
      <4>1. users'[u] = Stored(s)
        BY <1>1, <3>1 DEF Save, TypeOK
      <4>2. Stored(s) \in Row
        BY <2>1, StoredType
      <4> QED BY <1>1, <2>1, <4>1, <4>2, StoredIsNew DEF Earlier, Row
    <3>2. CASE u # req[s].user
      <4>1. users'[u] = users[u] /\ users[u] \in Row /\ Earlier(users[u])
        BY <1>1, <3>2 DEF Save, TypeOK, AllEarlier
      <4> QED BY <2>1, <4>1 DEF Earlier, Row
    <3> QED BY <3>1, <3>2
  <2>3. \A c \in spent' : Earlier(c)'
    <3> TAKE c \in spent'
    <3>1. c \in spent \/ c = Code(req[s].user, req[s].row)
      BY <1>1 DEF Save
    <3>2. Earlier(req[s].row) /\ req[s].row \in Row
      BY <2>1 DEF AllEarlier, TypeOK
    <3>3. c.password < clock /\ c.login < clock /\ c.password \in Nat /\ c.login \in Nat
      BY <3>1, <3>2 DEF AllEarlier, Earlier, Code, TypeOK, CodeSet, Row
    <3> QED BY <2>1, <3>3 DEF Earlier
  <2>4. \A r \in Session : req'[r] # Idle => Earlier(req[r].row)'
    <3> SUFFICES ASSUME NEW r \in Session, req'[r] # Idle
                 PROVE  Earlier(req[r].row)'
      OBVIOUS
    <3>1. req'[r] = req[r]
      BY <1>1 DEF Save, TypeOK
    <3>2. req[r].row \in Row /\ Earlier(req[r].row)
      BY <3>1 DEF AllEarlier, TypeOK
    <3> QED BY <2>1, <3>1, <3>2 DEF Earlier, Row
  <2> QED BY <2>2, <2>3, <2>4 DEF AllEarlier
<1>2. ASSUME NEW u \in User, ResetRequest(u) \/ SendActivationEmail(u)
      PROVE  AllEarlier'
  BY <1>2 DEF ResetRequest, SendActivationEmail, AllEarlier, Earlier
<1>3. ASSUME NEW u \in User, NEW undelete \in BOOLEAN, SoftDelete(u, undelete)
      PROVE  AllEarlier'
  BY <1>3 DEF SoftDelete, AllEarlier, Earlier, TypeOK, Row
<1>4. ASSUME NEW s \in Session, NEW u \in User, NEW kind \in Kinds, Read(s, u, kind)
      PROVE  AllEarlier'
  BY <1>4 DEF Read, AllEarlier, Earlier, TypeOK
<1>5. ASSUME NEW s \in Session, Refuse(s)
      PROVE  AllEarlier'
  BY <1>5 DEF Refuse, AllEarlier, Earlier, TypeOK
<1>6. ASSUME NEW s \in Session, EndMasquerade(s) \/ Logout(s) \/ \E u \in User : Masquerade(s, u)
      PROVE  AllEarlier'
  BY <1>6 DEF EndMasquerade, Logout, Masquerade, AllEarlier, Earlier
<1>7. ASSUME UNCHANGED vars
      PROVE  AllEarlier'
  BY <1>7 DEF vars, AllEarlier, Earlier
<1> QED BY <1>1, <1>2, <1>3, <1>4, <1>5, <1>6, <1>7 DEF Next

LEMMA SpentStep ==
  ASSUME Inv, [Next]_vars
  PROVE  SpentCodesRefused'
<1> USE DEF Inv
<1>1. ASSUME NEW s \in Session, Save(s)
      PROVE  SpentCodesRefused'
  <2> SUFFICES ASSUME NEW u \in User
               PROVE  Code(u, users'[u]) \notin spent'
    BY DEF SpentCodesRefused, Code
  <2>1. req[s] # Idle /\ req[s].user \in User /\ req[s].row \in Row /\ Earlier(req[s].row) /\ clock \in Nat
    BY <1>1 DEF Save, TypeOK, AllEarlier
  <2>2. spent' \subseteq spent \cup {Code(req[s].user, req[s].row)}
    BY <1>1 DEF Save
  <2>3. CASE u = req[s].user
    <3>1. users'[u] = Stored(s)
      BY <1>1, <2>3 DEF Save, TypeOK
    <3>2. \A c \in spent' : c.password < clock /\ c.login < clock
      BY <2>1, <2>2 DEF AllEarlier, Earlier, Code
    <3>3. Code(u, Stored(s)).password = Stored(s).password /\ Code(u, Stored(s)).login = Stored(s).login
      BY DEF Code
    <3>4. Stored(s).password = clock \/ Stored(s).login = clock
      BY <1>1, StoredIsNew
    <3> QED BY <2>1, <3>1, <3>2, <3>3, <3>4
  <2>4. CASE u # req[s].user
    <3>1. users'[u] = users[u]
      BY <1>1, <2>4 DEF Save, TypeOK
    <3>2. Code(u, users[u]) # Code(req[s].user, req[s].row)
      BY <2>4 DEF Code
    <3> QED BY <2>2, <3>1, <3>2 DEF SpentCodesRefused
  <2> QED BY <2>3, <2>4
<1>2. ASSUME NEW u \in User, NEW undelete \in BOOLEAN, SoftDelete(u, undelete)
      PROVE  SpentCodesRefused'
  BY <1>2 DEF SoftDelete, SpentCodesRefused, Code, TypeOK, Row
<1>3. CASE UNCHANGED <<users, spent>>
  BY <1>3 DEF SpentCodesRefused, Code
<1>4. ASSUME NEW s \in Session,
             Refuse(s) \/ EndMasquerade(s) \/ Logout(s) \/ \E u \in User : Masquerade(s, u) \/ \E kind \in Kinds : Read(s, u, kind)
      PROVE  UNCHANGED <<users, spent>>
  BY <1>4 DEF Refuse, EndMasquerade, Logout, Masquerade, Read
<1>5. ASSUME NEW u \in User, ResetRequest(u) \/ SendActivationEmail(u)
      PROVE  UNCHANGED <<users, spent>>
  BY <1>5 DEF ResetRequest, SendActivationEmail
<1> QED BY <1>1, <1>2, <1>3, <1>4, <1>5 DEF Next, vars

(* Init establishes the invariant; every step keeps it.                    *)
LEMMA InvHolds == Spec => []Inv
<1>1. Init => Inv
  BY DEF Init, Inv, TypeOK, AllEarlier, SpentCodesRefused, Earlier, Row, Closed
<1>2. Inv /\ [Next]_vars => Inv'
  BY TypeStep, AllEarlierStep, SpentStep DEF Inv
<1> QED BY <1>1, <1>2, PTL DEF Spec

(* A code with which a reset or an activation succeeded stays refused: the *)
(* stale rows that concurrent requests save never make it valid again.     *)
THEOREM SpentCodesStayRefused == Spec => []SpentCodesRefused
<1>1. Inv => SpentCodesRefused
  BY DEF Inv
<1> QED BY <1>1, InvHolds, PTL

-----------------------------------------------------------------------------

LEMMA OpenerStep ==
  ASSUME TypeOK, BackToOpener, [Next]_vars
  PROVE  BackToOpener'
<1> USE SessionsAssumption
<1> DEFINE Home(s) == IF sessions[s].hijackers = << >> THEN sessions[s].user = opened[s]
                      ELSE sessions[s].hijackers[1] = opened[s] /\ sessions[s].user # Nobody
<1>1. ASSUME NEW s \in Session, Save(s)
      PROVE  BackToOpener'
  <2>1. req[s] # Idle /\ req[s].user \in User
    BY <1>1 DEF Save, TypeOK
  <2>2. \A r \in Session \ {s} : sessions'[r] = sessions[r] /\ opened'[r] = opened[r]
    BY <1>1 DEF Save, TypeOK
  <2>3. sessions'[s] = SessionAfter(s)
        /\ opened'[s] = IF req[s].kind = "change" THEN opened[s] ELSE Opener(s, req[s].user, Hash(s))
    BY <1>1 DEF Save, TypeOK
  <2>4. Home(s)'
    BY <2>1, <2>3 DEF SessionAfter, LoggedIn, Opener, Resumes, BackToOpener, TypeOK
  <2> QED BY <2>2, <2>4 DEF BackToOpener
<1>2. ASSUME NEW s \in Session, NEW u \in User, Masquerade(s, u)
      PROVE  BackToOpener'
  <2> DEFINE h == sessions[s].hijackers
  <2>1. RequestUser(s) = sessions[s].user /\ RequestUser(s) \in User /\ h \in Seq(User)
    BY <1>2, RequestUserType DEF Masquerade, TypeOK
  <2>2. \A r \in Session \ {s} : sessions'[r] = sessions[r]
    BY <1>2 DEF Masquerade, TypeOK
  <2>3. /\ sessions'[s].hijackers = Append(h, RequestUser(s)) /\ sessions'[s].user = u
        /\ opened' = opened
    BY <1>2 DEF Masquerade, TypeOK
  <2>4. /\ Append(h, RequestUser(s)) # << >>
        /\ h = << >> => Append(h, RequestUser(s))[1] = RequestUser(s)
        /\ h # << >> => Append(h, RequestUser(s))[1] = h[1]
    BY <2>1
  <2>5. Home(s)'
    BY <2>1, <2>3, <2>4 DEF BackToOpener
  <2> QED BY <2>2, <2>3, <2>5 DEF BackToOpener
<1>3. ASSUME NEW s \in Session, EndMasquerade(s)
      PROVE  BackToOpener'
  <2>1. \A r \in Session \ {s} : sessions'[r] = sessions[r]
    BY <1>3 DEF EndMasquerade, TypeOK
  <2>2. sessions'[s] = Released(s) /\ opened' = opened /\ sessions[s].hijackers # << >>
    BY <1>3 DEF EndMasquerade, TypeOK
  <2>3. Home(s)'
    BY <2>2, ReleasedType DEF BackToOpener
  <2> QED BY <2>1, <2>2, <2>3 DEF BackToOpener
<1>4. ASSUME NEW s \in Session, Logout(s)
      PROVE  BackToOpener'
  <2>1. CASE EndMasquerade(s)
    BY <1>3, <2>1
  <2>2. CASE ~EndMasquerade(s)
    <3>1. sessions' = [sessions EXCEPT ![s] = Closed] /\ opened' = [opened EXCEPT ![s] = Nobody]
      BY <1>4, <2>2 DEF Logout
    <3>2. \A r \in Session \ {s} : sessions'[r] = sessions[r] /\ opened'[r] = opened[r]
      BY <3>1 DEF TypeOK
    <3>3. sessions'[s].hijackers = << >> /\ sessions'[s].user = Nobody /\ opened'[s] = Nobody
      BY <3>1 DEF TypeOK, Closed
    <3> QED BY <3>2, <3>3 DEF BackToOpener
  <2> QED BY <2>1, <2>2
<1>5. CASE UNCHANGED <<sessions, opened>>
  BY <1>5 DEF BackToOpener
<1>6. ASSUME NEW s \in Session, Refuse(s) \/ \E u \in User, kind \in Kinds : Read(s, u, kind)
      PROVE  UNCHANGED <<sessions, opened>>
  BY <1>6 DEF Refuse, Read
<1>7. ASSUME NEW u \in User,
             ResetRequest(u) \/ SendActivationEmail(u) \/ \E undelete \in BOOLEAN : SoftDelete(u, undelete)
      PROVE  UNCHANGED <<sessions, opened>>
  BY <1>7 DEF ResetRequest, SendActivationEmail, SoftDelete
<1> QED BY <1>1, <1>2, <1>3, <1>4, <1>5, <1>6, <1>7 DEF Next, vars

(* However masquerades are nested, ending them one by one leads back to    *)
(* the user who logged in.                                                 *)
THEOREM MasqueradesUnwind == Spec => []BackToOpener
<1>1. Init => BackToOpener
  BY DEF Init, BackToOpener, Closed
<1>2. Inv /\ BackToOpener /\ [Next]_vars => BackToOpener'
  BY OpenerStep DEF Inv
<1> QED BY <1>1, <1>2, InvHolds, PTL DEF Spec

-----------------------------------------------------------------------------

(* No session is signed with a password that is still to be set.           *)
SignedEarlier == clock > 0 /\ \A s \in Session : sessions[s].hash < clock

LEMMA SignedStep ==
  ASSUME Inv, SignedEarlier, [Next]_vars
  PROVE  SignedEarlier'
<1> USE DEF Inv
<1>0. clock \in Nat /\ \A s \in Session : sessions[s].hash \in Nat
  BY DEF TypeOK
<1>1. ASSUME NEW s \in Session, Save(s)
      PROVE  SignedEarlier'
  <2>1. req[s] # Idle /\ req[s].row \in Row /\ Earlier(req[s].row) /\ clock' = clock + 1
    BY <1>1 DEF Save, TypeOK, AllEarlier
  <2>2. Hash(s) \in Nat /\ Hash(s) <= clock
    BY <1>0, <2>1 DEF Hash, Earlier, Row
  <2>3. sessions'[s].hash = Hash(s) /\ \A r \in Session \ {s} : sessions'[r] = sessions[r]
    BY <1>1 DEF Save, TypeOK, SessionAfter, LoggedIn
  <2> QED BY <1>0, <2>1, <2>2, <2>3 DEF SignedEarlier
<1>2. ASSUME NEW s \in Session, NEW new, sessions' = [sessions EXCEPT ![s] = new], clock' = clock,
             new.hash < clock
      PROVE  SignedEarlier'
  BY <1>2 DEF SignedEarlier, TypeOK
<1>3. ASSUME NEW s \in Session, NEW u \in User, Masquerade(s, u)
      PROVE  SignedEarlier'
  <2>1. users[u].password < clock
    BY DEF AllEarlier, Earlier
  <2> DEFINE new == [user |-> u, hash |-> users[u].password,
                     hijackers |-> Append(sessions[s].hijackers, RequestUser(s))]
  <2>2. sessions' = [sessions EXCEPT ![s] = new] /\ clock' = clock
    BY <1>3 DEF Masquerade
  <2>3. new.hash < clock
    BY <2>1
  <2> HIDE DEF new
  <2> QED BY <1>2, <2>2, <2>3
<1>4. ASSUME NEW s \in Session, EndMasquerade(s)
      PROVE  SignedEarlier'
  <2>1. Released(s).user \in User /\ Released(s).hash = users[Released(s).user].password
    BY <1>4, ReleasedType DEF EndMasquerade, Released
  <2>2. Released(s).hash < clock
    BY <2>1 DEF AllEarlier, Earlier
  <2> QED BY <1>2, <1>4, <2>2 DEF EndMasquerade
<1>5. ASSUME NEW s \in Session, Logout(s)
      PROVE  SignedEarlier'
  <2>1. CASE ~EndMasquerade(s)
    BY <1>2, <1>5, <2>1 DEF Logout, Closed, SignedEarlier
  <2> QED BY <1>4, <2>1
<1>6. CASE UNCHANGED <<sessions, clock>>
  BY <1>6 DEF SignedEarlier
<1>7. ASSUME NEW s \in Session, Refuse(s) \/ \E u \in User, kind \in Kinds : Read(s, u, kind)
      PROVE  UNCHANGED <<sessions, clock>>
  BY <1>7 DEF Refuse, Read
<1>8. ASSUME NEW u \in User,
             ResetRequest(u) \/ SendActivationEmail(u) \/ \E undelete \in BOOLEAN : SoftDelete(u, undelete)
      PROVE  UNCHANGED <<sessions, clock>>
  BY <1>8 DEF ResetRequest, SendActivationEmail, SoftDelete
<1> QED BY <1>1, <1>3, <1>4, <1>5, <1>6, <1>7, <1>8 DEF Next, vars

(* Only Save moves the clock, for the session whose request it ends.       *)
LEMMA ClockMoves ==
  ASSUME TypeOK, [Next]_vars, clock' # clock, NEW s \in Session, req[s] # Idle, req'[s] = Idle
  PROVE  Save(s)
<1>1. PICK r \in Session : Save(r)
  BY DEF Next, vars, ResetRequest, SendActivationEmail, SoftDelete, Refuse, EndMasquerade,
         Logout, Masquerade, Read
<1>2. r = s
  BY <1>1 DEF Save, TypeOK
<1> QED BY <1>1, <1>2

(* Who sets a new password stays logged in with it, and every other session *)
(* of the user ends with it, for any number of sessions and however they    *)
(* masquerade.                                                              *)
THEOREM PasswordEndsSessions == Spec => OnlyOwnSessionKept
<1>1. ASSUME Inv, SignedEarlier, [Next]_vars
      PROVE  \A s \in Session :
               (req[s] # Idle /\ clock' # clock /\ req'[s] = Idle /\ req[s].kind \in {"change", "reset"}) =>
                 \A other \in Session :
                   sessions'[other].user = req[s].user =>
                     (RequestUser(other)' = req[s].user <=> (other = s /\ users'[req[s].user].active))
  <2> SUFFICES ASSUME NEW s \in Session, req[s] # Idle, clock' # clock, req'[s] = Idle,
                      req[s].kind \in {"change", "reset"},
                      NEW other \in Session, sessions'[other].user = req[s].user
               PROVE  RequestUser(other)' = req[s].user <=> (other = s /\ users'[req[s].user].active)
    OBVIOUS
  <2> DEFINE u == req[s].user
  <2>1. Save(s) /\ u \in User /\ clock \in Nat
    BY <1>1, ClockMoves DEF Inv, TypeOK
  <2>2. users'[u] = Stored(s) /\ Stored(s).password = clock
    BY <1>1, <2>1 DEF Save, Inv, TypeOK, Stored, Stamped, Row
  <2>3. RequestUser(other)' = u <=> (users'[u].active /\ sessions'[other].hash = clock)
    BY <2>1, <2>2, SessionsAssumption DEF RequestUser
  <2>4. sessions'[s].hash = clock
    BY <1>1, <2>1 DEF Save, Inv, TypeOK, SessionAfter, LoggedIn, Hash
  <2>5. other # s => sessions'[other].hash < clock
    BY <1>1, <2>1 DEF Save, Inv, TypeOK, SignedEarlier
  <2>6. sessions'[other].hash = clock <=> other = s
    <3>1. sessions[other].hash \in Nat
      BY <1>1 DEF Inv, TypeOK
    <3>2. other # s => sessions'[other] = sessions[other]
      BY <1>1, <2>1 DEF Save, Inv, TypeOK
    <3> QED BY <2>1, <2>4, <2>5, <3>1, <3>2
  <2> QED BY <2>3, <2>6
<1>2. Init => SignedEarlier
  BY DEF Init, SignedEarlier, Closed
<1>3. Inv /\ SignedEarlier /\ [Next]_vars => SignedEarlier'
  BY SignedStep
<1> QED BY <1>1, <1>2, <1>3, InvHolds, PTL DEF Spec, OnlyOwnSessionKept

(* No login, password or masquerade brings a deleted user back: only an    *)
(* undelete, an activation, or the save of an instance read before.        *)
THEOREM DeletedUsersStayOut == Spec => DeletedStaysOut
<1>1. ASSUME TypeOK, [Next]_vars
      PROVE  \A u \in User : (~users[u].active /\ users'[u].active) =>
               \/ UNCHANGED <<sessions, req, clock>>
               \/ \E s \in Session : /\ req[s] # Idle /\ req'[s] = Idle /\ req[s].user = u
                                     /\ \/ req[s].kind = "activate"
                                        \/ req[s].kind # "login" /\ req[s].row.active
  <2> SUFFICES ASSUME NEW u \in User, ~users[u].active, users'[u].active
               PROVE  \/ UNCHANGED <<sessions, req, clock>>
                      \/ \E s \in Session : /\ req[s] # Idle /\ req'[s] = Idle /\ req[s].user = u
                                            /\ \/ req[s].kind = "activate"
                                               \/ req[s].kind # "login" /\ req[s].row.active
    OBVIOUS
  <2>1. \/ \E s \in Session : Save(s)
        \/ \E v \in User, undelete \in BOOLEAN : SoftDelete(v, undelete)
    BY <1>1 DEF Next, vars, ResetRequest, SendActivationEmail, Refuse, EndMasquerade,
                Logout, Masquerade, Read
  <2>2. CASE \E v \in User, undelete \in BOOLEAN : SoftDelete(v, undelete)
    BY <2>2 DEF SoftDelete
  <2>3. ASSUME NEW s \in Session, Save(s)
        PROVE  /\ req[s] # Idle /\ req'[s] = Idle /\ req[s].user = u
               /\ \/ req[s].kind = "activate"
                  \/ req[s].kind # "login" /\ req[s].row.active
    <3>1. /\ req[s] # Idle /\ req'[s] = Idle
          /\ req[s] \in [kind : Kinds, user : User, row : Row]
      BY <1>1, <2>3 DEF Save, TypeOK
    <3>2. req[s].user = u
      BY <1>1, <2>3, <3>1 DEF Save, TypeOK
    <3>3. users'[u] = Stored(s)
      BY <1>1, <2>3, <3>2 DEF Save, TypeOK
    <3>4. Stored(s).active = IF req[s].kind = "login" THEN users[u].active
                             ELSE req[s].kind = "activate" \/ req[s].row.active
      BY <1>1, <3>1, <3>2 DEF Stored, Stamped, Row, TypeOK, Kinds
    <3> QED BY <3>1, <3>2, <3>3, <3>4
  <2> QED BY <2>1, <2>2, <2>3
<1>2. Inv => TypeOK
  BY DEF Inv
<1> QED BY <1>1, <1>2, InvHolds, PTL DEF Spec, DeletedStaysOut

-----------------------------------------------------------------------------

(* ScopedRequests: what is in its variables.                               *)
Partial(V) == UNION {[S -> V] : S \in SUBSET Pk}
Request == [phase : {"find", "lock", "store"}, user : DOMAIN Users, kind : DOMAIN Upfront,
            targets : SUBSET Pk, facts : SUBSET Fact,
            obj : Partial(SUBSET Fact), written : Partial({Absent} \cup SUBSET Fact)]
Answered == [phase : {"answer"}, user : DOMAIN Users, shown : SUBSET Pk]
ScopedTypeOK ==
  /\ rows \in Table
  /\ fresh \subseteq Pk
  /\ lock \in [Pk -> Thread \cup {NoThread}]
  /\ serving \in [Thread -> {NoRequest} \cup Request \cup Answered]

(* A scope of the user allows what a request has done with a row.          *)
Judged(t, r) ==
  \/ serving[t].kind = "upload"
  \/ serving[t].kind \in {"put", "multi"} /\ Allowed(serving[t].user, "change", rows[r])
  \/ serving[t].kind = "delete" /\ Allowed(serving[t].user, "delete", rows[r])
  \/ /\ serving[t].kind = "post" /\ Allowed(serving[t].user, "add", serving[t].facts)
     /\ serving[t].written[r] = serving[t].facts

(* What a request has locked and read is still so, and what it wrote is    *)
(* locked and was judged by the row as it is.                              *)
Held(t) ==
  serving[t] \in Request =>
    /\ \A r \in DOMAIN serving[t].written : lock[r] = t /\ Judged(t, r)
    /\ serving[t].kind \in {"put", "multi", "delete"} =>
         \A r \in DOMAIN serving[t].obj : lock[r] = t /\ rows[r] = serving[t].obj[r]
    /\ serving[t].phase = "lock" => serving[t].kind \in {"put", "multi", "delete"}
    /\ serving[t].phase = "store" =>
         /\ serving[t].kind \in DOMAIN ScopeOf
         /\ serving[t].kind # "post" => serving[t].targets \subseteq DOMAIN serving[t].obj
    /\ serving[t].kind = "upload" => \E r \in Pk : serving[t].targets = {r}

ScopedInv == ScopedTypeOK /\ \A t \in Thread : Held(t)

LEMMA WithAt ==
  ASSUME NEW f, NEW r, NEW v
  PROVE  With(f, r, v)[r] = v
BY DEF With

LEMMA WithOther ==
  ASSUME NEW f, NEW r, NEW v, NEW x \in DOMAIN f, x # r
  PROVE  With(f, r, v)[x] = f[x]
BY DEF With

LEMMA WithPartial ==
  ASSUME NEW V, NEW f \in Partial(V), NEW r \in Pk, NEW v \in V
  PROVE  With(f, r, v) \in Partial(V) /\ DOMAIN With(f, r, v) = DOMAIN f \cup {r}
<1>1. DOMAIN f \subseteq Pk /\ \A x \in DOMAIN f : f[x] \in V
  BY DEF Partial
<1>2. With(f, r, v) \in [DOMAIN f \cup {r} -> V]
  BY <1>1 DEF With
<1>3. DOMAIN f \cup {r} \in SUBSET Pk
  BY <1>1
<1> QED BY <1>2, <1>3 DEF Partial

LEMMA EmptyPartial ==
  ASSUME NEW V
  PROVE  Empty \in Partial(V)
<1>1. Empty \in [{} -> V] /\ {} \in SUBSET Pk
  BY DEF Empty
<1> QED BY <1>1 DEF Partial

LEMMA RequestFields ==
  ASSUME NEW q \in Request
  PROVE  /\ q.phase \in {"find", "lock", "store"} /\ q.user \in DOMAIN Users /\ q.kind \in DOMAIN Upfront
         /\ q.targets \subseteq Pk /\ q.facts \in SUBSET Fact
         /\ q.obj \in Partial(SUBSET Fact) /\ q.written \in Partial({Absent} \cup SUBSET Fact)
         /\ DOMAIN q.obj \subseteq Pk /\ DOMAIN q.written \subseteq Pk
BY DEF Request, Partial

LEMMA Phases ==
  /\ NoRequest.phase = "idle" /\ NoRequest \notin Request
  /\ \A q \in Request : q.phase \in {"find", "lock", "store"} /\ q # NoRequest
  /\ \A q \in Answered : q.phase = "answer" /\ q \notin Request
BY DEF NoRequest, Request, Answered

LEMMA WorkingRequest ==
  ASSUME ScopedTypeOK, NEW t \in Thread, serving[t].phase \in {"find", "lock", "store"}
  PROVE  serving[t] \in Request
BY Phases DEF ScopedTypeOK

(* The request of another thread is as it was, and so are its rows.        *)
LEMMA OthersHeld ==
  ASSUME ScopedTypeOK, NEW t \in Thread, NEW s \in Thread, Held(s), serving'[s] = serving[s],
         \A r \in Pk : lock[r] = s => lock'[r] = s /\ rows'[r] = rows[r]
  PROVE  Held(s)'
<1> SUFFICES ASSUME serving[s] \in Request
             PROVE  Held(s)'
  BY DEF Held
<1>1. DOMAIN serving[s].obj \subseteq Pk /\ DOMAIN serving[s].written \subseteq Pk
  BY RequestFields
<1>2. \A r \in DOMAIN serving[s].written : lock'[r] = s /\ Judged(s, r)'
  BY <1>1 DEF Held, Judged
<1> QED BY <1>1, <1>2 DEF Held

(* The request loads a row.                                                *)
LEMMA LoadFields ==
  ASSUME ScopedTypeOK, NEW t \in Thread, serving[t] \in Request, NEW r \in Pk, Exists(r),
         NEW phase \in {"lock", "store"}, Load(t, r, phase)
  PROVE  /\ serving' \in [Thread -> {NoRequest} \cup Request \cup Answered]
         /\ serving'[t] \in Request
         /\ \A s \in Thread : s # t => serving'[s] = serving[s]
         /\ serving'[t].phase = phase /\ serving'[t].user = serving[t].user
         /\ serving'[t].kind = serving[t].kind /\ serving'[t].targets = serving[t].targets
         /\ serving'[t].facts = serving[t].facts /\ serving'[t].written = serving[t].written
         /\ serving'[t].obj = With(serving[t].obj, r, rows[r])
         /\ DOMAIN serving'[t].obj = DOMAIN serving[t].obj \cup {r}
         /\ serving'[t].obj[r] = rows[r]
         /\ \A x \in DOMAIN serving[t].obj : x # r => serving'[t].obj[x] = serving[t].obj[x]
<1>1. rows[r] \in SUBSET Fact
  BY DEF ScopedTypeOK, Table, Exists
<1>2. serving[t].obj \in Partial(SUBSET Fact)
  BY RequestFields
<1> DEFINE obj == With(serving[t].obj, r, rows[r])
<1>3. obj \in Partial(SUBSET Fact)
  BY <1>1, <1>2, WithPartial
<1>c. DOMAIN obj = DOMAIN serving[t].obj \cup {r}
  BY DEF With
<1>a. obj[r] = rows[r]
  BY WithAt
<1>b. \A x \in DOMAIN serving[t].obj : x # r => obj[x] = serving[t].obj[x]
  BY WithOther
<1> HIDE DEF obj
<1>4. serving' = [serving EXCEPT ![t].obj = obj, ![t].phase = phase]
  BY DEF Load, obj
<1>5. serving' = [serving EXCEPT ![t] = [serving[t] EXCEPT !.obj = obj, !.phase = phase]]
  BY <1>4 DEF ScopedTypeOK
<1>6. [serving[t] EXCEPT !.obj = obj, !.phase = phase] \in Request
  BY <1>3 DEF Request
<1>7. serving'[t] = [serving[t] EXCEPT !.obj = obj, !.phase = phase]
  BY <1>5 DEF ScopedTypeOK
<1>8. /\ serving'[t].phase = phase /\ serving'[t].user = serving[t].user
      /\ serving'[t].kind = serving[t].kind /\ serving'[t].targets = serving[t].targets
      /\ serving'[t].facts = serving[t].facts /\ serving'[t].written = serving[t].written
      /\ serving'[t].obj = obj
  BY <1>7 DEF Request
<1>9. serving' \in [Thread -> {NoRequest} \cup Request \cup Answered] /\ \A s \in Thread : s # t => serving'[s] = serving[s]
  BY <1>5, <1>6 DEF ScopedTypeOK
<1>10. serving'[t] \in Request
  BY <1>6, <1>7
<1>11. serving'[t].obj = With(serving[t].obj, r, rows[r])
  BY <1>8 DEF obj
<1> QED BY <1>3, <1>c, <1>a, <1>b, <1>8, <1>9, <1>10, <1>11

LEMMA StoreFields ==
  ASSUME ScopedTypeOK, NEW t \in Thread, serving[t] \in Request, NEW r \in Pk,
         Saved(t, r) \in {Absent} \cup SUBSET Fact, Store(t, r)
  PROVE  /\ serving' \in [Thread -> {NoRequest} \cup Request \cup Answered]
         /\ serving'[t] \in Request
         /\ \A s \in Thread : s # t => serving'[s] = serving[s]
         /\ serving'[t].phase = serving[t].phase /\ serving'[t].user = serving[t].user
         /\ serving'[t].kind = serving[t].kind /\ serving'[t].targets = serving[t].targets
         /\ serving'[t].facts = serving[t].facts /\ serving'[t].obj = serving[t].obj
         /\ DOMAIN serving'[t].written = DOMAIN serving[t].written \cup {r}
         /\ serving'[t].written[r] = Saved(t, r)
         /\ \A x \in DOMAIN serving[t].written : x # r => serving'[t].written[x] = serving[t].written[x]
<1>1. serving[t].written \in Partial({Absent} \cup SUBSET Fact)
  BY RequestFields
<1> DEFINE written == With(serving[t].written, r, Saved(t, r))
<1>2. written \in Partial({Absent} \cup SUBSET Fact)
  BY <1>1, WithPartial
<1>3. DOMAIN written = DOMAIN serving[t].written \cup {r}
  BY DEF With
<1>4. written[r] = Saved(t, r)
  BY WithAt
<1>5. \A x \in DOMAIN serving[t].written : x # r => written[x] = serving[t].written[x]
  BY WithOther
<1>6. serving' = [serving EXCEPT ![t].written = written]
  BY DEF Store
<1> HIDE DEF written
<1>7. serving' = [serving EXCEPT ![t] = [serving[t] EXCEPT !.written = written]]
  BY <1>6 DEF ScopedTypeOK
<1>8. [serving[t] EXCEPT !.written = written] \in Request
  BY <1>2 DEF Request
<1>9. serving'[t] = [serving[t] EXCEPT !.written = written]
  BY <1>7 DEF ScopedTypeOK
<1>10. /\ serving'[t].phase = serving[t].phase /\ serving'[t].user = serving[t].user
       /\ serving'[t].kind = serving[t].kind /\ serving'[t].targets = serving[t].targets
       /\ serving'[t].facts = serving[t].facts /\ serving'[t].obj = serving[t].obj
       /\ serving'[t].written = written
  BY <1>9 DEF Request
<1>11. serving' \in [Thread -> {NoRequest} \cup Request \cup Answered] /\ \A s \in Thread : s # t => serving'[s] = serving[s]
  BY <1>7, <1>8 DEF ScopedTypeOK
<1>12. serving'[t] \in Request
  BY <1>8, <1>9
<1> QED BY <1>3, <1>4, <1>5, <1>10, <1>11, <1>12

-----------------------------------------------------------------------------

LEMMA EndStep ==
  ASSUME ScopedInv, NEW t \in Thread, End(t)
  PROVE  ScopedInv'
<1> USE ScopedAssumption
<1>1. ScopedTypeOK'
  BY DEF ScopedInv, ScopedTypeOK, End
<1>2. serving'[t] = NoRequest /\ \A s \in Thread : s # t => serving'[s] = serving[s]
  BY DEF ScopedInv, ScopedTypeOK, End
<1>3. \A s \in Thread, r \in Pk : s # t /\ lock[r] = s => lock'[r] = s /\ rows'[r] = rows[r]
  BY DEF ScopedInv, ScopedTypeOK, End
<1>4. Held(t)'
  BY <1>2, Phases DEF Held
<1>5. ASSUME NEW s \in Thread, s # t
      PROVE  Held(s)'
  BY <1>2, <1>3, <1>5, OthersHeld DEF ScopedInv
<1> QED BY <1>1, <1>4, <1>5 DEF ScopedInv

LEMMA AnswerStep ==
  ASSUME ScopedInv, NEW t \in Thread, serving[t] \in Request, NEW ids \in SUBSET Pk, Answer(t, ids)
  PROVE  ScopedInv' /\ serving'[t] = [phase |-> "answer", user |-> serving[t].user, shown |-> ids]
<1>1. serving[t].user \in DOMAIN Users
  BY RequestFields
<1>2. [phase |-> "answer", user |-> serving[t].user, shown |-> ids] \in Answered
  BY <1>1 DEF Answered
<1>3. ScopedTypeOK'
  BY <1>2 DEF ScopedInv, ScopedTypeOK, Answer
<1>4. serving'[t] = [phase |-> "answer", user |-> serving[t].user, shown |-> ids]
      /\ \A s \in Thread : s # t => serving'[s] = serving[s]
  BY DEF ScopedInv, ScopedTypeOK, Answer
<1>5. Held(t)'
  BY <1>2, <1>4, Phases DEF Held
<1>6. UNCHANGED <<lock, rows>>
  BY DEF Answer
<1>7. ASSUME NEW s \in Thread, s # t
      PROVE  Held(s)'
  BY <1>4, <1>6, <1>7, OthersHeld DEF ScopedInv
<1> QED BY <1>3, <1>4, <1>5, <1>7 DEF ScopedInv

LEMMA BeginStep ==
  ASSUME ScopedInv, NEW t \in Thread, NEW u \in DOMAIN Users, NEW kind \in DOMAIN Upfront, Begin(t, u, kind)
  PROVE  ScopedInv' /\ serving'[t] \in Request
<1> USE ScopedAssumption
<1>1. PICK T \in Targets(kind), facts \in Bodies(kind) :
        /\ serving' = [serving EXCEPT ![t] = [phase |-> FirstPhase[kind], user |-> u, kind |-> kind,
                                             targets |-> T, facts |-> facts, obj |-> Empty, written |-> Empty]]
        /\ fresh' = fresh \ IF kind = "post" THEN T ELSE {}
  BY DEF Begin
<1> DEFINE q == [phase |-> FirstPhase[kind], user |-> u, kind |-> kind,
                 targets |-> T, facts |-> facts, obj |-> Empty, written |-> Empty]
<1>2. T \subseteq Pk /\ (kind = "upload" => \E r \in Pk : T = {r})
  BY DEF Targets, ScopedInv, ScopedTypeOK
<1>3. facts \in SUBSET Fact
  BY DEF Bodies
<1>4. /\ FirstPhase[kind] \in {"find", "lock", "store"}
      /\ FirstPhase[kind] = "lock" => kind = "multi"
      /\ FirstPhase[kind] = "store" => kind = "post"
  BY DEF FirstPhase, Upfront
<1>5. DOMAIN Empty = {}
  BY DEF Empty
<1>6. Empty \in Partial(SUBSET Fact) /\ Empty \in Partial({Absent} \cup SUBSET Fact)
  BY EmptyPartial
<1>7. q \in Request
  BY <1>2, <1>3, <1>4, <1>6 DEF Request
<1>8. serving'[t] = q /\ \A s \in Thread : s # t => serving'[s] = serving[s]
  BY <1>1 DEF ScopedInv, ScopedTypeOK
<1>9. UNCHANGED <<lock, rows>>
  BY DEF Begin
<1>10. ScopedTypeOK'
  <2> HIDE DEF q
  <2>1. serving' = [serving EXCEPT ![t] = q]
    BY <1>1 DEF q
  <2> QED BY <1>1, <1>7, <1>9, <2>1 DEF ScopedInv, ScopedTypeOK
<1>11. Held(t)'
  <2>1. "post" \in DOMAIN ScopeOf
    BY DEF ScopeOf
  <2> QED BY <1>2, <1>4, <1>5, <1>8, <2>1 DEF Held
<1>12. ASSUME NEW s \in Thread, s # t
       PROVE  Held(s)'
  BY <1>8, <1>9, <1>12, OthersHeld DEF ScopedInv
<1> QED BY <1>7, <1>8, <1>10, <1>11, <1>12 DEF ScopedInv

(* An upload keeps the instance it finds, without a lock.                  *)
LEMMA UploadFound ==
  ASSUME ScopedInv, NEW t \in Thread, serving[t] \in Request, NEW r \in serving[t].targets,
         serving[t].kind = "upload", Exists(r), Load(t, r, "store"), UNCHANGED <<rows, fresh, lock, given>>
  PROVE  ScopedInv' /\ serving'[t] \in Request
<1>1. r \in Pk
  BY RequestFields
<1>2. ScopedTypeOK /\ Held(t)
  BY DEF ScopedInv
<1>3. /\ serving' \in [Thread -> {NoRequest} \cup Request \cup Answered]
      /\ serving'[t] \in Request
      /\ \A s \in Thread : s # t => serving'[s] = serving[s]
      /\ serving'[t].phase = "store" /\ serving'[t].user = serving[t].user
      /\ serving'[t].kind = serving[t].kind /\ serving'[t].targets = serving[t].targets
      /\ serving'[t].written = serving[t].written
      /\ DOMAIN serving'[t].obj = DOMAIN serving[t].obj \cup {r}
  BY <1>1, <1>2, LoadFields
<1>4. ScopedTypeOK'
  BY <1>2, <1>3 DEF ScopedTypeOK
<1>5. serving[t].targets = {r}
  BY <1>2 DEF Held
<1>6. \A x \in DOMAIN serving'[t].written : lock'[x] = t /\ Judged(t, x)'
  BY <1>2, <1>3 DEF Held, Judged
<1>7. serving'[t].kind \in DOMAIN ScopeOf
  BY <1>3 DEF ScopeOf
<1>8. Held(t)'
  BY <1>1, <1>3, <1>5, <1>6, <1>7 DEF Held
<1>9. ASSUME NEW s \in Thread, s # t
      PROVE  Held(s)'
  BY <1>2, <1>3, <1>9, OthersHeld DEF ScopedInv
<1> QED BY <1>3, <1>4, <1>8, <1>9 DEF ScopedInv

(* PUT and DELETE keep only the key.                                       *)
LEMMA KeyFound ==
  ASSUME ScopedInv, NEW t \in Thread, serving[t] \in Request, serving[t].kind \in {"put", "delete"},
         serving' = [serving EXCEPT ![t].phase = "lock"], UNCHANGED <<rows, fresh, lock, given>>
  PROVE  ScopedInv' /\ serving'[t] \in Request
<1>1. ScopedTypeOK /\ Held(t)
  BY DEF ScopedInv
<1>2. serving' = [serving EXCEPT ![t] = [serving[t] EXCEPT !.phase = "lock"]]
  BY <1>1 DEF ScopedTypeOK
<1>3. [serving[t] EXCEPT !.phase = "lock"] \in Request
  BY DEF Request
<1>4. serving'[t] = [serving[t] EXCEPT !.phase = "lock"]
  BY <1>1, <1>2 DEF ScopedTypeOK
<1>5. /\ serving'[t].phase = "lock" /\ serving'[t].user = serving[t].user
      /\ serving'[t].kind = serving[t].kind /\ serving'[t].targets = serving[t].targets
      /\ serving'[t].facts = serving[t].facts /\ serving'[t].obj = serving[t].obj
      /\ serving'[t].written = serving[t].written
  BY <1>4 DEF Request
<1>6. ScopedTypeOK' /\ \A s \in Thread : s # t => serving'[s] = serving[s]
  BY <1>1, <1>2, <1>3 DEF ScopedTypeOK
<1>7. \A x \in DOMAIN serving'[t].written : lock'[x] = t /\ Judged(t, x)'
  BY <1>1, <1>5 DEF Held, Judged
<1>8. Held(t)'
  BY <1>1, <1>5, <1>7 DEF Held
<1>9. ASSUME NEW s \in Thread, s # t
      PROVE  Held(s)'
  BY <1>1, <1>6, <1>9, OthersHeld DEF ScopedInv
<1> QED BY <1>3, <1>4, <1>6, <1>8, <1>9 DEF ScopedInv

LEMMA LockStep ==
  ASSUME ScopedInv, NEW t \in Thread, NEW r \in Pk, Lock(t, r)
  PROVE  ScopedInv' /\ serving'[t] \in Request
<1> USE ScopedAssumption
<1>1. ScopedTypeOK /\ Held(t) /\ serving[t].phase = "lock" /\ r \in Unlocked(t)
  BY DEF ScopedInv, Lock
<1>2. serving[t] \in Request
  BY <1>1, WorkingRequest
<1>3. PICK phase \in {"lock", "store"} :
        Load(t, r, phase) /\ (phase = "store" => Unlocked(t) = {r})
  BY DEF Lock
<1>4. Exists(r) /\ lock[r] = NoThread /\ lock' = [lock EXCEPT ![r] = t] /\ UNCHANGED <<rows, fresh>>
  BY DEF Lock
<1>5. /\ serving' \in [Thread -> {NoRequest} \cup Request \cup Answered]
      /\ serving'[t] \in Request
      /\ \A s \in Thread : s # t => serving'[s] = serving[s]
      /\ serving'[t].phase = phase /\ serving'[t].user = serving[t].user
      /\ serving'[t].kind = serving[t].kind /\ serving'[t].targets = serving[t].targets
      /\ serving'[t].facts = serving[t].facts /\ serving'[t].written = serving[t].written
      /\ DOMAIN serving'[t].obj = DOMAIN serving[t].obj \cup {r}
      /\ serving'[t].obj[r] = rows[r]
      /\ \A x \in DOMAIN serving[t].obj : x # r => serving'[t].obj[x] = serving[t].obj[x]
  BY <1>1, <1>2, <1>3, <1>4, LoadFields
<1>6. lock' \in [Pk -> Thread \cup {NoThread}] /\ lock'[r] = t /\ \A x \in Pk : x # r => lock'[x] = lock[x]
  BY <1>1, <1>4 DEF ScopedTypeOK
<1>7. ScopedTypeOK'
  BY <1>1, <1>4, <1>5, <1>6 DEF ScopedTypeOK
<1>8. DOMAIN serving[t].written \subseteq Pk /\ DOMAIN serving[t].obj \subseteq Pk
  BY <1>2, RequestFields
<1>9. \A x \in DOMAIN serving'[t].written : lock'[x] = t /\ Judged(t, x)'
  <2> TAKE x \in DOMAIN serving'[t].written
  <2>1. x \in Pk /\ lock[x] = t /\ Judged(t, x)
    BY <1>1, <1>2, <1>5, <1>8 DEF Held
  <2>2. lock'[x] = t
    BY <1>6, <2>1
  <2> QED BY <1>4, <1>5, <2>1, <2>2 DEF Judged
<1>10. serving[t].kind \in {"put", "multi", "delete"}
  BY <1>1, <1>2 DEF Held
<1>11. \A x \in DOMAIN serving'[t].obj : lock'[x] = t /\ rows'[x] = serving'[t].obj[x]
  BY <1>1, <1>2, <1>4, <1>5, <1>6, <1>8, <1>10 DEF Held
<1>12. phase = "store" => serving'[t].targets \subseteq DOMAIN serving'[t].obj
  BY <1>3, <1>5 DEF Unlocked
<1>13. serving'[t].kind \in DOMAIN ScopeOf
  BY <1>5, <1>10 DEF ScopeOf
<1>14. Held(t)'
  BY <1>5, <1>9, <1>10, <1>11, <1>12, <1>13 DEF Held
<1>15. ASSUME NEW s \in Thread, s # t
       PROVE  Held(s)'
  <2>1. \A x \in Pk : lock[x] = s => lock'[x] = s /\ rows'[x] = rows[x]
    BY <1>4, <1>6
  <2> QED BY <1>1, <1>5, <1>15, <2>1, OthersHeld DEF ScopedInv
<1> QED BY <1>5, <1>7, <1>14, <1>15 DEF ScopedInv

LEMMA StoreStep ==
  ASSUME ScopedInv, NEW t \in Thread, NEW r \in Pk, Store(t, r)
  PROVE  ScopedInv' /\ serving'[t] \in Request
<1> USE ScopedAssumption
<1>1. ScopedTypeOK /\ Held(t) /\ serving[t].phase = "store" /\ r \in Pending(t) /\ InScope(t, r)
  BY DEF ScopedInv, Store
<1>2. serving[t] \in Request
  BY <1>1, WorkingRequest
<1>3. lock[r] \in {t, NoThread} /\ lock' = [lock EXCEPT ![r] = t] /\ UNCHANGED <<rows, fresh>>
  BY DEF Store
<1>4. r \in serving[t].targets /\ serving[t].kind \in DOMAIN ScopeOf
      /\ (serving[t].kind # "post" => r \in DOMAIN serving[t].obj)
  BY <1>1, <1>2 DEF Held, Pending
<1>5. serving[t].kind \in {"put", "multi", "upload", "delete", "post"}
  BY <1>4 DEF ScopeOf
<1>6. serving[t].facts \in SUBSET Fact /\ \A x \in DOMAIN serving[t].obj : serving[t].obj[x] \in SUBSET Fact
  BY <1>2, RequestFields DEF Partial
<1>7. Saved(t, r) \in {Absent} \cup SUBSET Fact
  BY <1>4, <1>6 DEF Saved
<1>9. /\ serving' \in [Thread -> {NoRequest} \cup Request \cup Answered]
      /\ serving'[t] \in Request
      /\ \A s \in Thread : s # t => serving'[s] = serving[s]
      /\ serving'[t].phase = serving[t].phase /\ serving'[t].user = serving[t].user
      /\ serving'[t].kind = serving[t].kind /\ serving'[t].targets = serving[t].targets
      /\ serving'[t].facts = serving[t].facts /\ serving'[t].obj = serving[t].obj
      /\ DOMAIN serving'[t].written = DOMAIN serving[t].written \cup {r}
      /\ serving'[t].written[r] = Saved(t, r)
      /\ \A x \in DOMAIN serving[t].written : x # r => serving'[t].written[x] = serving[t].written[x]
  BY <1>1, <1>2, <1>7, StoreFields
<1>10. lock' \in [Pk -> Thread \cup {NoThread}] /\ lock'[r] = t /\ \A x \in Pk : x # r => lock'[x] = lock[x]
  BY <1>1, <1>3 DEF ScopedTypeOK
<1>11. ScopedTypeOK'
  BY <1>1, <1>3, <1>9, <1>10 DEF ScopedTypeOK
<1>12. DOMAIN serving[t].written \subseteq Pk /\ DOMAIN serving[t].obj \subseteq Pk
  BY <1>2, RequestFields
<1>13. Judged(t, r)'
  <2>1. CASE serving[t].kind = "post"
    <3>1. Saved(t, r) = serving[t].facts
      BY <2>1 DEF Saved
    <3>2. Allowed(serving[t].user, "add", serving[t].facts)
      BY <1>1, <2>1 DEF InScope, ScopeOf
    <3> QED BY <1>9, <2>1, <3>1, <3>2 DEF Judged
  <2>2. CASE serving[t].kind \in {"put", "multi", "delete"}
    <3>1. rows[r] = serving[t].obj[r]
      BY <1>1, <1>2, <1>4, <2>2 DEF Held
    <3>2. Allowed(serving[t].user, ScopeOf[serving[t].kind], rows[r])
      BY <1>1, <2>2, <3>1 DEF InScope
    <3>3. Judged(t, r)
      BY <2>2, <3>2 DEF Judged, ScopeOf
    <3> QED BY <1>3, <1>9, <2>2, <3>2 DEF Judged, ScopeOf
  <2>3. CASE serving[t].kind = "upload"
    BY <1>9, <2>3 DEF Judged
  <2> QED BY <1>5, <2>1, <2>2, <2>3
<1>14. ASSUME NEW x \in DOMAIN serving'[t].written
       PROVE  lock'[x] = t /\ Judged(t, x)'
  <2>1. CASE x = r
    BY <1>10, <1>13, <2>1
  <2>2. CASE x # r
    <3>1. x \in DOMAIN serving[t].written /\ x \in Pk /\ lock[x] = t /\ Judged(t, x)
      BY <1>1, <1>2, <1>9, <1>12, <2>2 DEF Held
    <3>2. serving'[t].written[x] = serving[t].written[x]
      BY <1>9, <2>2, <3>1
    <3> QED BY <1>3, <1>9, <1>10, <2>2, <3>1, <3>2 DEF Judged
  <2> QED BY <2>1, <2>2
<1>15. serving'[t].kind \in {"put", "multi", "delete"} =>
         \A x \in DOMAIN serving'[t].obj : lock'[x] = t /\ rows'[x] = serving'[t].obj[x]
  BY <1>1, <1>2, <1>3, <1>9, <1>10, <1>12 DEF Held
<1>16. Held(t)'
  BY <1>1, <1>2, <1>9, <1>14, <1>15 DEF Held
<1>17. ASSUME NEW s \in Thread, s # t
       PROVE  Held(s)'
  <2>1. \A x \in Pk : lock[x] = s => lock'[x] = s /\ rows'[x] = rows[x]
    BY <1>3, <1>10, <1>17
  <2> QED BY <1>1, <1>9, <1>17, <2>1, OthersHeld DEF ScopedInv
<1> QED BY <1>9, <1>11, <1>16, <1>17 DEF ScopedInv

LEMMA CommitStep ==
  ASSUME ScopedInv, NEW t \in Thread, Commit(t)
  PROVE  /\ ScopedInv' /\ serving[t] \in Request /\ serving'[t] = NoRequest
         /\ \A r \in Pk : r \in serving[t].targets => Judged(t, r)
         /\ \A r \in Pk : r \notin serving[t].targets => rows'[r] = rows[r]
         /\ \A r \in serving[t].targets : rows'[r] = serving[t].written[r]
<1> USE ScopedAssumption
<1>1. ScopedTypeOK /\ Held(t) /\ serving[t].phase = "store" /\ Pending(t) = {}
  BY DEF ScopedInv, Commit
<1>2. serving[t] \in Request
  BY <1>1, WorkingRequest
<1>3. /\ rows' = [r \in Pk |-> IF r \in serving[t].targets THEN serving[t].written[r] ELSE rows[r]]
      /\ serving' = [serving EXCEPT ![t] = NoRequest]
      /\ lock' = [r \in Pk |-> IF lock[r] = t THEN NoThread ELSE lock[r]]
      /\ UNCHANGED fresh
  BY DEF Commit
<1>4. serving[t].targets \subseteq DOMAIN serving[t].written /\ serving[t].targets \subseteq Pk
  BY <1>1, <1>2, RequestFields DEF Pending
<1>5. \A r \in serving[t].targets : lock[r] = t /\ Judged(t, r)
  BY <1>1, <1>2, <1>4 DEF Held
<1>6. \A r \in serving[t].targets : serving[t].written[r] \in {Absent} \cup SUBSET Fact
  BY <1>2, <1>4, RequestFields DEF Partial
<1>7. serving' \in [Thread -> {NoRequest} \cup Request \cup Answered] /\ serving'[t] = NoRequest
      /\ \A s \in Thread : s # t => serving'[s] = serving[s]
  BY <1>1, <1>3 DEF ScopedTypeOK
<1>8. lock' \in [Pk -> Thread \cup {NoThread}]
  BY <1>1, <1>3 DEF ScopedTypeOK
<1>9. rows' \in Table
  BY <1>1, <1>3, <1>6 DEF ScopedTypeOK, Table
<1>10. ScopedTypeOK'
  BY <1>1, <1>3, <1>7, <1>8, <1>9 DEF ScopedTypeOK
<1>11. Held(t)'
  BY <1>7, Phases DEF Held
<1>12. ASSUME NEW s \in Thread, s # t
       PROVE  Held(s)'
  <2>1. \A x \in Pk : lock[x] = s => lock'[x] = s /\ rows'[x] = rows[x]
    BY <1>3, <1>5, <1>12
  <2> QED BY <1>1, <1>7, <1>12, <2>1, OthersHeld DEF ScopedInv
<1> QED BY <1>2, <1>3, <1>4, <1>5, <1>7, <1>10, <1>11, <1>12 DEF ScopedInv

LEMMA FindStep ==
  ASSUME ScopedInv, NEW t \in Thread, NEW r \in Pk, Find(t, r)
  PROVE  /\ ScopedInv'
         /\ \/ serving'[t] \in Request
            \/ /\ serving'[t] = [phase |-> "answer", user |-> serving[t].user, shown |-> {r}]
               /\ serving[t].kind = "history" /\ r \in Visible(serving[t].user)
<1>1. serving[t].phase = "find" /\ r \in serving[t].targets /\ r \in Visible(serving[t].user)
  BY DEF Find
<1>2. serving[t] \in Request
  BY <1>1, WorkingRequest DEF ScopedInv
<1>3. CASE serving[t].kind = "history" /\ Answer(t, {r})
  BY <1>1, <1>2, <1>3, AnswerStep
<1>4. CASE serving[t].kind = "upload" /\ Load(t, r, "store") /\ UNCHANGED <<rows, fresh, lock, given>>
  BY <1>1, <1>2, <1>4, UploadFound DEF Visible
<1>5. CASE /\ serving[t].kind \in {"put", "delete"} /\ serving' = [serving EXCEPT ![t].phase = "lock"]
           /\ UNCHANGED <<rows, fresh, lock, given>>
  BY <1>2, <1>5, KeyFound
<1> QED BY <1>3, <1>4, <1>5 DEF Find

LEMMA ListStep ==
  ASSUME ScopedInv, NEW t \in Thread, List(t)
  PROVE  /\ ScopedInv'
         /\ serving'[t] = [phase |-> "answer", user |-> serving[t].user, shown |-> Visible(serving[t].user)]
<1>1. serving[t] \in Request /\ Visible(serving[t].user) \in SUBSET Pk
  BY WorkingRequest DEF ScopedInv, List, Visible
<1> QED BY <1>1, AnswerStep DEF List

(* The other steps give up or are done: nothing is committed.              *)
LEMMA Steps ==
  ASSUME ScopedNext
  PROVE  \E t \in Thread :
           \/ End(t) \/ Commit(t) \/ List(t)
           \/ \E r \in Pk : Find(t, r) \/ Lock(t, r) \/ Store(t, r)
           \/ \E u \in DOMAIN Users, kind \in DOMAIN Upfront : Begin(t, u, kind)
BY DEF ScopedNext, Step, NotFound, OutOfScope, Respond, DeadlockDetected, Fail

LEMMA ScopedInvStep ==
  ASSUME ScopedInv, [ScopedNext]_scopedVars
  PROVE  ScopedInv'
<1>1. CASE UNCHANGED scopedVars
  <2>1. ScopedTypeOK'
    BY <1>1 DEF scopedVars, ScopedInv, ScopedTypeOK
  <2>2. ASSUME NEW s \in Thread
        PROVE  Held(s)'
    BY <1>1, <2>2, OthersHeld DEF scopedVars, ScopedInv
  <2> QED BY <2>1, <2>2 DEF ScopedInv
<1>2. CASE ScopedNext
  <2>1. PICK t \in Thread :
           \/ End(t) \/ Commit(t) \/ List(t)
           \/ \E r \in Pk : Find(t, r) \/ Lock(t, r) \/ Store(t, r)
           \/ \E u \in DOMAIN Users, kind \in DOMAIN Upfront : Begin(t, u, kind)
    BY <1>2, Steps
  <2> QED BY <2>1, EndStep, CommitStep, ListStep, FindStep, LockStep, StoreStep, BeginStep
<1> QED BY <1>1, <1>2

LEMMA ScopedInit0 ==
  ASSUME ScopedInit
  PROVE  ScopedInv
<1> USE ScopedAssumption
<1>1. ScopedTypeOK
  BY DEF ScopedInit, ScopedTypeOK
<1>2. \A t \in Thread : serving[t] = NoRequest
  BY DEF ScopedInit
<1> QED BY <1>1, <1>2, Phases DEF ScopedInv, Held

(* The invariant of every request: what it holds is locked and judged.     *)
LEMMA ScopedInvariant == ScopedSpec => []ScopedInv
<1>1. ScopedInv /\ [ScopedNext]_scopedVars => ScopedInv'
  BY ScopedInvStep
<1>2. ScopedInit => ScopedInv
  BY ScopedInit0
<1> QED BY <1>1, <1>2, PTL DEF ScopedSpec

-----------------------------------------------------------------------------

(* ChangedInScope: a row that a request locks is changed, added or deleted *)
(* only if a scope of its user allows it for the row right before that,    *)
(* for any permissions, threads and rows.                                  *)
THEOREM ChangesJudged == ScopedSpec => ChangedInScope
<1> DEFINE ByScope(r) ==
      \E t \in Thread :
        /\ serving[t] # NoRequest /\ serving'[t] = NoRequest /\ r \in serving[t].targets
        /\ \/ serving[t].kind = "upload"
           \/ serving[t].kind \in {"put", "multi"} /\ Allowed(serving[t].user, "change", rows[r])
           \/ serving[t].kind = "delete" /\ Allowed(serving[t].user, "delete", rows[r])
           \/ serving[t].kind = "post" /\ Allowed(serving[t].user, "add", rows'[r])
<1>1. ASSUME ScopedInv, [ScopedNext]_scopedVars, NEW r \in Pk, rows'[r] # rows[r]
      PROVE  ByScope(r)
  <2>1. PICK t \in Thread : Commit(t)
    <3>1. ScopedNext
      BY <1>1 DEF scopedVars
    <3>2. PICK t \in Thread :
             \/ End(t) \/ Commit(t) \/ List(t)
             \/ \E x \in Pk : Find(t, x) \/ Lock(t, x) \/ Store(t, x)
             \/ \E u \in DOMAIN Users, kind \in DOMAIN Upfront : Begin(t, u, kind)
      BY <3>1, Steps
    <3> QED BY <1>1, <3>2 DEF End, List, Answer, Find, Lock, Store, Begin
  <2>2. /\ serving[t] \in Request /\ serving'[t] = NoRequest /\ r \in serving[t].targets
        /\ Judged(t, r) /\ rows'[r] = serving[t].written[r]
    BY <1>1, <2>1, CommitStep
  <2> QED BY <2>2, Phases DEF Judged
<1>2. ScopedInv /\ [ScopedNext]_scopedVars => \A r \in Pk : rows'[r] # rows[r] => ByScope(r)
  BY <1>1
<1> QED BY <1>2, ScopedInvariant, PTL DEF ScopedSpec, ChangedInScope

-----------------------------------------------------------------------------

(* SetToSeq lists each element of a finite set.                            *)
LEMMA Listing ==
  ASSUME NEW S, IsFiniteSet(S)
  PROVE  /\ SetToSeq(S) \in Seq(S) /\ \A i \in DOMAIN SetToSeq(S) : SetToSeq(S)[i] \in S
         /\ \A x \in S : \E i \in DOMAIN SetToSeq(S) : SetToSeq(S)[i] = x
<1> DEFINE n == Cardinality(S)
           f == SetToSeq(S)
<1>1. n \in Nat /\ ExistsBijection(1..n, S)
  BY FS_CardinalityType
<1>2. \E g \in [1..n -> S] : IsInjective(g)
  BY <1>1 DEF ExistsBijection, Bijection, Injection
<1>3. f \in [1..n -> S] /\ IsInjective(f)
  BY <1>2 DEF SetToSeq
<1> HIDE DEF f
<1>4. f \in Injection(1..n, S)
  BY <1>3 DEF Injection
<1>5. Cardinality(1..n) = n
  BY <1>1, FS_Interval
<1>6. f \in Surjection(1..n, S)
  BY <1>1, <1>4, <1>5, FS_Injection
<1>7. \A x \in S : \E i \in 1..n : f[i] = x
  BY <1>6 DEF Surjection
<1>8. f \in Seq(S)
  BY <1>1, <1>3
<1> QED BY <1>3, <1>7, <1>8 DEF f

(* smart_q_or keeps what its Q objects match together.                     *)
JoinsScopes ==
  \A qs \in Seq(Tree), facts \in SUBSET Fact :
    Satisfies(Joined(qs), facts) <=> \E i \in DOMAIN qs : Satisfies(qs[i], facts)

(* The filter of a user matches what one of the view scopes matches.       *)
FilterRight ==
  \A u \in DOMAIN Users, facts \in SUBSET Fact :
    Satisfies(filter[u], facts) <=> \E s \in Scopes(u, "view") : Satisfies(ViewQ(s), facts)

LEMMA FilterOfScopes ==
  ASSUME JoinsScopes, ScopedInit
  PROVE  FilterRight
<1> USE ScopedAssumption
<1> SUFFICES ASSUME NEW u \in DOMAIN Users, NEW facts \in SUBSET Fact
             PROVE  Satisfies(filter[u], facts) <=> \E s \in Scopes(u, "view") : Satisfies(ViewQ(s), facts)
  BY DEF FilterRight
<1> DEFINE S == Scopes(u, "view")
           scopes == SetToSeq(S)
           qs == [i \in DOMAIN scopes |-> ViewQ(scopes[i])]
<1>1. filter[u] = Joined(qs)
  BY DEF ScopedInit, ViewFilter
<1>2. PICK f \in Families : views \in f.views
  BY DEF ScopedInit
<1>3. views \in [ViewScopes -> Tree]
  BY <1>2
<1>4. \A s \in S : ViewQ(s) \in Tree
  <2> SUFFICES ASSUME NEW s \in S
               PROVE  ViewQ(s) \in Tree
    OBVIOUS
  <2>1. CASE s = "all"
    BY <2>1 DEF ViewQ
  <2>2. CASE s # "all"
    <3>1. s \in ViewScopes
      <4>1. \E v \in DOMAIN Users : s \in Scopes(v, "view")
        OBVIOUS
      <4>2. s \in UNION {Scopes(v, "view") : v \in DOMAIN Users}
        BY <4>1
      <4> QED BY <2>2, <4>2 DEF ViewScopes
    <3>2. views[s] \in Tree
      BY <1>3, <3>1
    <3> QED BY <2>2, <3>2 DEF ViewQ
  <2> QED BY <2>1, <2>2
<1>5. IsFiniteSet(S)
  OBVIOUS
<1>6. /\ scopes \in Seq(S) /\ \A i \in DOMAIN scopes : scopes[i] \in S
      /\ \A x \in S : \E i \in DOMAIN scopes : scopes[i] = x
  <2> HIDE DEF S
  <2> QED BY <1>5, Listing
<1> HIDE DEF S, scopes
<1>7. qs \in Seq(Tree) /\ DOMAIN qs = DOMAIN scopes
  BY <1>4, <1>6
<1>8. Satisfies(Joined(qs), facts) <=> \E i \in DOMAIN qs : Satisfies(qs[i], facts)
  <2> HIDE DEF qs
  <2> QED BY <1>7 DEF JoinsScopes
<1>9. (\E i \in DOMAIN qs : Satisfies(qs[i], facts)) <=> \E s \in S : Satisfies(ViewQ(s), facts)
  BY <1>6
<1> QED BY <1>1, <1>8, <1>9 DEF S

LEMMA FilterStays ==
  ASSUME FilterRight, [ScopedNext]_scopedVars
  PROVE  FilterRight'
<1>1. UNCHANGED given
  <2>1. CASE UNCHANGED scopedVars
    BY <2>1 DEF scopedVars
  <2>2. CASE ScopedNext
    <3>1. PICK t \in Thread :
             \/ End(t) \/ Commit(t) \/ List(t)
             \/ \E x \in Pk : Find(t, x) \/ Lock(t, x) \/ Store(t, x)
             \/ \E u \in DOMAIN Users, kind \in DOMAIN Upfront : Begin(t, u, kind)
      BY <2>2, Steps
    <3> QED BY <3>1 DEF End, Commit, List, Answer, Find, Lock, Store, Begin
  <2> QED BY <2>1, <2>2
<1> QED BY <1>1 DEF FilterRight, ViewQ, given

(* ShownInScope: what an answer shows are rows that match a view scope of  *)
(* its user, and a list shows all of them, as long as smart_q_or keeps     *)
(* what its arguments match.                                               *)
THEOREM AnswersInScope == JoinsScopes /\ ScopedSpec => ShownInScope
<1> DEFINE InScopeOf(t) ==
      LET u == serving[t].user
          matching == {r \in Pk : /\ Exists(r) /\ HasPerm(u, "view")
                                   /\ \E s \in Scopes(u, "view") : Satisfies(ViewQ(s), rows[r])}
      IN /\ serving'[t].shown \subseteq matching
         /\ serving[t].kind = "list" => serving'[t].shown = matching
    Answers(t) == serving'[t] # serving[t] /\ serving'[t].phase = "answer"
<1>1. ASSUME ScopedInv, FilterRight, [ScopedNext]_scopedVars, NEW t \in Thread, Answers(t)
      PROVE  InScopeOf(t)
  <2> DEFINE u == serving[t].user
             matching == {r \in Pk : /\ Exists(r) /\ HasPerm(u, "view")
                                      /\ \E s \in Scopes(u, "view") : Satisfies(ViewQ(s), rows[r])}
  <2>1. u \in DOMAIN Users => Visible(u) = matching
    BY <1>1 DEF Visible, FilterRight, ScopedInv, ScopedTypeOK, Table, Exists
  <2>2. ScopedNext
    BY <1>1 DEF scopedVars
  <2>3. PICK s \in Thread :
           \/ End(s) \/ Commit(s) \/ List(s)
           \/ \E x \in Pk : Find(s, x) \/ Lock(s, x) \/ Store(s, x)
           \/ \E v \in DOMAIN Users, kind \in DOMAIN Upfront : Begin(s, v, kind)
    BY <2>2, Steps
  <2>4. s = t
    <3> SUFFICES ASSUME s # t
                 PROVE  serving'[t] = serving[t]
      BY <1>1
    <3> QED BY <1>1, <2>3 DEF ScopedInv, ScopedTypeOK, End, Commit, List, Answer, Find, Load, Lock, Store, Begin
  <2>5. ~End(t) /\ ~Commit(t)
    <3>1. End(t) \/ Commit(t) => serving'[t] = NoRequest
      BY <1>1 DEF ScopedInv, ScopedTypeOK, End, Commit
    <3> QED BY <1>1, <3>1, Phases
  <2>6. serving'[t] \notin Request
    BY <1>1, Phases
  <2>7. CASE List(t)
    <3>1. serving'[t] = [phase |-> "answer", user |-> u, shown |-> Visible(u)]
      BY <1>1, <2>7, ListStep
    <3>2. serving[t] \in Request
      BY <1>1, <2>7, WorkingRequest DEF ScopedInv, List
    <3> QED BY <2>1, <3>1, <3>2, RequestFields
  <2>8. CASE \E x \in Pk : Find(t, x)
    <3>1. PICK x \in Pk : Find(t, x)
      BY <2>8
    <3>2. serving'[t] = [phase |-> "answer", user |-> u, shown |-> {x}] /\ serving[t].kind = "history" /\ x \in Visible(u)
      BY <1>1, <2>6, <3>1, FindStep
    <3>3. serving[t] \in Request
      BY <1>1, <3>1, WorkingRequest DEF ScopedInv, Find
    <3> QED BY <2>1, <3>2, <3>3, RequestFields
  <2> QED BY <1>1, <2>3, <2>4, <2>5, <2>6, <2>7, <2>8, LockStep, StoreStep, BeginStep
<1>2. ScopedInv /\ FilterRight /\ [ScopedNext]_scopedVars => \A t \in Thread : Answers(t) => InScopeOf(t)
  BY <1>1
<1>3. JoinsScopes /\ ScopedInit => FilterRight
  BY FilterOfScopes
<1>4. FilterRight /\ [ScopedNext]_scopedVars => FilterRight'
  BY FilterStays
<1> QED BY <1>2, <1>3, <1>4, ScopedInvariant, PTL DEF ScopedSpec, ShownInScope
=============================================================================
