-------------------------- MODULE FileStorageProofs --------------------------
(***************************************************************************)
(* As long as no upload, which saves a row it did not lock, meets another  *)
(* request on the row, each file a row refers to exists, and no file is    *)
(* left behind but by failing requests.                                    *)
(***************************************************************************)
EXTENDS FileStorage, TLAPS

Target(t) == req[t].row
Sent(t) == DOMAIN req[t].sends
Holding(t) == pc[t] \in {"store", "save", "commit"}

(* What a thread knows in the middle of its request.                       *)
ThreadInv(t) ==
  /\ Holding(t) => lock[Target(t)] = t \/ req[t].kind = "upload"
  /\ pc[t] \in {"idle", "load", "store"} => hooks[t] = {} /\ wrote[t] = {}
  /\ pc[t] = "store" => obj[t] = rows[Target(t)]
  /\ pc[t] \in {"save", "commit"} =>
       /\ \A n \in Name : n \in hooks[t] <=> \E f \in Sent(t) : rows[Target(t)][f] = n
       /\ \A n \in Name : n \in wrote[t] <=> \E f \in Sent(t) : obj[t][f] = n
       /\ \A f \in FileField \ Sent(t) : obj[t][f] = rows[Target(t)][f]
       /\ \A f, g \in Sent(t) : obj[t][f] = obj[t][g] /\ obj[t][f] \in Name => f = g
  /\ pc[t] = "commit" => \A f \in FileField : obj[t][f] # New
  /\ pc[t] = "hooks" => wrote[t] = {}
  /\ pc[t] \in {"idle", "load", "hooks"} \/ (pc[t] = "store" /\ req[t].kind = "upload")
       => \A r \in Row : lock[r] # t

(* No upload meets another request on its row.                             *)
Separate == \A t, u \in Thread :
              t # u /\ pc[t] # "idle" /\ pc[u] # "idle" /\ Target(t) = Target(u)
                => req[t].kind = "put"

(* Which sets of files do not meet.                                        *)
Apart ==
  /\ \A t \in Thread : wrote[t] \subseteq disk /\ hooks[t] \subseteq disk
  /\ \A t \in Thread : wrote[t] \cap Referenced = {}
  /\ \A t \in Thread : pc[t] = "hooks" => hooks[t] \cap Referenced = {}
  /\ \A t, u \in Thread : wrote[t] \cap hooks[u] = {}
  /\ \A t, u \in Thread : t # u => wrote[t] \cap wrote[u] = {}
  /\ \A t, u \in Thread : t # u /\ pc[t] = "hooks" /\ pc[u] = "hooks" => hooks[t] \cap hooks[u] = {}

IInv == /\ TypeOK /\ FilesExist /\ Unshared /\ NothingLeaks /\ Apart /\ Separate
        /\ \A t \in Thread : ThreadInv(t)

-----------------------------------------------------------------------------

(* Type correctness.                                                       *)

LEMMA TypeInit == Init => TypeOK
BY FileStorageAssumption DEF Init, TypeOK, Referenced, Blank

LEMMA PayloadType ==
  ASSUME NEW q \in Request
  PROVE  /\ q.row \in Row /\ q.kind \in Kinds
         /\ DOMAIN q.sends \subseteq FileField
         /\ \A f \in DOMAIN q.sends : q.sends[f] \in {New, None}
<1>1. q.sends \in Payload /\ q.row \in Row /\ q.kind \in Kinds
  BY DEF Request
<1>2. PICK F \in SUBSET FileField : q.sends \in [F -> {New, None}]
  BY <1>1 DEF Payload
<1> QED
  BY <1>1, <1>2

LEMMA FinishType ==
  ASSUME TypeOK, NEW t \in Thread, Finish(t), lock' \in [Row -> Thread \cup {NoThread}],
         litter' \subseteq Name, rows' = rows, disk' = disk
  PROVE  TypeOK'
BY DEF TypeOK, Finish, Blank

LEMMA AssignedType ==
  ASSUME TypeOK, NEW t \in Thread, pc[t] = "store"
  PROVE  /\ Assigned(t) \in [FileField -> Name \cup {None, New}]
         /\ Replaced(t) \subseteq Name
<1>1. req[t] \in Request /\ obj[t] \in [FileField -> Name \cup {None}]
  BY DEF TypeOK
<1>2. /\ DOMAIN req[t].sends \subseteq FileField
      /\ \A f \in DOMAIN req[t].sends : req[t].sends[f] \in {New, None}
  BY <1>1, PayloadType
<1> QED
  BY <1>1, <1>2 DEF Assigned, Replaced

LEMMA UnlockedType ==
  ASSUME lock \in [Row -> Thread \cup {NoThread}], NEW t
  PROVE  Unlocked(t) \in [Row -> Thread \cup {NoThread}]
BY DEF Unlocked

LEMMA TypeStep == TypeOK /\ [Next]_vars => TypeOK'
<1> SUFFICES ASSUME TypeOK, [Next]_vars PROVE TypeOK'
  OBVIOUS
<1>1. CASE UNCHANGED vars
  BY <1>1 DEF TypeOK, vars
<1>2. ASSUME NEW t \in Thread, Begin(t) PROVE TypeOK'
  BY <1>2 DEF TypeOK, Begin
<1>3. ASSUME NEW t \in Thread, Load(t) PROVE TypeOK'
  <2>1. req[t].row \in Row
    BY <1>3, PayloadType DEF TypeOK, Load
  <2>2. lock' \in [Row -> Thread \cup {NoThread}]
    BY <1>3, <2>1 DEF TypeOK, Load
  <2>3. /\ obj' = [obj EXCEPT ![t] = rows[req[t].row]]
        /\ rows[req[t].row] \in [FileField -> Name \cup {None}]
        /\ pc' = [pc EXCEPT ![t] = "store"] /\ pc[t] # "idle"
        /\ UNCHANGED <<rows, disk, req, hooks, wrote, litter>>
    BY <1>3, <2>1 DEF TypeOK, Load
  <2> QED
    BY <2>2, <2>3 DEF TypeOK
<1>4. ASSUME NEW t \in Thread, Store(t) PROVE TypeOK'
  BY <1>4, AssignedType DEF TypeOK, Store
<1>5. ASSUME NEW t \in Thread, WriteFile(t) PROVE TypeOK'
  BY <1>5, FileStorageAssumption DEF TypeOK, WriteFile
<1>6. ASSUME NEW t \in Thread, Update(t) PROVE TypeOK'
  BY <1>6, PayloadType DEF TypeOK, Update
<1>7. ASSUME NEW t \in Thread, Commit(t) PROVE TypeOK'
  <2>1. obj[t] \in [FileField -> Name \cup {None}]
    BY <1>7 DEF TypeOK, Commit
  <2> QED
    BY <1>7, <2>1, UnlockedType DEF TypeOK, Commit
<1>8. ASSUME NEW t \in Thread, DeleteOldFile(t) PROVE TypeOK'
  BY <1>8 DEF TypeOK, DeleteOldFile
<1>9. ASSUME NEW t \in Thread, Respond(t) \/ Refuse(t) PROVE TypeOK'
  <2>1. Finish(t) /\ UNCHANGED <<rows, disk, lock, litter>>
    BY <1>9 DEF Respond, Refuse
  <2> QED
    BY <2>1, FinishType DEF TypeOK
<1>10. ASSUME NEW t \in Thread, Fail(t) PROVE TypeOK'
  <2>1. lock' \in [Row -> Thread \cup {NoThread}] /\ litter' \subseteq Name
    BY <1>10, UnlockedType DEF TypeOK, Fail
  <2> QED
    BY <1>10, <2>1, FinishType DEF Fail
<1> QED
  BY <1>1, <1>2, <1>3, <1>4, <1>5, <1>6, <1>7, <1>8, <1>9, <1>10 DEF Next

(* Every variable keeps its type, with any threads, rows, fields, names.   *)
THEOREM TypeCorrect == Spec => []TypeOK
BY TypeInit, TypeStep, PTL DEF Spec
-----------------------------------------------------------------------------

(* Invariance.                                                             *)

LEMMA InReferenced ==
  \A n : n \in Referenced <=> n # None /\ \E r \in Row, f \in FileField : rows[r][f] = n
BY DEF Referenced

LEMMA InitInv == Init => IInv
<1> SUFFICES ASSUME Init PROVE IInv
  OBVIOUS
<1>1. \A t \in Thread : pc[t] = "idle" /\ hooks[t] = {} /\ wrote[t] = {}
  BY DEF Init
<1>2. \A t \in Thread : ThreadInv(t)
  BY <1>1, FileStorageAssumption DEF ThreadInv, Holding, Init
<1>3. Apart /\ Separate
  BY <1>1 DEF Apart, Separate
<1>4. FilesExist /\ Unshared /\ NothingLeaks
  BY DEF Init, FilesExist, NothingLeaks
<1> QED
  BY <1>2, <1>3, <1>4, TypeInit DEF IInv

(* A step that leaves a thread's variables and its locked row alone keeps  *)
(* what the thread knows.                                                  *)
LEMMA Frame ==
  ASSUME NEW u \in Thread, ThreadInv(u),
         pc'[u] = pc[u], req'[u] = req[u], obj'[u] = obj[u], hooks'[u] = hooks[u],
         wrote'[u] = wrote[u],
         Holding(u) => /\ rows'[Target(u)] = rows[Target(u)]
                       /\ lock[Target(u)] = u => lock'[Target(u)] = u,
         \A r \in Row : lock'[r] = u => lock[r] = u
  PROVE  ThreadInv(u)'
BY DEF ThreadInv, Holding, Target, Sent

(* No two threads hold one row.                                            *)
LEMMA OneHolder ==
  ASSUME IInv, NEW t \in Thread, NEW u \in Thread, t # u, Holding(t), Holding(u)
  PROVE  Target(t) # Target(u)
BY DEF IInv, ThreadInv, Separate, Holding

LEMMA BeginInv ==
  ASSUME IInv, NEW t \in Thread, Begin(t)
  PROVE  Apart' /\ (\A u \in Thread : ThreadInv(u)')
<1>1. /\ pc[t] = "idle" /\ pc' = [pc EXCEPT ![t] = "load"]
      /\ UNCHANGED <<rows, disk, lock, obj, hooks, wrote, litter>>
      /\ \A u \in Thread \ {t} : req'[u] = req[u]
      /\ pc \in [Thread -> {"idle", "load", "store", "save", "commit", "hooks"}]
  BY DEF Begin, IInv, TypeOK
<1>2. Apart'
  BY <1>1 DEF IInv, Apart, Referenced
<1>3. ThreadInv(t)'
  BY <1>1 DEF IInv, ThreadInv, Holding
<1>4. ASSUME NEW u \in Thread \ {t} PROVE ThreadInv(u)'
  BY <1>1, Frame DEF IInv, ThreadInv
<1> QED
  BY <1>2, <1>3, <1>4

LEMMA LoadInv ==
  ASSUME IInv, NEW t \in Thread, Load(t)
  PROVE  Apart' /\ (\A u \in Thread : ThreadInv(u)')
<1>1. /\ pc[t] = "load" /\ pc' = [pc EXCEPT ![t] = "store"]
      /\ obj' = [obj EXCEPT ![t] = rows[Target(t)]]
      /\ UNCHANGED <<rows, disk, req, hooks, wrote, litter>>
  BY DEF Load, Target
<1>2. /\ pc \in [Thread -> {"idle", "load", "store", "save", "commit", "hooks"}]
      /\ obj \in [Thread -> [FileField -> Name \cup {None, New}]]
      /\ lock \in [Row -> Thread \cup {NoThread}]
      /\ Target(t) \in Row /\ req[t].kind \in {"put", "upload"}
  BY <1>1, PayloadType, FileStorageAssumption DEF IInv, TypeOK, Target
<1>3. Apart'
  BY <1>1, <1>2 DEF IInv, Apart, Referenced
<1>4. \/ req[t].kind = "put" /\ lock[Target(t)] = NoThread /\ lock' = [lock EXCEPT ![Target(t)] = t]
      \/ req[t].kind = "upload" /\ lock' = lock
  BY <1>2 DEF Load, Target
<1>5. ThreadInv(t)'
  BY <1>1, <1>2, <1>4 DEF IInv, ThreadInv, Holding, Target
<1>6. ASSUME NEW u \in Thread \ {t} PROVE ThreadInv(u)'
  <2>1. \A r \in Row : lock'[r] = u <=> lock[r] = u
    BY <1>2, <1>4, FileStorageAssumption
  <2>2. Holding(u) => Target(u) \in Row
    BY <1>2, PayloadType DEF Holding, IInv, TypeOK, Target
  <2> QED
    BY <1>1, <1>2, <2>1, <2>2, Frame DEF IInv
<1> QED
  BY <1>3, <1>5, <1>6

LEMMA StoreInv ==
  ASSUME IInv, NEW t \in Thread, Store(t)
  PROVE  Apart' /\ NothingLeaks' /\ (\A u \in Thread : ThreadInv(u)')
<1>1. /\ pc[t] = "store" /\ pc' = [pc EXCEPT ![t] = "save"]
      /\ hooks' = [hooks EXCEPT ![t] = Replaced(t)]
      /\ obj' = [obj EXCEPT ![t] = Assigned(t)]
      /\ UNCHANGED <<rows, disk, lock, req, wrote, litter>>
  BY DEF Store
<1>2. TypeOK /\ TypeOK' /\ ThreadInv(t) /\ Apart
  BY TypeStep DEF IInv, Next
<1>3. /\ obj[t] = rows[Target(t)] /\ hooks[t] = {} /\ wrote[t] = {} /\ Target(t) \in Row
      /\ req[t] \in Request /\ Sent(t) \subseteq FileField
      /\ \A f \in Sent(t) : req[t].sends[f] \in {New, None}
  BY <1>1, <1>2, PayloadType DEF ThreadInv, TypeOK, Target, Sent
<1>4. /\ pc'[t] = "save" /\ hooks'[t] = Replaced(t) /\ obj'[t] = Assigned(t)
      /\ \A u \in Thread \ {t} : /\ pc'[u] = pc[u] /\ hooks'[u] = hooks[u] /\ obj'[u] = obj[u]
  BY <1>1, <1>2 DEF TypeOK
<1>5. \A n \in Name : n \in Replaced(t) <=> \E f \in Sent(t) : rows[Target(t)][f] = n
  BY <1>3, FileStorageAssumption DEF Replaced, Sent
<1>6. Replaced(t) \subseteq Referenced
  BY <1>3, InReferenced DEF Replaced, Sent
<1>7. ThreadInv(t)'
  BY <1>1, <1>2, <1>3, <1>4, <1>5, FileStorageAssumption
  DEF ThreadInv, Holding, Target, Sent, Assigned
<1>8. ASSUME NEW u \in Thread \ {t} PROVE ThreadInv(u)'
  BY <1>1, <1>4, Frame DEF IInv, ThreadInv
<1>9. Apart'
  BY <1>1, <1>2, <1>3, <1>4, <1>6 DEF Apart, Referenced, IInv, FilesExist
<1>10. NothingLeaks'
  BY <1>1, <1>3, <1>4 DEF NothingLeaks, IInv, Referenced
<1> QED
  BY <1>7, <1>8, <1>9, <1>10

LEMMA WriteFileInv ==
  ASSUME IInv, NEW t \in Thread, WriteFile(t)
  PROVE  Apart' /\ NothingLeaks' /\ FilesExist' /\ (\A u \in Thread : ThreadInv(u)')
<1>1. PICK f \in FileField, n \in Name \ disk :
        /\ obj[t][f] = New
        /\ disk' = disk \cup {n}
        /\ obj' = [obj EXCEPT ![t][f] = n]
        /\ wrote' = [wrote EXCEPT ![t] = @ \cup {n}]
  BY DEF WriteFile
<1>2. pc[t] = "save" /\ UNCHANGED <<rows, lock, pc, req, hooks, litter>>
  BY DEF WriteFile
<1>3. TypeOK /\ ThreadInv(t) /\ Apart /\ FilesExist
  BY DEF IInv
<1>4. /\ wrote'[t] = wrote[t] \cup {n} /\ obj'[t] = [obj[t] EXCEPT ![f] = n]
      /\ obj[t] \in [FileField -> Name \cup {None, New}]
      /\ \A u \in Thread \ {t} : wrote'[u] = wrote[u] /\ obj'[u] = obj[u]
      /\ Target(t) \in Row /\ Sent(t) \subseteq FileField
      /\ rows[Target(t)] \in [FileField -> Name \cup {None}]
  BY <1>1, <1>2, <1>3, PayloadType DEF TypeOK, Target, Sent
<1>5. f \in Sent(t)
  BY <1>1, <1>2, <1>3, <1>4, FileStorageAssumption DEF ThreadInv
<1>6. n \notin Referenced /\ n \notin wrote[t] /\ \A u \in Thread : n \notin hooks[u] /\ n \notin wrote[u]
  BY <1>3 DEF Apart, FilesExist
<1>7. ThreadInv(t)'
  <2>1. \A m \in Name : m \in wrote'[t] <=> \E g \in Sent(t) : obj'[t][g] = m
    BY <1>1, <1>2, <1>3, <1>4, <1>5, FileStorageAssumption DEF ThreadInv
  <2>2. \A g, h \in Sent(t) : obj'[t][g] = obj'[t][h] /\ obj'[t][g] \in Name => g = h
    BY <1>2, <1>3, <1>4, <1>6 DEF ThreadInv
  <2>3. \A g \in FileField \ Sent(t) : obj'[t][g] = rows[Target(t)][g]
    BY <1>2, <1>3, <1>4, <1>5 DEF ThreadInv
  <2> QED
    BY <1>2, <1>3, <2>1, <2>2, <2>3 DEF ThreadInv, Holding, Target, Sent
<1>8. ASSUME NEW u \in Thread \ {t} PROVE ThreadInv(u)'
  BY <1>2, <1>4, Frame DEF IInv, ThreadInv
<1>9. Referenced' = Referenced
  BY <1>2 DEF Referenced
<1>10. Apart' /\ FilesExist'
  BY <1>1, <1>2, <1>3, <1>4, <1>6, <1>9 DEF Apart, FilesExist
<1>11. NothingLeaks'
  <2> SUFFICES ASSUME NEW m \in disk',
                      m \notin Referenced, m \notin litter
               PROVE  \E u \in Thread : m \in hooks[u] \/ m \in wrote'[u]
    BY <1>2, <1>9 DEF NothingLeaks
  <2>1. CASE m = n
    BY <2>1, <1>4
  <2>2. CASE m # n
    BY <2>2, <1>1, <1>4 DEF IInv, NothingLeaks
  <2> QED
    BY <2>1, <2>2
<1> QED
  BY <1>7, <1>8, <1>10, <1>11

LEMMA UpdateInv ==
  ASSUME IInv, NEW t \in Thread, Update(t)
  PROVE  Apart' /\ (\A u \in Thread : ThreadInv(u)')
<1>1. /\ pc[t] = "save" /\ pc' = [pc EXCEPT ![t] = "commit"]
      /\ \A f \in FileField : obj[t][f] # New
      /\ lock[Target(t)] \in {NoThread, t} /\ lock' = [lock EXCEPT ![Target(t)] = t]
      /\ UNCHANGED <<rows, disk, req, obj, hooks, wrote, litter>>
  BY DEF Update, Target
<1>2. TypeOK /\ ThreadInv(t) /\ Apart /\ Target(t) \in Row
  BY <1>1, PayloadType DEF IInv, TypeOK, Target
<1>3. lock'[Target(t)] = t /\ \A u \in Thread \ {t}, r \in Row : lock'[r] = u <=> lock[r] = u
  BY <1>1, <1>2, FileStorageAssumption DEF TypeOK
<1>4. pc'[t] = "commit" /\ \A u \in Thread \ {t} : pc'[u] = pc[u]
  BY <1>1, <1>2 DEF TypeOK
<1>5. Apart'
  BY <1>1, <1>2, <1>4 DEF Apart, Referenced
<1>6. ThreadInv(t)'
  BY <1>1, <1>2, <1>3, <1>4 DEF ThreadInv, Holding, Target, Sent
<1>7. ASSUME NEW u \in Thread \ {t} PROVE ThreadInv(u)'
  <2>1. Holding(u) => Target(u) \in Row
    BY <1>2, PayloadType DEF Holding, TypeOK, Target
  <2> QED
    BY <1>1, <1>3, <1>4, <2>1, Frame DEF IInv
<1> QED
  BY <1>5, <1>6, <1>7

(* The only step that changes a row.  Its new files were written by the    *)
(* thread, its old ones are among the callbacks.                           *)
LEMMA CommitInv ==
  ASSUME IInv, NEW t \in Thread, Commit(t)
  PROVE  Apart' /\ NothingLeaks' /\ FilesExist' /\ Unshared'
         /\ (\A u \in Thread : ThreadInv(u)')
<1> DEFINE r == Target(t)
<1>1. /\ pc[t] = "commit" /\ pc' = [pc EXCEPT ![t] = "hooks"]
      /\ rows' = [rows EXCEPT ![r] = obj[t]]
      /\ lock' = Unlocked(t)
      /\ wrote' = [wrote EXCEPT ![t] = {}]
      /\ UNCHANGED <<disk, req, obj, hooks, litter>>
  BY DEF Commit, Target
<1>2. TypeOK /\ ThreadInv(t) /\ Apart /\ FilesExist /\ Unshared /\ NothingLeaks
  BY DEF IInv
<1>3. /\ r \in Row /\ Sent(t) \subseteq FileField
      /\ obj[t] \in [FileField -> Name \cup {None}]
      /\ pc'[t] = "hooks" /\ wrote'[t] = {} /\ rows'[r] = obj[t]
      /\ \A s \in Row \ {r} : rows'[s] = rows[s]
      /\ \A u \in Thread \ {t} : pc'[u] = pc[u] /\ wrote'[u] = wrote[u]
      /\ \A u \in Thread : wrote[u] \subseteq Name /\ hooks[u] \subseteq Name
      /\ disk \subseteq Name
  BY <1>1, <1>2, PayloadType DEF TypeOK, Target, Sent
<1>4. /\ \A n \in Name : n \in hooks[t] <=> \E f \in Sent(t) : rows[r][f] = n
      /\ \A n \in Name : n \in wrote[t] <=> \E f \in Sent(t) : obj[t][f] = n
      /\ \A f \in FileField \ Sent(t) : obj[t][f] = rows[r][f]
      /\ \A f, g \in Sent(t) : obj[t][f] = obj[t][g] /\ obj[t][f] \in Name => f = g
  BY <1>1, <1>2 DEF ThreadInv
<1>5. hooks[t] \subseteq Referenced /\ wrote[t] \cap Referenced = {}
  BY <1>2, <1>3, <1>4, InReferenced, FileStorageAssumption DEF Apart
<1>6. ASSUME NEW s \in Row, NEW f \in FileField, rows'[s][f] # None
      PROVE  \/ s = r /\ f \in Sent(t) /\ rows'[s][f] \in wrote[t]
             \/ ~(s = r /\ f \in Sent(t)) /\ rows'[s][f] = rows[s][f]
                /\ rows'[s][f] \in Referenced /\ rows'[s][f] \notin hooks[t]
  <2>1. CASE s = r /\ f \in Sent(t)
    BY <2>1, <1>3, <1>4, <1>6
  <2>2. CASE ~(s = r /\ f \in Sent(t))
    <3>1. rows'[s][f] = rows[s][f]
      BY <2>2, <1>3, <1>4
    <3>2. rows[s][f] \in Referenced
      BY <3>1, <1>6, InReferenced
    <3>3. rows[s][f] \notin hooks[t]
      BY <3>1, <2>2, <1>2, <1>3, <1>4, <1>6 DEF Unshared
    <3> QED
      BY <2>2, <3>1, <3>2, <3>3
  <2> QED
    BY <2>1, <2>2
<1>7. \A n : n \in Referenced' => n \in wrote[t] \/ (n \in Referenced /\ n \notin hooks[t])
  BY <1>6 DEF Referenced
<1>8. \A n : n \in wrote[t] \/ (n \in Referenced /\ n \notin hooks[t]) => n \in Referenced'
  <2> SUFFICES ASSUME NEW n, n \in wrote[t] \/ (n \in Referenced /\ n \notin hooks[t])
               PROVE  n # None /\ \E s \in Row, f \in FileField : rows'[s][f] = n
    BY DEF Referenced
  <2>1. CASE n \in wrote[t]
    BY <2>1, <1>3, <1>4, FileStorageAssumption
  <2>2. CASE n \in Referenced /\ n \notin hooks[t]
    <3>1. PICK s \in Row, f \in FileField : rows[s][f] = n
      BY <2>2, InReferenced
    <3>2. n # None /\ n \in Name
      BY <2>2, <1>2, <1>3, InReferenced DEF FilesExist
    <3>3. rows'[s][f] = n
      BY <2>2, <3>1, <3>2, <1>3, <1>4
    <3> QED
      BY <3>2, <3>3
  <2> QED
    BY <2>1, <2>2
<1>9. FilesExist' /\ Unshared'
  <2>1. FilesExist'
    BY <1>1, <1>2, <1>7 DEF FilesExist, Apart
  <2>2. Unshared'
    <3> SUFFICES ASSUME NEW s \in Row, NEW q \in Row, NEW f \in FileField, NEW g \in FileField,
                        rows'[s][f] = rows'[q][g], rows'[s][f] # None
                 PROVE  s = q /\ f = g
      BY DEF Unshared
    <3>1. CASE rows'[s][f] \in wrote[t]
      BY <3>1, <1>3, <1>4, <1>5, <1>6
    <3>2. CASE rows'[s][f] \notin wrote[t]
      BY <3>2, <1>2, <1>6 DEF Unshared
    <3> QED
      BY <3>1, <3>2
  <2> QED
    BY <2>1, <2>2
<1>10. Apart'
  BY <1>1, <1>2, <1>3, <1>5, <1>7 DEF Apart
<1>11. NothingLeaks'
  <2> SUFFICES ASSUME NEW n \in disk, n \notin Referenced', n \notin litter
               PROVE  \E u \in Thread : n \in hooks[u] \/ n \in wrote'[u]
    BY <1>1 DEF NothingLeaks
  <2>1. n \notin wrote[t] /\ (n \in Referenced => n \in hooks[t])
    BY <1>8
  <2> QED
    BY <2>1, <1>2, <1>3 DEF NothingLeaks
<1>12. ThreadInv(t)'
  <2>1. \A q \in Row : lock'[q] # t
    BY <1>1, FileStorageAssumption DEF Unlocked
  <2> QED
    BY <1>1, <1>3, <2>1 DEF ThreadInv, Holding
<1>13. ASSUME NEW u \in Thread \ {t} PROVE ThreadInv(u)'
  <2>1. Holding(u) => Target(u) # r /\ Target(u) \in Row
    <3>1. Holding(t)
      BY <1>1 DEF Holding
    <3>2. Holding(u) => Target(u) \in Row
      BY <1>2, PayloadType DEF Holding, TypeOK, Target
    <3> QED
      BY <3>1, <3>2, OneHolder
  <2>2. Holding(u) => rows'[Target(u)] = rows[Target(u)]
    BY <2>1, <1>1, <1>3
  <2>3. \A q \in Row : lock'[q] = u <=> lock[q] = u
    BY <1>1, FileStorageAssumption DEF Unlocked
  <2> QED
    BY <2>1, <2>2, <2>3, <1>1, <1>3, Frame DEF IInv
<1> QED
  BY <1>9, <1>10, <1>11, <1>12, <1>13

LEMMA DeleteOldFileInv ==
  ASSUME IInv, NEW t \in Thread, DeleteOldFile(t)
  PROVE  Apart' /\ NothingLeaks' /\ FilesExist' /\ (\A u \in Thread : ThreadInv(u)')
<1>1. PICK n \in hooks[t] : disk' = disk \ {n} /\ hooks' = [hooks EXCEPT ![t] = @ \ {n}]
  BY DEF DeleteOldFile
<1>2. pc[t] = "hooks" /\ UNCHANGED <<rows, lock, pc, req, obj, wrote, litter>>
  BY DEF DeleteOldFile
<1>3. TypeOK /\ ThreadInv(t) /\ Apart /\ FilesExist /\ NothingLeaks
  BY DEF IInv
<1>4. /\ hooks'[t] = hooks[t] \ {n}
      /\ \A u \in Thread \ {t} : hooks'[u] = hooks[u]
      /\ Referenced' = Referenced
  BY <1>1, <1>2, <1>3 DEF TypeOK, Referenced
<1>5. n \notin Referenced /\ \A u \in Thread : n \notin wrote[u]
  BY <1>2, <1>3 DEF Apart
<1>6. ASSUME NEW u \in Thread \ {t} PROVE n \notin hooks[u]
  <2>1. CASE pc[u] = "hooks"
    BY <2>1, <1>2, <1>3 DEF Apart
  <2>2. CASE pc[u] \in {"save", "commit"}
    <3>1. Target(u) \in Row /\ Sent(u) \subseteq FileField /\ hooks[u] \subseteq Name
      BY <2>2, <1>3, PayloadType DEF TypeOK, Target, Sent
    <3>2. hooks[u] \subseteq Referenced
      BY <2>2, <3>1, InReferenced, FileStorageAssumption DEF IInv, ThreadInv
    <3> QED
      BY <3>2, <1>5
  <2>3. CASE pc[u] \in {"idle", "load", "store"}
    BY <2>3 DEF IInv, ThreadInv
  <2> QED
    BY <2>1, <2>2, <2>3, <1>3 DEF TypeOK
<1>7. FilesExist' /\ Apart'
  BY <1>1, <1>2, <1>3, <1>4, <1>5, <1>6 DEF FilesExist, Apart
<1>8. NothingLeaks'
  <2> SUFFICES ASSUME NEW m \in disk', m \notin Referenced, m \notin litter
               PROVE  \E u \in Thread : m \in hooks'[u] \/ m \in wrote[u]
    BY <1>2, <1>4 DEF NothingLeaks
  <2> QED
    BY <1>1, <1>3, <1>4 DEF NothingLeaks
<1>9. ThreadInv(t)'
  BY <1>2, <1>3, <1>4 DEF ThreadInv, Holding, Target, Sent
<1>10. ASSUME NEW u \in Thread \ {t} PROVE ThreadInv(u)'
  BY <1>2, <1>4, Frame DEF IInv, ThreadInv
<1> QED
  BY <1>7, <1>8, <1>9, <1>10

LEMMA FinishInv ==
  ASSUME IInv, NEW t \in Thread, Finish(t), lock' = Unlocked(t), UNCHANGED <<rows, disk>>,
         litter' = litter \cup wrote[t] \cup (IF pc[t] = "hooks" THEN hooks[t] ELSE {})
  PROVE  Apart' /\ NothingLeaks' /\ (\A u \in Thread : ThreadInv(u)')
<1>1. TypeOK /\ ThreadInv(t) /\ Apart /\ NothingLeaks
  BY DEF IInv
<1>2. /\ pc'[t] = "idle" /\ hooks'[t] = {} /\ wrote'[t] = {}
      /\ \A u \in Thread \ {t} : /\ pc'[u] = pc[u] /\ req'[u] = req[u] /\ obj'[u] = obj[u]
                                 /\ hooks'[u] = hooks[u] /\ wrote'[u] = wrote[u]
      /\ Referenced' = Referenced
  BY <1>1 DEF Finish, TypeOK, Referenced
<1>3. Apart'
  BY <1>1, <1>2 DEF Apart
<1>4. pc[t] # "hooks" => hooks[t] \subseteq Referenced
  <2>1. CASE pc[t] \in {"save", "commit"}
    <3>1. Target(t) \in Row /\ Sent(t) \subseteq FileField /\ hooks[t] \subseteq Name
      BY <2>1, <1>1, PayloadType DEF TypeOK, Target, Sent
    <3> QED
      BY <2>1, <3>1, <1>1, InReferenced, FileStorageAssumption DEF ThreadInv
  <2>2. CASE pc[t] \in {"idle", "load", "store"}
    BY <2>2, <1>1 DEF ThreadInv
  <2> QED
    BY <2>1, <2>2, <1>1 DEF TypeOK
<1>5. NothingLeaks'
  <2> SUFFICES ASSUME NEW m \in disk, m \notin Referenced, m \notin litter'
               PROVE  \E u \in Thread : m \in hooks'[u] \/ m \in wrote'[u]
    BY <1>2 DEF NothingLeaks
  <2>1. m \notin wrote[t] /\ m \notin hooks[t] /\ m \notin litter
    BY <1>4
  <2>2. PICK u \in Thread : m \in hooks[u] \/ m \in wrote[u]
    BY <2>1, <1>1 DEF NothingLeaks
  <2> QED
    BY <2>1, <2>2, <1>2
<1>6. ThreadInv(t)'
  BY <1>2, FileStorageAssumption DEF ThreadInv, Holding, Unlocked
<1>7. ASSUME NEW u \in Thread \ {t} PROVE ThreadInv(u)'
  <2>1. Holding(u) => Target(u) \in Row
    BY <1>1, PayloadType DEF Holding, TypeOK, Target
  <2>2. \A q \in Row : lock'[q] = u <=> lock[q] = u
    BY FileStorageAssumption DEF Unlocked
  <2> QED
    BY <2>1, <2>2, <1>2, Frame DEF IInv
<1> QED
  BY <1>3, <1>5, <1>6, <1>7

LEMMA SeparateStep ==
  ASSUME ~Overlap, IInv, Next
  PROVE  Separate'
<1> DEFINE Goes(t) == /\ \A u \in Thread \ {t} : pc'[u] = pc[u] /\ req'[u] = req[u]
                      /\ pc'[t] = "idle" \/ (pc[t] # "idle" /\ req'[t] = req[t])
<1>1. PICK t \in Thread : \/ Begin(t) \/ Load(t) \/ Store(t) \/ WriteFile(t) \/ Update(t)
                         \/ Commit(t) \/ DeleteOldFile(t) \/ Respond(t) \/ Refuse(t) \/ Fail(t)
  BY DEF Next
<1>2. CASE Begin(t)
  BY <1>2 DEF Begin, Undisturbed, Separate, Target, IInv, TypeOK
<1>3. CASE Load(t) \/ Store(t) \/ Update(t) \/ Commit(t)
  <2>1. Goes(t)
    BY <1>3 DEF Load, Store, Update, Commit, IInv, TypeOK
  <2> QED
    BY <2>1 DEF Separate, Target, IInv
<1>4. CASE WriteFile(t) \/ DeleteOldFile(t)
  BY <1>4 DEF WriteFile, DeleteOldFile, Separate, Target, IInv
<1>5. CASE Respond(t) \/ Refuse(t) \/ Fail(t)
  <2>1. Goes(t)
    BY <1>5 DEF Respond, Refuse, Fail, Finish, IInv, TypeOK
  <2> QED
    BY <2>1 DEF Separate, Target, IInv
<1> QED
  BY <1>1, <1>2, <1>3, <1>4, <1>5

LEMMA StepInv ==
  ASSUME ~Overlap, IInv, [Next]_vars
  PROVE  IInv'
<1>1. TypeOK' /\ (Next => Separate')
  BY TypeStep, SeparateStep DEF IInv
<1>2. CASE UNCHANGED vars
  BY <1>2 DEF vars, IInv, TypeOK, FilesExist, Unshared, NothingLeaks, Apart, Separate,
              Referenced, ThreadInv, Holding, Target, Sent
<1>3. ASSUME UNCHANGED <<rows, disk>> PROVE FilesExist' /\ Unshared'
  BY <1>3 DEF IInv, FilesExist, Unshared, Referenced
<1>4. ASSUME NEW t \in Thread, Begin(t) PROVE IInv'
  <2>1. NothingLeaks'
    BY <1>4 DEF Begin, NothingLeaks, Referenced, IInv
  <2> QED
    BY <1>1, <1>3, <1>4, <2>1, BeginInv DEF Begin, IInv, Next
<1>5. ASSUME NEW t \in Thread, Load(t) PROVE IInv'
  <2>1. NothingLeaks'
    BY <1>5 DEF Load, NothingLeaks, Referenced, IInv
  <2> QED
    BY <1>1, <1>3, <1>5, <2>1, LoadInv DEF Load, IInv, Next
<1>6. ASSUME NEW t \in Thread, Store(t) PROVE IInv'
  BY <1>1, <1>3, <1>6, StoreInv DEF Store, IInv, Next
<1>7. ASSUME NEW t \in Thread, WriteFile(t) PROVE IInv'
  <2>1. Unshared'
    BY <1>7 DEF WriteFile, Unshared, IInv
  <2> QED
    BY <1>1, <1>7, <2>1, WriteFileInv DEF IInv, Next
<1>8. ASSUME NEW t \in Thread, Update(t) PROVE IInv'
  <2>1. NothingLeaks'
    BY <1>8 DEF Update, NothingLeaks, Referenced, IInv
  <2> QED
    BY <1>1, <1>3, <1>8, <2>1, UpdateInv DEF Update, IInv, Next
<1>9. ASSUME NEW t \in Thread, Commit(t) PROVE IInv'
  BY <1>1, <1>9, CommitInv DEF IInv, Next
<1>10. ASSUME NEW t \in Thread, DeleteOldFile(t) PROVE IInv'
  <2>1. Unshared'
    BY <1>10 DEF DeleteOldFile, Unshared, IInv
  <2> QED
    BY <1>1, <1>10, <2>1, DeleteOldFileInv DEF IInv, Next
<1>11. ASSUME NEW t \in Thread, Respond(t) PROVE IInv'
  <2>1. /\ Finish(t) /\ UNCHANGED <<rows, disk, lock, litter>> /\ pc[t] = "hooks" /\ hooks[t] = {}
    BY <1>11 DEF Respond
  <2>2. lock' = Unlocked(t)
    BY <2>1 DEF IInv, TypeOK, ThreadInv, Unlocked
  <2>3. litter' = litter \cup wrote[t] \cup (IF pc[t] = "hooks" THEN hooks[t] ELSE {})
    BY <2>1 DEF IInv, ThreadInv
  <2> QED
    BY <1>1, <1>3, <1>11, <2>1, <2>2, <2>3, FinishInv DEF IInv, Next
<1>12. ASSUME NEW t \in Thread, Refuse(t) PROVE IInv'
  <2>1. /\ Finish(t) /\ UNCHANGED <<rows, disk, lock, litter>>
        /\ pc[t] = "store" /\ req[t].kind = "upload"
    BY <1>12 DEF Refuse, Refused
  <2>2. lock' = Unlocked(t)
    BY <2>1 DEF IInv, TypeOK, ThreadInv, Unlocked
  <2>3. litter' = litter \cup wrote[t] \cup (IF pc[t] = "hooks" THEN hooks[t] ELSE {})
    BY <2>1 DEF IInv, ThreadInv
  <2> QED
    BY <1>1, <1>3, <1>12, <2>1, <2>2, <2>3, FinishInv DEF IInv, Next
<1>13. ASSUME NEW t \in Thread, Fail(t) PROVE IInv'
  BY <1>1, <1>3, <1>13, FinishInv DEF Fail, IInv, Next
<1> QED
  BY <1>2, <1>4, <1>5, <1>6, <1>7, <1>8, <1>9, <1>10, <1>11, <1>12, <1>13 DEF Next

LEMMA InvHolds == ASSUME ~Overlap PROVE Spec => []IInv
BY InitInv, StepInv, PTL DEF Spec

-----------------------------------------------------------------------------

(* The results, as long as no upload meets another request on its row, and *)
(* for any number of threads, rows, fields and names.                      *)

(* Every file a row refers to is in the storage.                           *)
THEOREM FilesAreThere == ASSUME ~Overlap PROVE Spec => []FilesExist
BY InvHolds, PTL DEF IInv

(* No two fields refer to the same file, whatever names uploads ask for.   *)
THEOREM NobodyShares == ASSUME ~Overlap PROVE Spec => []Unshared
BY InvHolds, PTL DEF IInv

(* Only requests that fail leave files behind: any other file is referred  *)
(* to, or on its way to be referred to or removed.                         *)
THEOREM NothingIsLeft == ASSUME ~Overlap PROVE Spec => []NothingLeaks
BY InvHolds, PTL DEF IInv
=============================================================================
