------------------------- MODULE MediaUploadsProofs -------------------------
(***************************************************************************)
(* Proofs about MediaUploads, for any number of tabs, images and allowances. *)
(***************************************************************************)
EXTENDS MediaUploads, FiniteSetTheorems, TLAPS

LEMMA NextLocks ==
  /\ \A op \in {"request", "open"} : NextLock(op, "none") = "account"
  /\ \A op \in {"save", "remove"} : NextLock(op, "none") = "quiz"
  /\ \A op : /\ NextLock(op, "account") = "quiz" /\ NextLock(op, "quiz") = "none"
             /\ NextLock(op, "share") = "none"
  BY DEF NextLock

LEMMA LockConflicts ==
  /\ Conflicts("account") = {"account", "share"}
  /\ Conflicts("share") = {"account"}
  /\ Conflicts("quiz") = {"quiz"}
  BY DEF Conflicts

\* The steps of Next, one by one.
LEMMA Steps ==
  ASSUME [Next]_vars
  PROVE  \/ \E t \in Tab : \/ Request(t) \/ Open(t) \/ Lock(t) \/ RollBack(t)
                           \/ CommitOpen(t) \/ Validate(t) \/ CommitSave(t)
                           \/ RemoveFile(t) \/ CommitRemove(t)
         \/ \E t \in Tab, a \in Asset : Reserve(t, a) \/ Remove(t, a)
         \/ \E t \in Tab, a \in Asset \cup {NoAsset} : Save(t, a)
         \/ \E a \in Asset : Upload(a)
         \/ \E w \in Worker : Find(w) \/ FailRelease(w)
         \/ \E w \in Worker, what \in {"pending", "detached"} : RemoveFiles(w, what) \/ Mark(w, what)
         \/ CleanUp \/ TimePasses
         \/ UNCHANGED vars
  BY DEF Next, Transactions, Releases

-----------------------------------------------------------------------------
(* Types *)

\* A removal is of an image, and so is a file that was verified or a row in hand.
Assets == \A t \in Tab :
  tx[t].op = "remove" \/ "row" \in tx[t].held \/ tx[t].verified => tx[t].asset \in Asset

LEMMA InitTypes == Init => TypeOK /\ Assets
  BY MediaAssumption DEF Init, TypeOK, TxType, ReleaseType, Idle, Settled, Assets

LEMMA ListedTypes ==
  ASSUME TypeOK, Assets, NEW w \in Worker, NEW what \in {"pending", "detached"}, Listed(w, what)
  PROVE  TypeOK' /\ Assets'
<1>1. AfterRelease(w, what) \in ReleaseType
  BY DEF AfterRelease, ReleaseType, Settled
<1>2. Matching(what) \in SUBSET Asset
  BY DEF Matching
<1>3. [at |-> "storage", what |-> what, list |-> Matching(what)] \in ReleaseType
  BY <1>2 DEF ReleaseType
<1> QED
  BY <1>1, <1>2, <1>3 DEF Listed, TypeOK, Assets

LEMMA ValidatedType ==
  ASSUME NEW x \in TxType, NEW wants \in {"share", "none"},
         NEW held \in SUBSET {"account", "quiz", "share", "row"}
  PROVE  [x EXCEPT !.at = "commit", !.verified = FALSE, !.wants = wants, !.held = held] \in TxType
  BY DEF TxType

LEMMA NextTypes == TypeOK /\ Assets /\ [Next]_vars => TypeOK' /\ Assets'
<1> SUFFICES ASSUME TypeOK, Assets, [Next]_vars PROVE TypeOK' /\ Assets'
  OBVIOUS
<1> USE MediaAssumption, NextLocks DEF TypeOK, Assets
<1>1. ASSUME NEW t \in Tab, Request(t) PROVE TypeOK' /\ Assets'
  BY <1>1 DEF Request, Begin, TxType
<1>2. ASSUME NEW t \in Tab, Open(t) PROVE TypeOK' /\ Assets'
  BY <1>2 DEF Open, Begin, TxType
<1>3. ASSUME NEW t \in Tab, Lock(t) PROVE TypeOK' /\ Assets'
  <2>1. NextLock(tx[t].op, tx[t].wants) \in {"none", "account", "quiz", "share"}
    BY DEF NextLock
  <2> QED
    BY <1>3, <2>1 DEF Lock, TxType
<1>4. ASSUME NEW t \in Tab, RollBack(t) PROVE TypeOK' /\ Assets'
  BY <1>4 DEF RollBack, Idle, TxType
<1>5. ASSUME NEW t \in Tab, CommitOpen(t) PROVE TypeOK' /\ Assets'
  BY <1>5 DEF CommitOpen, Idle, TxType
<1>6. ASSUME NEW t \in Tab, Validate(t) PROVE TypeOK' /\ Assets'
  <2> DEFINE pending == tx[t].asset # NoAsset /\ status[tx[t].asset] = "PENDING"
             wants == IF pending THEN "share" ELSE "none"
             held == IF pending THEN tx[t].held \cup {"row"} ELSE tx[t].held
             new == [tx[t] EXCEPT !.at = "commit", !.verified = FALSE, !.wants = wants, !.held = held]
  <2>1. tx' \in [Tab -> TxType]
    <3>1. wants \in {"share", "none"} /\ held \in SUBSET {"account", "quiz", "share", "row"}
      BY DEF TxType
    <3>2. tx' = [tx EXCEPT ![t] = new]
      BY <1>6 DEF Validate
    <3> HIDE DEF wants, held
    <3>3. new \in TxType
      BY <3>1, ValidatedType
    <3> QED
      BY <3>2, <3>3
  <2>2. Assets'
    BY <1>6 DEF Validate, TxType
  <2> QED
    BY <1>6, <2>1, <2>2 DEF Validate
<1>7. ASSUME NEW t \in Tab, CommitSave(t) PROVE TypeOK' /\ Assets'
  <2>1. status' \in [Asset -> {"none", "PENDING", "READY", "DELETED"}] /\ uploads' \in Nat
    BY <1>7 DEF CommitSave
  <2>2. tx[t].asset \in Asset \cup {NoAsset} /\ cover' = tx[t].asset
    BY <1>7 DEF CommitSave, TxType
  <2>3. tx' \in [Tab -> TxType] /\ Assets'
    BY <1>7 DEF CommitSave, Idle, TxType
  <2>4. release' \in [Worker -> ReleaseType]
    BY <1>7 DEF CommitSave, ReleaseType, Worker
  <2> QED
    BY <1>7, <2>1, <2>2, <2>3, <2>4 DEF CommitSave
<1>8. ASSUME NEW t \in Tab, RemoveFile(t) PROVE TypeOK' /\ Assets'
  BY <1>8 DEF RemoveFile, TxType
<1>9. ASSUME NEW t \in Tab, CommitRemove(t) PROVE TypeOK' /\ Assets'
  BY <1>9 DEF CommitRemove, Idle, TxType
<1>10. ASSUME NEW t \in Tab, NEW a \in Asset, Reserve(t, a) PROVE TypeOK' /\ Assets'
  BY <1>10 DEF Reserve, Idle, TxType
<1>11. ASSUME NEW t \in Tab, NEW a \in Asset, Remove(t, a) PROVE TypeOK' /\ Assets'
  BY <1>11 DEF Remove, Begin, TxType
<1>12. ASSUME NEW t \in Tab, NEW a \in Asset \cup {NoAsset}, Save(t, a) PROVE TypeOK' /\ Assets'
  <2> DEFINE pending == a # NoAsset /\ status[a] = "PENDING"
             new == [op |-> "save", wants |-> "quiz", held |-> {}, at |-> "start",
                     asset |-> a, verified |-> pending]
  <2>1. tx' = [tx EXCEPT ![t] = new] /\ overlapped' = overlapped \cup ({a} \cap Releasing)
    BY <1>12 DEF Save, Begin
  <2>2. pending \in BOOLEAN /\ (pending => a \in Asset)
    OBVIOUS
  <2>3. Releasing \subseteq Asset
    BY DEF Releasing, ReleaseType
  <2> HIDE DEF pending
  <2>4. new \in TxType
    BY <2>2 DEF TxType
  <2>5. tx' \in [Tab -> TxType] /\ Assets'
    BY <2>1, <2>2, <2>4
  <2>6. overlapped' \in SUBSET Asset
    BY <2>1, <2>3
  <2> QED
    BY <1>12, <2>5, <2>6 DEF Save
<1>13. ASSUME NEW a \in Asset, Upload(a) PROVE TypeOK' /\ Assets'
  BY <1>13 DEF Upload
<1>14. ASSUME NEW w \in Worker, Find(w) PROVE TypeOK' /\ Assets'
  BY <1>14, ListedTypes DEF Find
<1>15. ASSUME NEW w \in Worker, FailRelease(w) PROVE TypeOK' /\ Assets'
  BY <1>15 DEF FailRelease, Settled, ReleaseType
<1>16. ASSUME NEW w \in Worker, NEW what \in {"pending", "detached"}, RemoveFiles(w, what)
       PROVE  TypeOK' /\ Assets'
  BY <1>16 DEF RemoveFiles, ReleaseType
<1>17. ASSUME NEW w \in Worker, NEW what \in {"pending", "detached"}, Mark(w, what)
       PROVE  TypeOK' /\ Assets'
  <2>1. AfterRelease(w, what) \in ReleaseType
    BY DEF AfterRelease, ReleaseType, Settled
  <2> QED
    BY <1>17, <2>1 DEF Mark
<1>18. ASSUME CleanUp PROVE TypeOK' /\ Assets'
  BY <1>18, ListedTypes DEF CleanUp, Worker
<1>19. ASSUME TimePasses PROVE TypeOK' /\ Assets'
  BY <1>19 DEF TimePasses, Reserved
<1>20. ASSUME UNCHANGED vars PROVE TypeOK' /\ Assets'
  BY <1>20 DEF vars
<1> QED
  BY Steps, <1>1, <1>2, <1>3, <1>4, <1>5, <1>6, <1>7, <1>8, <1>9, <1>10, <1>11, <1>12,
     <1>13, <1>14, <1>15, <1>16, <1>17, <1>18, <1>19, <1>20

-----------------------------------------------------------------------------
(* Locks                                                                     *)

\* What a transaction holds when it asks for a lock, or stands at its commit.
Ordered(x) ==
  /\ x.wants = "account" => x.held = {}
  /\ x.wants = "quiz" => x.held \subseteq {"account"} /\ x.at = "start"
  /\ x.wants = "share" => x.op = "save" /\ x.at = "commit" /\ "quiz" \in x.held
  /\ x.op = "none" => x.wants = "none"
  /\ x.at = "commit" => x.op \in {"save", "remove"} /\ "quiz" \in x.held
  /\ x.op \in {"save", "remove"} => x.wants # "account" /\ (x.wants = "none" => "quiz" \in x.held)
  /\ "row" \in x.held => x.op = "save" /\ x.at = "commit"
  /\ x.op \in {"request", "open"} => x.at = "start"

LockInv ==
  /\ \A t \in Tab : Ordered(tx[t])
  /\ \A t, u \in Tab : "quiz" \in tx[t].held /\ "quiz" \in tx[u].held => t = u
  /\ \A t \in Tab : "row" \in tx[t].held => status[tx[t].asset] = "PENDING"

Locks == TypeOK /\ Assets /\ LockInv

LEMMA InitLocks == Init => Locks
  BY InitTypes DEF Init, Locks, LockInv, Ordered, Idle

\* A transaction begins or ends, and its row stays as it was.
LEMMA BeginLocks ==
  ASSUME Locks, NEW t \in Tab, NEW x, Ordered(x), x.held = {}, tx' = [tx EXCEPT ![t] = x],
         \A a \in Asset : status[a] = "PENDING" => status'[a] = "PENDING"
  PROVE  LockInv'
<1>1. tx'[t] = x /\ \A u \in Tab : u # t => tx'[u] = tx[u]
  BY DEF Locks, TypeOK
<1> QED
  BY <1>1 DEF Locks, LockInv, Assets

LEMMA OrderedIdle == Ordered(Idle) /\ Idle.held = {}
  BY DEF Ordered, Idle

LEMMA OrderedBegin ==
  ASSUME NEW op \in {"request", "open", "save", "remove"}, NEW asset, NEW verified
  PROVE  Ordered([op |-> op, wants |-> NextLock(op, "none"), held |-> {},
                  at |-> "start", asset |-> asset, verified |-> verified])
  BY NextLocks DEF Ordered

LEMMA LockLocks ==
  ASSUME Locks, NEW t \in Tab, Lock(t)
  PROVE  LockInv'
<1> USE DEF Locks, LockInv
<1> DEFINE lock == tx[t].wants
           new == [tx[t] EXCEPT !.held = @ \cup {lock}, !.wants = NextLock(tx[t].op, lock)]
<1>1. /\ lock # "none" /\ tx' = [tx EXCEPT ![t] = new] /\ status' = status
      /\ \A u \in Tab : ~ WaitsFor(t, u)
  BY DEF Lock
<1>2. tx[t] \in TxType /\ Ordered(tx[t])
  BY DEF TypeOK
<1>3. /\ new.op = tx[t].op /\ new.at = tx[t].at /\ new.asset = tx[t].asset
      /\ new.held = tx[t].held \cup {lock} /\ new.wants = NextLock(tx[t].op, lock)
  BY <1>2 DEF TxType
<1>4. lock \in {"account", "quiz", "share"}
  BY <1>1, <1>2 DEF TxType
<1>5. Ordered(new)
  <2>1. CASE lock = "account"
    BY <1>2, <1>3, <2>1, NextLocks DEF Ordered, TxType
  <2>2. CASE lock = "quiz"
    BY <1>2, <1>3, <2>2, NextLocks DEF Ordered, TxType
  <2>3. CASE lock = "share"
    BY <1>2, <1>3, <2>3, NextLocks DEF Ordered, TxType
  <2> QED
    BY <1>4, <2>1, <2>2, <2>3
<1>6. tx'[t] = new /\ \A u \in Tab : u # t => tx'[u] = tx[u]
  BY <1>1 DEF TypeOK
<1>7. "quiz" \in new.held /\ "quiz" \notin tx[t].held => \A u \in Tab : u # t => "quiz" \notin tx[u].held
  BY <1>1, <1>3, <1>4, LockConflicts DEF WaitsFor
<1>8. "row" \in new.held => "row" \in tx[t].held
  BY <1>3, <1>4
<1> HIDE DEF new
<1> QED
  BY <1>1, <1>3, <1>5, <1>6, <1>7, <1>8

LEMMA ValidateLocks ==
  ASSUME Locks, NEW t \in Tab, Validate(t)
  PROVE  LockInv'
<1> USE DEF Locks, LockInv
<1> DEFINE pending == tx[t].asset # NoAsset /\ status[tx[t].asset] = "PENDING"
<1>1. /\ tx[t].op = "save" /\ tx[t].at = "start" /\ tx[t].wants = "none" /\ status' = status
  BY DEF Validate, Ready
<1>2. tx[t] \in TxType /\ Ordered(tx[t]) /\ "quiz" \in tx[t].held /\ "row" \notin tx[t].held
  BY <1>1 DEF TypeOK, Ordered
<1>3. /\ tx'[t].op = "save" /\ tx'[t].at = "commit" /\ tx'[t].asset = tx[t].asset
      /\ tx'[t].wants = IF pending THEN "share" ELSE "none"
      /\ tx'[t].held = IF pending THEN tx[t].held \cup {"row"} ELSE tx[t].held
      /\ \A u \in Tab : u # t => tx'[u] = tx[u]
  BY <1>1, <1>2 DEF Validate, TypeOK, TxType
<1>4. Ordered(tx'[t])
  BY <1>2, <1>3 DEF Ordered
<1> QED
  BY <1>1, <1>2, <1>3, <1>4

LEMMA RemoveFileLocks ==
  ASSUME Locks, NEW t \in Tab, RemoveFile(t)
  PROVE  LockInv'
<1>1. /\ tx[t].op = "remove" /\ tx[t].at = "start" /\ tx[t].wants = "none" /\ status' = status
  BY DEF RemoveFile, Ready
<1>2. tx[t] \in TxType /\ Ordered(tx[t])
  BY DEF Locks, LockInv, TypeOK
<1>3. /\ tx'[t].op = "remove" /\ tx'[t].at = "commit" /\ tx'[t].asset = tx[t].asset
      /\ tx'[t].wants = "none" /\ tx'[t].held = tx[t].held
      /\ \A u \in Tab : u # t => tx'[u] = tx[u]
  BY <1>1, <1>2 DEF RemoveFile, Locks, TypeOK, TxType
<1>4. Ordered(tx'[t])
  BY <1>1, <1>2, <1>3 DEF Ordered
<1> QED
  BY <1>1, <1>3, <1>4 DEF Locks, LockInv

\* The transaction of t ends, and whoever has a row in hand holds no lock of t's.
LEMMA EndLocks ==
  ASSUME Locks, NEW t \in Tab, "quiz" \in tx[t].held, tx' = [tx EXCEPT ![t] = Idle],
         \A a \in Asset : a # tx[t].asset => status'[a] = status[a]
  PROVE  LockInv'
<1>1. tx'[t] = Idle /\ \A u \in Tab : u # t => tx'[u] = tx[u]
  BY DEF Locks, TypeOK
<1>2. \A u \in Tab : u # t => "row" \notin tx[u].held
  BY DEF Locks, LockInv, Ordered
<1> QED
  BY <1>1, <1>2, OrderedIdle DEF Locks, LockInv

LEMMA NextLocksInv == Locks /\ [Next]_vars => Locks'
<1> SUFFICES ASSUME Locks, [Next]_vars PROVE LockInv'
  BY NextTypes DEF Locks
<1>1. ASSUME NEW t \in Tab, Request(t) PROVE LockInv'
  BY <1>1, BeginLocks, OrderedBegin DEF Request, Begin
<1>2. ASSUME NEW t \in Tab, Open(t) PROVE LockInv'
  BY <1>2, BeginLocks, OrderedBegin DEF Open, Begin
<1>3. ASSUME NEW t \in Tab, Lock(t) PROVE LockInv'
  BY <1>3, LockLocks
<1>4. ASSUME NEW t \in Tab, RollBack(t) \/ CommitOpen(t) PROVE LockInv'
  BY <1>4, BeginLocks, OrderedIdle DEF RollBack, CommitOpen
<1>5. ASSUME NEW t \in Tab, Validate(t) PROVE LockInv'
  BY <1>5, ValidateLocks
<1>6. ASSUME NEW t \in Tab, CommitSave(t) PROVE LockInv'
  <2>1. "quiz" \in tx[t].held
    BY <1>6 DEF CommitSave, Ready, Locks, LockInv, Ordered
  <2>2. \A a \in Asset : a # tx[t].asset => status'[a] = status[a]
    BY <1>6 DEF CommitSave, Locks, TypeOK
  <2> QED
    BY <1>6, <2>1, <2>2, EndLocks DEF CommitSave
<1>7. ASSUME NEW t \in Tab, RemoveFile(t) PROVE LockInv'
  BY <1>7, RemoveFileLocks
<1>8. ASSUME NEW t \in Tab, CommitRemove(t) PROVE LockInv'
  <2>1. "quiz" \in tx[t].held
    BY <1>8 DEF CommitRemove, Ready, Locks, LockInv, Ordered
  <2>2. \A a \in Asset : a # tx[t].asset => status'[a] = status[a]
    BY <1>8 DEF CommitRemove, Locks, TypeOK
  <2> QED
    BY <1>8, <2>1, <2>2, EndLocks DEF CommitRemove
<1>9. ASSUME NEW t \in Tab, NEW a \in Asset, Reserve(t, a) PROVE LockInv'
  <2>1. \A b \in Asset : status[b] = "PENDING" => status'[b] = "PENDING"
    BY <1>9 DEF Reserve, Locks, TypeOK
  <2> QED
    BY <1>9, <2>1, BeginLocks, OrderedIdle DEF Reserve
<1>10. ASSUME NEW t \in Tab, NEW a \in Asset, Remove(t, a) PROVE LockInv'
  BY <1>10, BeginLocks, OrderedBegin DEF Remove, Begin
<1>11. ASSUME NEW t \in Tab, NEW a \in Asset \cup {NoAsset}, Save(t, a) PROVE LockInv'
  BY <1>11, BeginLocks, OrderedBegin DEF Save, Begin
<1>12. ASSUME NEW w \in Worker, NEW what \in {"pending", "detached"}, Mark(w, what) PROVE LockInv'
  <2>1. ASSUME NEW t \in Tab, "row" \in tx[t].held PROVE status'[tx[t].asset] = status[tx[t].asset]
    BY <1>12, <2>1 DEF Mark, Locks, Assets
  <2> QED
    BY <1>12, <2>1 DEF Mark, Locks, LockInv
<1>13. ASSUME UNCHANGED <<tx, status>> PROVE LockInv'
  BY <1>13 DEF Locks, LockInv
<1>14. ASSUME NEW a \in Asset, Upload(a) PROVE UNCHANGED <<tx, status>>
  BY <1>14 DEF Upload
<1>15. ASSUME NEW w \in Worker, Find(w) \/ FailRelease(w) PROVE UNCHANGED <<tx, status>>
  BY <1>15 DEF Find, Listed, FailRelease
<1>16. ASSUME NEW w \in Worker, NEW what \in {"pending", "detached"}, RemoveFiles(w, what)
       PROVE  UNCHANGED <<tx, status>>
  BY <1>16 DEF RemoveFiles
<1>17. ASSUME CleanUp \/ TimePasses \/ UNCHANGED vars PROVE UNCHANGED <<tx, status>>
  BY <1>17 DEF CleanUp, Listed, TimePasses, vars
<1> QED
  BY Steps, <1>1, <1>2, <1>3, <1>4, <1>5, <1>6, <1>7, <1>8, <1>9, <1>10, <1>11, <1>12,
     <1>13, <1>14, <1>15, <1>16, <1>17

\* "Account before quiz, the order every transaction locks them in": among the
\* transactions of a deadlock, however many, is a save that attaches a pending
\* upload, which records the usage event under the quiz's lock.
THEOREM DeadlocksNeedSave == Spec => []DeadlockNeedsPendingSave
<1>1. ASSUME Locks, NEW S \in SUBSET Tab, Deadlocked(S), \A t \in S : tx[t].wants # "share"
      PROVE  FALSE
  <2>1. \A t \in S : Ordered(tx[t]) /\ tx[t].wants \in {"account", "quiz"}
    BY <1>1 DEF Deadlocked, WaitsFor, Locks, LockInv, TypeOK, TxType
  <2>2. \A t \in S : "quiz" \notin tx[t].held
    BY <2>1 DEF Ordered
  \* Nobody waits for the quiz, since its holder waits for nothing here ...
  <2>3. \A t \in S : tx[t].wants = "account"
    BY <1>1, <2>1, <2>2, LockConflicts DEF Deadlocked, WaitsFor
  \* ... and who waits for the account holds nothing another could wait for.
  <2>4. \A t \in S : tx[t].held = {}
    BY <2>1, <2>3 DEF Ordered
  <2> QED
    BY <1>1, <2>4 DEF Deadlocked, WaitsFor
<1>2. Locks => DeadlockNeedsPendingSave
  BY <1>1 DEF DeadlockNeedsPendingSave
<1> QED
  BY InitLocks, NextLocksInv, <1>2, PTL DEF Spec

-----------------------------------------------------------------------------
(* Allowances                                                                *)

\* Reservations that passed the check of the day together are no more than the
\* quota holds.
Overshoot == uploads + Cardinality(Reserved) < UploadsPerDay + Quota

Allowances == QuotaKept /\ Overshoot

LEMMA FiniteAssets ==
  ASSUME MediaAssumption
  PROVE  /\ IsFiniteSet(Counted) /\ IsFiniteSet(Reserved) /\ Reserved \subseteq Counted
         /\ Cardinality(Counted) \in Nat /\ Cardinality(Reserved) \in Nat
         /\ Cardinality(Reserved) <= Cardinality(Counted)
<1>1. Counted \subseteq Asset /\ Reserved \subseteq Counted
  BY DEF Counted, Reserved
<1>2. IsFiniteSet(Counted) /\ IsFiniteSet(Reserved)
  BY <1>1, FS_Subset DEF MediaAssumption
<1> QED
  BY <1>1, <1>2, FS_Subset, FS_CardinalityType

\* Images that only leave.
LEMMA FewerCounted ==
  ASSUME Allowances, TypeOK, uploads' = uploads,
         \A a \in Asset : status'[a] \in {status[a], "DELETED"}
  PROVE  Allowances'
<1>1. Counted' \subseteq Counted /\ Reserved' \subseteq Reserved
  BY DEF Counted, Reserved
<1>2. /\ IsFiniteSet(Counted') /\ Cardinality(Counted') <= Cardinality(Counted)
      /\ IsFiniteSet(Reserved') /\ Cardinality(Reserved') <= Cardinality(Reserved)
  BY <1>1, FiniteAssets, MediaAssumption, FS_Subset
<1>3. Cardinality(Counted') \in Nat /\ Cardinality(Reserved') \in Nat
  BY <1>2, FS_CardinalityType
<1> QED
  BY <1>2, <1>3, FiniteAssets, MediaAssumption DEF Allowances, QuotaKept, Overshoot, TypeOK

LEMMA ReserveBounded ==
  ASSUME Allowances, TypeOK, NEW t \in Tab, NEW a \in Asset, Reserve(t, a)
  PROVE  Allowances'
<1>1. Counted' = Counted \cup {a} /\ Reserved' = Reserved \cup {a} /\ a \notin Counted
  BY DEF Reserve, TypeOK, Counted, Reserved
<1>2. a \notin Reserved
  BY <1>1, FiniteAssets, MediaAssumption
<1>3. /\ Cardinality(Counted') = Cardinality(Counted) + 1
      /\ Cardinality(Reserved') = Cardinality(Reserved) + 1
  BY <1>1, <1>2, FiniteAssets, MediaAssumption, FS_AddElement
<1>4. uploads < UploadsPerDay /\ Cardinality(Counted) < Quota /\ uploads' = uploads
  BY DEF Reserve
<1> QED
  BY <1>3, <1>4, FiniteAssets, MediaAssumption DEF Allowances, QuotaKept, Overshoot, TypeOK

LEMMA SaveBounded ==
  ASSUME Allowances, Locks, NEW t \in Tab, CommitSave(t)
  PROVE  Allowances'
<1> DEFINE a == tx[t].asset
<1>1. CASE "row" \in tx[t].held
  <2>1. a \in Asset /\ status[a] = "PENDING" /\ status' = [status EXCEPT ![a] = "READY"]
        /\ uploads' = uploads + 1
    BY <1>1 DEF CommitSave, Locks, Assets, LockInv
  <2>2. Counted' = Counted /\ Reserved' = Reserved \ {a} /\ a \in Reserved
    BY <2>1 DEF Locks, TypeOK, Counted, Reserved
  <2>3. Cardinality(Reserved') = Cardinality(Reserved) - 1
    BY <2>2, FiniteAssets, MediaAssumption, FS_RemoveElement
  <2> QED
    BY <2>1, <2>2, <2>3, FiniteAssets, MediaAssumption DEF Allowances, QuotaKept, Overshoot, Locks, TypeOK
<1>2. CASE "row" \notin tx[t].held
  BY <1>2 DEF CommitSave, Allowances, QuotaKept, Overshoot, Counted, Reserved
<1> QED
  BY <1>1, <1>2

LEMMA NextBounded == Allowances /\ Locks /\ [Next]_vars => Allowances'
<1> SUFFICES ASSUME Allowances, Locks, [Next]_vars PROVE Allowances'
  OBVIOUS
<1>1. ASSUME NEW t \in Tab, NEW a \in Asset, Reserve(t, a) PROVE Allowances'
  BY <1>1, ReserveBounded DEF Locks
<1>2. ASSUME NEW t \in Tab, CommitSave(t) PROVE Allowances'
  BY <1>2, SaveBounded
<1>3. ASSUME NEW t \in Tab, CommitRemove(t) PROVE Allowances'
  BY <1>3, FewerCounted DEF CommitRemove, Locks, TypeOK
<1>4. ASSUME NEW w \in Worker, NEW what \in {"pending", "detached"}, Mark(w, what)
      PROVE  Allowances'
  BY <1>4, FewerCounted DEF Mark, Locks
<1>5. ASSUME TimePasses PROVE Allowances'
  <2>1. uploads' \in 0..uploads /\ Counted' = Counted /\ Reserved' = Reserved
    BY <1>5 DEF TimePasses, Counted, Reserved
  <2> QED
    BY <1>5, <2>1, FiniteAssets, MediaAssumption DEF Locks, TypeOK, Allowances, QuotaKept, Overshoot
<1>6. ASSUME UNCHANGED <<status, uploads>> PROVE Allowances'
  BY <1>6 DEF Allowances, QuotaKept, Overshoot, Counted, Reserved
<1>7. ASSUME NEW t \in Tab, \/ Request(t) \/ Open(t) \/ Lock(t) \/ RollBack(t)
                            \/ CommitOpen(t) \/ Validate(t) \/ RemoveFile(t)
      PROVE  UNCHANGED <<status, uploads>>
  BY <1>7 DEF Request, Open, Lock, RollBack, CommitOpen, Validate, RemoveFile
<1>8. ASSUME NEW t \in Tab, NEW a \in Asset, Remove(t, a) PROVE UNCHANGED <<status, uploads>>
  BY <1>8 DEF Remove
<1>9. ASSUME NEW t \in Tab, NEW a \in Asset \cup {NoAsset}, Save(t, a)
      PROVE  UNCHANGED <<status, uploads>>
  BY <1>9 DEF Save
<1>10. ASSUME NEW a \in Asset, Upload(a) PROVE UNCHANGED <<status, uploads>>
  BY <1>10 DEF Upload
<1>11. ASSUME NEW w \in Worker, Find(w) \/ FailRelease(w) PROVE UNCHANGED <<status, uploads>>
  BY <1>11 DEF Find, Listed, FailRelease
<1>12. ASSUME NEW w \in Worker, NEW what \in {"pending", "detached"}, RemoveFiles(w, what)
       PROVE  UNCHANGED <<status, uploads>>
  BY <1>12 DEF RemoveFiles
<1>13. ASSUME CleanUp \/ UNCHANGED vars PROVE UNCHANGED <<status, uploads>>
  BY <1>13 DEF CleanUp, Listed, vars
<1> QED
  BY Steps, <1>1, <1>2, <1>3, <1>4, <1>5, <1>6, <1>7, <1>8, <1>9, <1>10, <1>11, <1>12, <1>13

LEMMA InitBounded == Init => Allowances
<1> SUFFICES ASSUME Init PROVE Allowances
  OBVIOUS
<1>1. Counted = {} /\ Reserved = {} /\ uploads = 0
  BY DEF Init, Counted, Reserved
<1> QED
  BY <1>1, FS_EmptySet, MediaAssumption DEF Allowances, QuotaKept, Overshoot

LEMMA AllowancesHold == Spec => []Allowances
  BY InitLocks, NextLocksInv, InitBounded, NextBounded, PTL DEF Spec

\* However many tabs ask for uploads at once, the account's reserved and stored
\* images stay within its quota.
THEOREM QuotaIsKept == Spec => []QuotaKept
<1>1. Allowances => QuotaKept
  BY DEF Allowances
<1> QED
  BY AllowancesHold, <1>1, PTL

\* How far UploadsWithinDay is missed: a day sees fewer uploads than its
\* allowance and the quota together.
THEOREM OvershootBounded == Spec => []Overshoot
<1>1. Allowances => Overshoot
  BY DEF Allowances
<1> QED
  BY AllowancesHold, <1>1, PTL

\* The variables keep their types.
THEOREM TypeCorrect == Spec => []TypeOK
<1>1. Locks => TypeOK
  BY DEF Locks
<1> QED
  BY InitLocks, NextLocksInv, <1>1, PTL DEF Spec

-----------------------------------------------------------------------------
(* Files                                                                     *)

\* An image whose ticket is used or expired: no file of it is still to come.
Sent(a) == status[a] # "none" /\ a \notin ticket

\* Whatever is looked at, listed, removed or attached is settled that way, so
\* the file a release or a removal has taken from storage stays away.
FileInv ==
  /\ \A a \in ticket : status[a] # "none"
  /\ \A t \in Tab : tx[t].op = "remove" => status[tx[t].asset] # "none"
  /\ \A a \in file \cup old : Sent(a)
  /\ \A a \in Asset : status[a] = "READY" => Sent(a)
  /\ \A t \in Tab : tx[t].verified \/ "row" \in tx[t].held => Sent(tx[t].asset)
  /\ \A w \in Worker : \A a \in release[w].list : Sent(a)
  /\ \A w \in Worker : release[w].at = "mark" => release[w].list \cap file = {}
  /\ \A t \in Tab : tx[t].op = "remove" /\ tx[t].at = "commit" =>
        tx[t].asset \notin file \/ tx[t].asset \in late

Files == Locks /\ FileInv /\ StoredIsCounted

LEMMA InitFiles == Init => Files
  BY InitLocks DEF Init, Files, FileInv, StoredIsCounted, Idle, Settled

\* Steps of a transaction that touch neither rows nor files.
LEMMA TxFiles ==
  ASSUME Files, NEW t \in Tab, UNCHANGED <<status, file, ticket, old, late, release>>,
         \A u \in Tab : u # t => tx'[u] = tx[u],
         tx'[t].verified \/ "row" \in tx'[t].held => Sent(tx'[t].asset),
         tx'[t].op = "remove" => status[tx'[t].asset] # "none" /\ tx'[t].at # "commit"
  PROVE  FileInv' /\ StoredIsCounted'
  BY DEF Files, FileInv, StoredIsCounted, Counted, Sent

\* The same for a transaction that ends with these rows.
LEMMA EndFiles ==
  ASSUME Files, NEW t \in Tab, tx' = [tx EXCEPT ![t] = Idle],
         UNCHANGED <<file, ticket, old, late>>,
         \A w \in Worker : release'[w].list = release[w].list
                           /\ (release'[w].at = "mark" => release[w].at = "mark"),
         \A a \in Asset : \/ status'[a] = status[a]
                          \/ status'[a] = "READY" /\ Sent(a)
                          \/ status'[a] = "DELETED" /\ status[a] # "none" /\ (a \in file => a \in late)
  PROVE  FileInv' /\ StoredIsCounted'
<1>1. tx'[t] = Idle /\ \A u \in Tab : u # t => tx'[u] = tx[u]
  BY DEF Files, Locks, TypeOK
<1>2. \A a \in Asset : Sent(a) => Sent(a)'
  BY DEF Sent
<1>3. \A u \in Tab : u # t /\ (tx[u].verified \/ "row" \in tx[u].held) => Sent(tx[u].asset)'
  BY <1>2 DEF Files, FileInv, Locks, Assets
<1>4. \A a \in Asset : status[a] # "none" => status'[a] # "none"
  BY DEF Sent
<1>5. StoredIsCounted'
  BY DEF Files, StoredIsCounted, Counted, Sent, FileInv, Locks, TypeOK
<1>6. ticket \subseteq Asset /\ file \subseteq Asset /\ old \subseteq Asset
  BY DEF Files, Locks, TypeOK
<1>7. \A w \in Worker : release[w].list \subseteq Asset
  BY DEF Files, Locks, TypeOK, ReleaseType
<1>8. /\ \A a \in ticket' : status'[a] # "none"
      /\ \A a \in file' \cup old' : Sent(a)'
      /\ \A a \in Asset : status'[a] = "READY" => Sent(a)'
  BY <1>2, <1>4, <1>6 DEF Files, FileInv
<1>9. \A w \in Worker : \A a \in release'[w].list : Sent(a)'
  BY <1>2, <1>7 DEF Files, FileInv
<1>10. \A w \in Worker : release'[w].at = "mark" => release'[w].list \cap file' = {}
  BY DEF Files, FileInv
<1>11. \A u \in Tab : tx'[u].op = "remove" => status'[tx'[u].asset] # "none"
  BY <1>1, <1>4 DEF Files, FileInv, Idle, Locks, Assets
<1>12. FileInv'
  BY <1>1, <1>3, <1>8, <1>9, <1>10, <1>11 DEF Files, FileInv, Idle
<1> QED
  BY <1>5, <1>12

\* The images a release finds.
LEMMA ListedFiles ==
  ASSUME Files, NEW w \in Worker, NEW what \in {"pending", "detached"}, Listed(w, what)
  PROVE  FileInv' /\ StoredIsCounted'
<1>1. \A a \in Matching(what) : a \in Asset /\ Sent(a)
  BY DEF Matching, Files, FileInv
<1>2. AfterRelease(w, what).list = {} /\ AfterRelease(w, what).at # "mark"
  BY DEF AfterRelease, Settled
<1>3. /\ UNCHANGED <<status, file, ticket, old, tx, late>>
      /\ \A v \in Worker : v # w => release'[v] = release[v]
      /\ release'[w].list \subseteq Matching(what) /\ release'[w].at # "mark"
  BY <1>2 DEF Listed, Files, Locks, TypeOK
<1>4. StoredIsCounted'
  BY <1>3 DEF Files, StoredIsCounted, Counted
<1>5. FileInv'
  BY <1>1, <1>3 DEF Files, FileInv, Sent
<1> QED
  BY <1>4, <1>5

LEMMA SaveFiles ==
  ASSUME Files, NEW t \in Tab, CommitSave(t)
  PROVE  FileInv' /\ StoredIsCounted'
<1> DEFINE a == tx[t].asset
<1>1. \A b \in Asset : status'[b] = status[b] \/ (status'[b] = "READY" /\ Sent(b))
  <2>1. CASE "row" \in tx[t].held
    <3>1. Sent(a) /\ status' = [status EXCEPT ![a] = "READY"]
      BY <2>1 DEF CommitSave, Files, FileInv
    <3> QED
      BY <3>1 DEF Files, Locks, TypeOK
  <2>2. CASE "row" \notin tx[t].held
    BY <2>2 DEF CommitSave
  <2> QED
    BY <2>1, <2>2
<1>2. \A w \in Worker : release'[w].list = release[w].list
                        /\ (release'[w].at = "mark" => release[w].at = "mark")
  BY DEF CommitSave, Files, Locks, TypeOK, ReleaseType, Worker
<1> QED
  BY <1>1, <1>2, EndFiles DEF CommitSave

LEMMA MarkFiles ==
  ASSUME Files, NEW w \in Worker, NEW what \in {"pending", "detached"}, Mark(w, what)
  PROVE  FileInv' /\ StoredIsCounted'
<1>1. /\ release[w].at = "mark" /\ UNCHANGED <<file, ticket, old, tx, late>>
      /\ \A a \in Asset : \/ status'[a] = status[a]
                          \/ status'[a] = "DELETED" /\ status[a] # "none" /\ a \notin file
  BY DEF Mark, Matching, Files, FileInv
<1>2. AfterRelease(w, what).list = {} /\ AfterRelease(w, what).at # "mark"
  BY DEF AfterRelease, Settled
<1>3. /\ \A v \in Worker : v # w => release'[v] = release[v]
      /\ release'[w].list = {} /\ release'[w].at # "mark"
  BY <1>2 DEF Mark, Files, Locks, TypeOK
<1>4. StoredIsCounted'
  BY <1>1 DEF Files, StoredIsCounted, Counted, Locks, TypeOK
<1>5. \A a \in Asset : Sent(a) => Sent(a)'
  BY <1>1 DEF Sent
<1>6. /\ ticket \subseteq Asset /\ file \subseteq Asset /\ old \subseteq Asset
      /\ \A v \in Worker : release[v].list \subseteq Asset
      /\ \A t \in Tab : tx[t].verified \/ "row" \in tx[t].held => tx[t].asset \in Asset
  BY DEF Files, Locks, TypeOK, ReleaseType, Assets
<1>7. \A u \in Tab : tx'[u].op = "remove" => status'[tx'[u].asset] # "none"
  BY <1>1 DEF Files, FileInv, Locks, Assets
<1>8. FileInv'
  BY <1>1, <1>3, <1>5, <1>6, <1>7 DEF Files, FileInv
<1> QED
  BY <1>4, <1>8

\* Steps of a release or of time, with no image listed anew.
LEMMA ReleaseFiles ==
  ASSUME Files, UNCHANGED <<status, tx, late>>, file' \subseteq file, ticket' \subseteq ticket,
         \A a \in old' : status[a] # "none" /\ a \notin ticket',
         \A w \in Worker : /\ release'[w].list \subseteq release[w].list
                           /\ release'[w].at = "mark" => release'[w].list \cap file' = {}
  PROVE  FileInv' /\ StoredIsCounted'
<1>1. StoredIsCounted'
  BY DEF Files, StoredIsCounted, Counted
<1>2. \A a : Sent(a) => Sent(a)'
  BY DEF Sent
<1>3. \A w \in Worker : \A a \in release'[w].list : Sent(a)'
  BY <1>2 DEF Files, FileInv
<1>4. FileInv'
  BY <1>2, <1>3 DEF Files, FileInv, Sent
<1> QED
  BY <1>1, <1>4

LEMMA UploadFiles ==
  ASSUME Files, NEW a \in Asset, Upload(a)
  PROVE  FileInv' /\ StoredIsCounted'
<1>1. /\ a \in ticket /\ ticket' = ticket \ {a} /\ file' = file \cup {a}
      /\ UNCHANGED <<status, old, tx, release>> /\ late \subseteq late'
      /\ status[a] # "none" /\ ~ Sent(a)
  BY DEF Upload, Files, FileInv, Sent
<1>2. status[a] = "DELETED" => a \in late'
  BY DEF Upload
<1>3. \A t \in Tab : tx[t].op = "remove" /\ tx[t].at = "commit" /\ tx[t].asset = a => a \in late'
  BY DEF Upload
<1>4. StoredIsCounted'
  BY <1>1, <1>2 DEF Files, StoredIsCounted, Counted, Locks, TypeOK
<1>5. \A b : Sent(b) => Sent(b)'
  BY <1>1 DEF Sent
<1>6. Sent(a)'
  BY <1>1 DEF Sent
<1>7. \A w \in Worker : release[w].at = "mark" => release[w].list \cap file' = {}
  BY <1>1 DEF Files, FileInv
<1>8. \A t \in Tab : tx[t].op = "remove" /\ tx[t].at = "commit" =>
         tx[t].asset \notin file' \/ tx[t].asset \in late'
  BY <1>1, <1>3 DEF Files, FileInv
<1>9. FileInv'
  BY <1>1, <1>5, <1>6, <1>7, <1>8 DEF Files, FileInv
<1> QED
  BY <1>4, <1>9

LEMMA ReserveFiles ==
  ASSUME Files, NEW t \in Tab, NEW a \in Asset, Reserve(t, a)
  PROVE  FileInv' /\ StoredIsCounted'
<1>1. /\ status[a] = "none" /\ ticket' \subseteq ticket \cup {a}
      /\ UNCHANGED <<file, old, release, late>>
      /\ tx'[t] = Idle /\ \A u \in Tab : u # t => tx'[u] = tx[u]
      /\ \A b \in Asset : status'[b] = IF b = a THEN "PENDING" ELSE status[b]
  BY DEF Reserve, Files, Locks, TypeOK
<1>2. \A b \in Asset : Sent(b) => Sent(b)'
  BY <1>1 DEF Sent
<1>3. StoredIsCounted'
  BY <1>1 DEF Files, StoredIsCounted, Counted, Locks, TypeOK
<1>4. /\ ticket \subseteq Asset /\ file \subseteq Asset /\ old \subseteq Asset
      /\ \A v \in Worker : release[v].list \subseteq Asset
      /\ \A u \in Tab : tx[u].verified \/ "row" \in tx[u].held => tx[u].asset \in Asset
  BY DEF Files, Locks, TypeOK, ReleaseType, Assets
<1>5. \A u \in Tab : tx'[u].op = "remove" => status'[tx'[u].asset] # "none"
  BY <1>1 DEF Files, FileInv, Idle, Locks, Assets
<1>6. FileInv'
  BY <1>1, <1>2, <1>4, <1>5 DEF Files, FileInv, Idle
<1> QED
  BY <1>3, <1>6

LEMMA NextFiles == Files /\ [Next]_vars => Files'
<1> SUFFICES ASSUME Files, [Next]_vars PROVE FileInv' /\ StoredIsCounted'
  BY NextLocksInv DEF Files
<1>1. ASSUME NEW t \in Tab, Request(t) \/ Open(t) PROVE FileInv' /\ StoredIsCounted'
  BY <1>1, TxFiles DEF Request, Open, Begin, Files, Locks, TypeOK
<1>2. ASSUME NEW t \in Tab, Lock(t) PROVE FileInv' /\ StoredIsCounted'
  <2>1. /\ tx'[t].op = tx[t].op /\ tx'[t].at = tx[t].at /\ tx'[t].asset = tx[t].asset
        /\ tx'[t].verified = tx[t].verified
        /\ "row" \in tx'[t].held => "row" \in tx[t].held
        /\ \A u \in Tab : u # t => tx'[u] = tx[u]
        /\ UNCHANGED <<status, file, ticket, old, late, release>>
    BY <1>2 DEF Lock, Files, Locks, TypeOK, TxType
  <2>2. StoredIsCounted'
    BY <2>1 DEF Files, StoredIsCounted, Counted
  <2>3. FileInv'
    BY <2>1 DEF Files, FileInv, Sent
  <2> QED
    BY <2>2, <2>3
<1>3. ASSUME NEW t \in Tab, RollBack(t) \/ CommitOpen(t) PROVE FileInv' /\ StoredIsCounted'
  BY <1>3, EndFiles DEF RollBack, CommitOpen
<1>4. ASSUME NEW t \in Tab, Validate(t) PROVE FileInv' /\ StoredIsCounted'
  <2>1. tx[t] \in TxType /\ tx[t].op = "save"
    BY <1>4 DEF Validate, Ready, Files, Locks, TypeOK
  <2>2. /\ tx'[t].op = "save" /\ tx'[t].asset = tx[t].asset /\ ~ tx'[t].verified
        /\ "row" \in tx'[t].held => "row" \in tx[t].held \/ tx[t].verified
        /\ \A u \in Tab : u # t => tx'[u] = tx[u]
    BY <1>4, <2>1 DEF Validate, Files, Locks, TypeOK, TxType
  <2> QED
    BY <1>4, <2>2, TxFiles DEF Validate, Files, FileInv
<1>5. ASSUME NEW t \in Tab, CommitSave(t) PROVE FileInv' /\ StoredIsCounted'
  BY <1>5, SaveFiles
<1>6. ASSUME NEW t \in Tab, RemoveFile(t) PROVE FileInv' /\ StoredIsCounted'
  <2>1. /\ tx'[t].asset = tx[t].asset /\ tx'[t].verified = tx[t].verified
        /\ tx'[t].held = tx[t].held
        /\ \A u \in Tab : u # t => tx'[u] = tx[u]
        /\ file' = file \ {tx[t].asset} /\ UNCHANGED <<status, ticket, old, late, release>>
    BY <1>6 DEF RemoveFile, Files, Locks, TypeOK, TxType
  <2>2. StoredIsCounted'
    BY <2>1 DEF Files, StoredIsCounted, Counted
  <2>3. tx'[t].op = tx[t].op
    BY <1>6 DEF RemoveFile, Files, Locks, TypeOK, TxType
  <2>4. FileInv'
    BY <2>1, <2>3 DEF Files, FileInv, Sent
  <2> QED
    BY <2>2, <2>4
<1>7. ASSUME NEW t \in Tab, CommitRemove(t) PROVE FileInv' /\ StoredIsCounted'
  <2>1. tx[t].op = "remove" /\ tx[t].at = "commit" /\ tx[t].asset \in Asset
    BY <1>7 DEF CommitRemove, Ready, Files, Locks, Assets
  <2>2. tx[t].asset \in file => tx[t].asset \in late
    BY <2>1 DEF Files, FileInv
  <2>3. status' = [status EXCEPT ![tx[t].asset] = "DELETED"]
    BY <1>7 DEF CommitRemove
  <2>4. status[tx[t].asset] # "none"
    BY <2>1 DEF Files, FileInv
  <2> QED
    BY <1>7, <2>2, <2>3, <2>4, EndFiles DEF CommitRemove, Files, Locks, TypeOK
<1>8. ASSUME NEW t \in Tab, NEW a \in Asset, Reserve(t, a) PROVE FileInv' /\ StoredIsCounted'
  BY <1>8, ReserveFiles
<1>9. ASSUME NEW t \in Tab, NEW a \in Asset, Remove(t, a) PROVE FileInv' /\ StoredIsCounted'
  BY <1>9, TxFiles DEF Remove, Begin, Counted, Files, Locks, TypeOK
<1>10. ASSUME NEW t \in Tab, NEW a \in Asset \cup {NoAsset}, Save(t, a)
       PROVE  FileInv' /\ StoredIsCounted'
  <2>1. /\ tx'[t].op = "save" /\ tx'[t].held = {} /\ tx'[t].asset = a
        /\ (tx'[t].verified => a \in file)
        /\ \A u \in Tab : u # t => tx'[u] = tx[u]
    BY <1>10 DEF Save, Begin, Files, Locks, TypeOK
  <2> QED
    BY <1>10, <2>1, TxFiles DEF Save, Files, FileInv
<1>11. ASSUME NEW a \in Asset, Upload(a) PROVE FileInv' /\ StoredIsCounted'
  BY <1>11, UploadFiles
<1>12. ASSUME NEW w \in Worker, Find(w) PROVE FileInv' /\ StoredIsCounted'
  BY <1>12, ListedFiles DEF Find
<1>13. ASSUME NEW w \in Worker, FailRelease(w) PROVE FileInv' /\ StoredIsCounted'
  <2>1. /\ release'[w].list = {} /\ release'[w].at # "mark"
        /\ \A v \in Worker : v # w => release'[v] = release[v]
    BY <1>13 DEF FailRelease, Settled, Files, Locks, TypeOK
  <2> QED
    BY <1>13, <2>1, ReleaseFiles DEF FailRelease, Files, FileInv, Sent
<1>14. ASSUME NEW w \in Worker, NEW what \in {"pending", "detached"}, RemoveFiles(w, what)
       PROVE  FileInv' /\ StoredIsCounted'
  <2>1. /\ release'[w].list = release[w].list
        /\ \A v \in Worker : v # w => release'[v] = release[v]
    BY <1>14 DEF RemoveFiles, Files, Locks, TypeOK, ReleaseType
  <2>2. file' = file \ release[w].list
    BY <1>14 DEF RemoveFiles
  <2> QED
    BY <1>14, <2>1, <2>2, ReleaseFiles DEF RemoveFiles, Files, FileInv, Sent
<1>15. ASSUME NEW w \in Worker, NEW what \in {"pending", "detached"}, Mark(w, what)
       PROVE  FileInv' /\ StoredIsCounted'
  BY <1>15, MarkFiles
<1>16. ASSUME CleanUp PROVE FileInv' /\ StoredIsCounted'
  BY <1>16, ListedFiles DEF CleanUp, Worker
<1>17. ASSUME TimePasses PROVE FileInv' /\ StoredIsCounted'
  <2>1. \A a \in old' : status[a] # "none" /\ a \notin ticket'
    BY <1>17 DEF TimePasses, Reserved
  <2> QED
    BY <1>17, <2>1, ReleaseFiles DEF TimePasses, Files, FileInv
<1>18. ASSUME UNCHANGED vars PROVE FileInv' /\ StoredIsCounted'
  BY <1>18 DEF vars, Files, FileInv, StoredIsCounted, Counted, Sent
<1> QED
  BY Steps, <1>1, <1>2, <1>3, <1>4, <1>5, <1>6, <1>7, <1>8, <1>9, <1>10, <1>11, <1>12,
     <1>13, <1>14, <1>15, <1>16, <1>17, <1>18

\* "Quota is never released for a file still in storage": a stored file counts,
\* unless it was sent after its removal.
THEOREM StoredCounts == Spec => []StoredIsCounted
<1>1. Files => StoredIsCounted
  BY DEF Files
<1> QED
  BY InitFiles, NextFiles, <1>1, PTL DEF Spec

-----------------------------------------------------------------------------
(* The image the quiz shows                                                  *)

\* Someone has taken the file of a from storage and is about to mark its row.
Marking(a) == \E w \in Worker : release[w].at = "mark" /\ a \in release[w].list
Removing(a) == \E t \in Tab : tx[t].op = "remove" /\ tx[t].at = "commit" /\ tx[t].asset = a

\* A release and a save of the same image that met are on record: otherwise no
\* release lists what is shown or being saved...
Apart ==
  /\ \A w \in Worker : \A a \in release[w].list :
        a \in overlapped \/ (a # cover /\ a \notin Saving /\ (release[w].what = "pending" => status[a] # "READY"))
  /\ \A t \in Tab : tx[t].op # "none" => release[t].at = "idle"

\* ... and an image in use, verified or about to be attached is in storage.
Stored ==
  /\ \A a \in Asset : status[a] = "READY" /\ a \notin overlapped => a \in file \/ Marking(a) \/ Removing(a)
  /\ \A t \in Tab : tx[t].op = "save" /\ tx[t].verified /\ tx[t].asset \notin overlapped =>
        \/ tx[t].asset \in file \/ Removing(tx[t].asset) \/ status[tx[t].asset] = "DELETED"
  /\ \A t \in Tab : tx[t].op = "save" /\ tx[t].at = "commit"
                    /\ tx[t].asset \notin overlapped \cup {NoAsset} =>
        tx[t].asset \in file /\ ("row" \in tx[t].held \/ status[tx[t].asset] = "READY")
  /\ \A t \in Tab : tx[t].op = "remove" /\ tx[t].at = "commit" => tx[t].asset # cover

Covers == Files /\ Apart /\ Stored /\ CoverStored

LEMMA InitCovers == Init => Covers
  BY InitFiles DEF Init, Covers, Apart, Stored, CoverStored, Idle, Settled

LEMMA SavingParts ==
  \A a : a \in Saving <=> \E t \in Tab : tx[t].op = "save" /\ tx[t].asset = a
  BY DEF Saving

LEMMA SavingPartsPrime ==
  \A a : a \in Saving' <=> \E t \in Tab : tx'[t].op = "save" /\ tx'[t].asset = a
  BY DEF Saving

LEMMA ReleasingParts ==
  \A a : a \in Releasing <=> \E w \in Worker : a \in release[w].list
  BY DEF Releasing

\* A transaction begins, by a tab that has no other.
LEMMA BeginCovers ==
  ASSUME Covers, NEW t \in Tab, NEW op \in {"request", "open", "save", "remove"},
         NEW a, NEW verified \in BOOLEAN, Begin(t, op, a, verified),
         verified => a \in file,
         overlapped' = IF op = "save" THEN overlapped \cup ({a} \cap Releasing) ELSE overlapped,
         UNCHANGED <<status, file, cover, release>>
  PROVE  Apart' /\ Stored' /\ CoverStored'
<1>1. /\ tx[t] = Idle /\ release[t] = Settled
      /\ tx'[t].op = op /\ tx'[t].at = "start" /\ tx'[t].asset = a /\ tx'[t].verified = verified
      /\ \A u \in Tab : u # t => tx'[u] = tx[u]
  BY DEF Begin, Covers, Files, Locks, TypeOK
<1>2. overlapped \subseteq overlapped' /\ (op = "save" /\ a \in Releasing => a \in overlapped')
  OBVIOUS
<1>3. \A b : b \in Saving' => b \in Saving \/ (op = "save" /\ b = a)
  BY <1>1, SavingParts, SavingPartsPrime
<1>4. \A b : Removing(b) => Removing(b)'
  BY <1>1 DEF Removing, Idle
<1>5. \A b : Marking(b) => Marking(b)'
  BY DEF Marking
<1>6. Apart'
  BY <1>1, <1>2, <1>3, ReleasingParts DEF Covers, Apart, Settled
<1>7. Stored'
  BY <1>1, <1>2, <1>4, <1>5 DEF Covers, Stored
<1>8. CoverStored'
  BY <1>2 DEF Covers, CoverStored
<1> QED
  BY <1>6, <1>7, <1>8

LEMMA LockCovers ==
  ASSUME Covers, NEW t \in Tab, Lock(t)
  PROVE  Apart' /\ Stored' /\ CoverStored'
<1>1. /\ tx'[t].op = tx[t].op /\ tx'[t].at = tx[t].at /\ tx'[t].asset = tx[t].asset
      /\ tx'[t].verified = tx[t].verified /\ tx[t].held \subseteq tx'[t].held
      /\ \A u \in Tab : u # t => tx'[u] = tx[u]
      /\ UNCHANGED <<status, file, cover, release, overlapped>>
  BY DEF Lock, Covers, Files, Locks, TypeOK, TxType
<1>2. \A b : b \in Saving' => b \in Saving
  BY <1>1, SavingParts, SavingPartsPrime
<1>3. \A b : Removing(b) => Removing(b)'
  BY <1>1 DEF Removing
<1>4. \A b : Marking(b) => Marking(b)'
  BY <1>1 DEF Marking
<1>5. Apart'
  BY <1>1, <1>2 DEF Covers, Apart
<1>6. Stored'
  BY <1>1, <1>3, <1>4 DEF Covers, Stored
<1>7. CoverStored'
  BY <1>1 DEF Covers, CoverStored
<1> QED
  BY <1>5, <1>6, <1>7

\* A transaction ends and leaves the rows in use, files and cover as they are.
LEMMA EndCovers ==
  ASSUME Covers, NEW t \in Tab, tx' = [tx EXCEPT ![t] = Idle],
         UNCHANGED <<file, cover, release>>, overlapped \subseteq overlapped',
         tx[t].op = "remove" /\ tx[t].at = "commit" =>
            tx[t].asset \in overlapped' \/ status'[tx[t].asset] = "DELETED",
         \A a \in Asset : \/ status'[a] = status[a]
                          \/ status'[a] = "DELETED" /\ a # cover
                             /\ \A u \in Tab : u # t => ~ (tx[u].op = "save" /\ tx[u].at = "commit")
                          \/ status[a] = "none" /\ status'[a] = "PENDING"
  PROVE  Apart' /\ Stored' /\ CoverStored'
<1>1. tx'[t] = Idle /\ \A u \in Tab : u # t => tx'[u] = tx[u]
  BY DEF Covers, Files, Locks, TypeOK
<1>2. \A b : b \in Saving' => b \in Saving
  BY <1>1, SavingParts, SavingPartsPrime DEF Idle
<1>3. \A b : Removing(b) => Removing(b)' \/ b \in overlapped' \/ status'[b] = "DELETED"
  BY <1>1 DEF Removing
<1>4. \A b : Marking(b) => Marking(b)'
  BY DEF Marking
<1>5. \A u \in Tab : tx[u].asset \in Asset \cup {NoAsset}
  BY DEF Covers, Files, Locks, TypeOK, TxType
<1>6. Apart'
  <2>1. \A w \in Worker : release[w].list \subseteq Asset
    BY DEF Covers, Files, Locks, TypeOK, ReleaseType
  <2> QED
    BY <1>1, <1>2, <2>1 DEF Covers, Apart, Idle
<1>7. CoverStored'
  BY DEF Covers, CoverStored, Files, Locks, TypeOK
<1>8. ASSUME NEW a \in Asset, status'[a] = "READY", a \notin overlapped'
      PROVE  a \in file \/ Marking(a)' \/ Removing(a)'
  BY <1>3, <1>4, <1>8 DEF Covers, Stored
<1>9. ASSUME NEW u \in Tab, tx'[u].op = "save", tx'[u].verified, tx'[u].asset \notin overlapped'
      PROVE  \/ tx'[u].asset \in file \/ Removing(tx[u].asset)' \/ status'[tx'[u].asset] = "DELETED"
  <2>1. u # t /\ tx'[u] = tx[u] /\ tx[u].asset \in Asset
    BY <1>1, <1>9 DEF Idle, Covers, Files, Locks, Assets
  <2>2. \/ tx[u].asset \in file \/ Removing(tx[u].asset) \/ status[tx[u].asset] = "DELETED"
    BY <1>9, <2>1 DEF Covers, Stored
  <2> QED
    BY <1>3, <1>9, <2>1, <2>2
<1>10. ASSUME NEW u \in Tab, tx'[u].op = "save", tx'[u].at = "commit",
              tx'[u].asset \notin overlapped' \cup {NoAsset}
       PROVE  tx'[u].asset \in file /\ ("row" \in tx'[u].held \/ status'[tx'[u].asset] = "READY")
  <2>1. u # t /\ tx'[u] = tx[u] /\ tx[u].asset \in Asset
    BY <1>1, <1>5, <1>10 DEF Idle
  <2>2. tx[u].asset \in file /\ ("row" \in tx[u].held \/ status[tx[u].asset] = "READY")
    BY <1>10, <2>1 DEF Covers, Stored
  <2> QED
    BY <1>10, <2>1, <2>2
<1>11. \A u \in Tab : tx'[u].op = "remove" /\ tx'[u].at = "commit" => tx'[u].asset # cover
  BY <1>1 DEF Covers, Stored, Idle
<1>12. Stored'
  BY <1>8, <1>9, <1>10, <1>11 DEF Stored
<1> QED
  BY <1>6, <1>7, <1>12

LEMMA ValidateCovers ==
  ASSUME Covers, NEW t \in Tab, Validate(t)
  PROVE  Apart' /\ Stored' /\ CoverStored'
<1> DEFINE a == tx[t].asset
<1>1. /\ tx[t] \in TxType /\ tx[t].op = "save" /\ tx[t].at = "start" /\ tx[t].wants = "none"
      /\ UNCHANGED <<status, file, cover, release, overlapped>>
      /\ a # NoAsset => status[a] = "READY" \/ (tx[t].verified /\ status[a] = "PENDING")
  BY DEF Validate, Ready, Covers, Files, Locks, TypeOK
<1>2. /\ tx'[t].op = "save" /\ tx'[t].at = "commit" /\ tx'[t].asset = a /\ ~ tx'[t].verified
      /\ a # NoAsset /\ status[a] = "PENDING" => "row" \in tx'[t].held
      /\ \A u \in Tab : u # t => tx'[u] = tx[u]
  BY <1>1 DEF Validate, Covers, Files, Locks, TypeOK, TxType
<1>3. \A u \in Tab : ~ (tx[u].op = "remove" /\ tx[u].at = "commit")
  BY <1>1 DEF Covers, Files, Locks, LockInv, Ordered
<1>4. a \in Saving
  BY <1>1, SavingParts
<1>5. a # NoAsset /\ a \notin overlapped => a \in file
  <2>1. SUFFICES ASSUME a # NoAsset, a \notin overlapped PROVE a \in file
    OBVIOUS
  <2>2. a \in Asset
    BY <1>1, <2>1 DEF TxType
  <2>3. ~ Removing(a) /\ ~ Marking(a)
    BY <1>3, <1>4, <2>1 DEF Removing, Marking, Covers, Apart
  <2>4. CASE status[a] = "READY"
    BY <2>1, <2>2, <2>3, <2>4 DEF Covers, Stored
  <2>5. CASE tx[t].verified /\ status[a] = "PENDING"
    BY <1>1, <2>1, <2>3, <2>5 DEF Covers, Stored
  <2> QED
    BY <1>1, <2>1, <2>4, <2>5
<1>6. \A b : b \in Saving' => b \in Saving
  BY <1>1, <1>2, SavingParts, SavingPartsPrime
<1>7. \A b : Marking(b) => Marking(b)'
  BY <1>1 DEF Marking
<1>8. \A b : ~ Removing(b)
  BY <1>3 DEF Removing
<1>9. Apart'
  BY <1>1, <1>2, <1>6 DEF Covers, Apart
<1> HIDE DEF a
<1>10. Stored'
  BY <1>1, <1>2, <1>5, <1>7, <1>8 DEF Covers, Stored, a
<1>11. CoverStored'
  BY <1>1 DEF Covers, CoverStored
<1> QED
  BY <1>9, <1>10, <1>11

LEMMA SaveCovers ==
  ASSUME Covers, NEW t \in Tab, CommitSave(t)
  PROVE  Apart' /\ Stored' /\ CoverStored'
<1> DEFINE a == tx[t].asset
<1>1. /\ tx[t] \in TxType /\ tx[t].op = "save" /\ tx[t].at = "commit" /\ "quiz" \in tx[t].held
      /\ UNCHANGED <<file, overlapped>> /\ cover' = a
      /\ tx'[t] = Idle /\ \A u \in Tab : u # t => tx'[u] = tx[u]
  BY DEF CommitSave, Ready, Covers, Files, Locks, TypeOK, LockInv, Ordered
<1>2. \A u \in Tab : u # t => tx[u].at # "commit"
  BY <1>1 DEF Covers, Files, Locks, LockInv, Ordered
<1>3. a # NoAsset => a \in Asset
  BY <1>1 DEF TxType
<1>4. /\ \A b \in Asset : b # a => status'[b] = status[b]
      /\ a \in Asset => status'[a] = IF "row" \in tx[t].held THEN "READY" ELSE status[a]
  BY DEF CommitSave, Covers, Files, Locks, TypeOK
<1>5. "row" \in tx[t].held => a \in Asset /\ status[a] = "PENDING"
  BY DEF Covers, Files, Locks, LockInv, Assets
<1>6. a \notin overlapped \cup {NoAsset} => a \in file /\ status'[a] = "READY"
  BY <1>1, <1>3, <1>4 DEF Covers, Stored
<1>7. \A w \in Worker : /\ release'[w].list = release[w].list
                        /\ release'[w].what = release[w].what
                        /\ w # t => release'[w] = release[w]
  BY DEF CommitSave, Covers, Files, Locks, TypeOK, ReleaseType, Worker
<1>8. \A w \in Worker : \A b \in release[w].list : b \in overlapped \/ b # a
  BY <1>1, SavingParts DEF Covers, Apart
<1>9. \A b : b \in Saving' => b \in Saving
  BY <1>1, SavingParts, SavingPartsPrime DEF Idle
<1>10. \A b : Marking(b) => Marking(b)'
  BY <1>1, <1>7 DEF Marking, Covers, Apart
<1>11. \A u \in Tab : ~ (tx'[u].op = "remove" /\ tx'[u].at = "commit") /\ (tx'[u].at # "commit")
  BY <1>1, <1>2 DEF Idle
<1>12. \A b : ~ Removing(b)
  BY <1>1, <1>2 DEF Removing
<1>13. Apart'
  <2>1. \A w \in Worker : release[w].list \subseteq Asset
    BY DEF Covers, Files, Locks, TypeOK, ReleaseType
  <2>2. \A w \in Worker : \A b \in release'[w].list :
           b \in overlapped \/ (b # a /\ b \notin Saving' /\ (release'[w].what = "pending" => status'[b] # "READY"))
    BY <1>4, <1>7, <1>8, <1>9, <2>1 DEF Covers, Apart
  <2>3. \A u \in Tab : tx'[u].op # "none" => release'[u].at = "idle"
    BY <1>1, <1>7 DEF Covers, Apart, Idle, Worker
  <2> QED
    BY <1>1, <2>2, <2>3 DEF Apart
<1>14. Stored'
  <2>1. ASSUME NEW b \in Asset, status'[b] = "READY", b \notin overlapped
        PROVE  b \in file \/ Marking(b)'
    BY <1>4, <1>6, <1>10, <1>12, <2>1, MediaAssumption DEF Covers, Stored
  <2>2. ASSUME NEW u \in Tab, tx'[u].op = "save", tx'[u].verified, tx'[u].asset \notin overlapped
        PROVE  tx'[u].asset \in file \/ status'[tx'[u].asset] = "DELETED"
    <3>1. u # t /\ tx'[u] = tx[u] /\ tx[u].asset \in Asset
      BY <1>1, <2>2 DEF Idle, Covers, Files, Locks, Assets
    <3>2. tx[u].asset \in file \/ status[tx[u].asset] = "DELETED"
      BY <1>12, <2>2, <3>1 DEF Covers, Stored
    <3>3. CASE tx[u].asset = a
      BY <1>4, <1>5, <3>1, <3>2, <3>3
    <3>4. CASE tx[u].asset # a
      BY <1>4, <3>1, <3>2, <3>4
    <3> QED
      BY <3>3, <3>4
  <2> QED
    BY <1>1, <1>11, <2>1, <2>2 DEF Stored
<1>15. CoverStored'
  BY <1>1, <1>6 DEF CoverStored
<1> QED
  BY <1>13, <1>14, <1>15

LEMMA RemoveFileCovers ==
  ASSUME Covers, NEW t \in Tab, RemoveFile(t)
  PROVE  Apart' /\ Stored' /\ CoverStored'
<1> DEFINE a == tx[t].asset
<1>1. /\ tx[t] \in TxType /\ tx[t].op = "remove" /\ tx[t].at = "start" /\ tx[t].wants = "none"
      /\ cover # a /\ file' = file \ {a}
      /\ UNCHANGED <<status, cover, release, overlapped>>
  BY DEF RemoveFile, Ready, Covers, Files, Locks, TypeOK
<1>2. /\ tx'[t].op = "remove" /\ tx'[t].at = "commit" /\ tx'[t].asset = a
      /\ \A u \in Tab : u # t => tx'[u] = tx[u]
  BY <1>1 DEF RemoveFile, Covers, Files, Locks, TypeOK, TxType
<1>3. \A u \in Tab : ~ (tx[u].op = "save" /\ tx[u].at = "commit")
  BY <1>1 DEF Covers, Files, Locks, LockInv, Ordered
<1>4. \A b : b \in Saving' => b \in Saving
  BY <1>1, <1>2, SavingParts, SavingPartsPrime
<1>5. \A b : Marking(b) => Marking(b)'
  BY <1>1 DEF Marking
<1>6. \A b : b = a \/ Removing(b) => Removing(b)'
  BY <1>1, <1>2 DEF Removing
<1>7. Apart'
  BY <1>1, <1>2, <1>4 DEF Covers, Apart
<1>8. CoverStored'
  BY <1>1 DEF Covers, CoverStored
<1> HIDE DEF a
<1>9. ASSUME NEW u \in Tab, tx'[u].op = "save", tx'[u].verified, tx'[u].asset \notin overlapped
      PROVE  \/ tx'[u].asset \in file' \/ Removing(tx[u].asset)' \/ status[tx'[u].asset] = "DELETED"
  <2>1. tx'[u] = tx[u]
    BY <1>2, <1>9
  <2>2. \/ tx[u].asset \in file \/ Removing(tx[u].asset) \/ status[tx[u].asset] = "DELETED"
    BY <1>9, <2>1 DEF Covers, Stored
  <2>3. Removing(tx[u].asset) => Removing(tx[u].asset)'
    BY <1>2, <2>1, <1>1 DEF Removing
  <2>4. tx[u].asset = a => Removing(tx[u].asset)'
    BY <1>2, <2>1 DEF Removing
  <2> QED
    BY <1>1, <2>1, <2>2, <2>3, <2>4
<1>10. ASSUME NEW b \in Asset, status[b] = "READY", b \notin overlapped
       PROVE  b \in file' \/ Marking(b)' \/ Removing(b)'
  <2>1. b \in file \/ Marking(b) \/ Removing(b)
    BY <1>10 DEF Covers, Stored
  <2> QED
    BY <1>1, <1>5, <1>6, <2>1
<1>11. \A u \in Tab : tx'[u].op = "remove" /\ tx'[u].at = "commit" => tx'[u].asset # cover
  BY <1>1, <1>2 DEF Covers, Stored, a
<1>12. \A u \in Tab : ~ (tx'[u].op = "save" /\ tx'[u].at = "commit")
  BY <1>2, <1>3
<1>13. Stored'
  BY <1>1, <1>9, <1>10, <1>11, <1>12 DEF Stored
<1> QED
  BY <1>7, <1>8, <1>13

LEMMA UploadCovers ==
  ASSUME Covers, NEW a \in Asset, Upload(a)
  PROVE  Apart' /\ Stored' /\ CoverStored'
<1>1. file \subseteq file' /\ UNCHANGED <<status, cover, tx, release, overlapped>>
  BY DEF Upload
<1>2. \A b : (Marking(b) => Marking(b)') /\ (Removing(b) => Removing(b)') /\ (b \in Saving' <=> b \in Saving)
  BY <1>1 DEF Marking, Removing, Saving
<1>3. Apart'
  BY <1>1, <1>2 DEF Covers, Apart
<1>4. Stored'
  BY <1>1, <1>2 DEF Covers, Stored
<1>5. CoverStored'
  BY <1>1 DEF Covers, CoverStored
<1> QED
  BY <1>3, <1>4, <1>5

\* A step of the release of w: it lists nothing in use, takes only listed files
\* out of storage, marks only listed rows, and leaves none it took unmarked.
LEMMA ReleaseCovers ==
  ASSUME Covers, NEW w \in Worker, w \in Tab => tx[w].op = "none" \/ release'[w].at = "idle",
         UNCHANGED <<cover, tx>>, overlapped \subseteq overlapped',
         \A v \in Worker : v # w => release'[v] = release[v],
         \A b \in release'[w].list :
            \/ b \in overlapped'
            \/ b # cover /\ b \notin Saving /\ (release'[w].what = "pending" => status'[b] # "READY"),
         \A b \in file : b \in file' \/ (b \in release[w].list /\ b \in release'[w].list
                                         /\ release'[w].at = "mark"),
         release[w].at = "mark" =>
            \A b \in release[w].list : b \in overlapped' \/ status'[b] # "READY",
         \A b \in Asset : status'[b] = status[b] \/ (status'[b] = "DELETED" /\ b \in release[w].list)
  PROVE  Apart' /\ Stored' /\ CoverStored'
<1>1. \A b : (Removing(b) => Removing(b)') /\ (b \in Saving' <=> b \in Saving)
  BY DEF Removing, Saving
<1>2. \A b : Marking(b) => Marking(b)' \/ b \in overlapped' \/ status'[b] # "READY"
  BY DEF Marking
<1>3. \A v \in Worker : release[v].list \subseteq Asset
  BY DEF Covers, Files, Locks, TypeOK, ReleaseType
<1>4. \A b \in release[w].list : b \in overlapped' \/ (b # cover /\ b \notin Saving)
  BY DEF Covers, Apart
<1>5. Apart'
  <2>1. ASSUME NEW v \in Worker, NEW b \in release'[v].list, b \notin overlapped'
        PROVE  b # cover /\ b \notin Saving /\ (release'[v].what = "pending" => status'[b] # "READY")
    BY <1>3, <2>1 DEF Covers, Apart
  <2>2. \A t \in Tab : tx'[t].op # "none" => release'[t].at = "idle"
    BY DEF Covers, Apart, Worker
  <2> QED
    BY <1>1, <2>1, <2>2 DEF Apart
<1>6. Stored'
  <2>1. ASSUME NEW b \in Asset, status'[b] = "READY", b \notin overlapped'
        PROVE  b \in file' \/ Marking(b)' \/ Removing(b)'
    <3>1. b \in file \/ Marking(b) \/ Removing(b)
      BY <2>1 DEF Covers, Stored
    <3>2. b \in file => b \in file' \/ Marking(b)'
      BY DEF Marking
    <3> QED
      BY <1>1, <1>2, <2>1, <3>1, <3>2
  <2>2. ASSUME NEW t \in Tab, tx'[t].op = "save", tx'[t].asset \notin overlapped'
        PROVE  /\ tx[t].asset \notin release[w].list
               /\ tx[t].asset \in file => tx[t].asset \in file'
               /\ tx[t].asset \in Asset => status'[tx[t].asset] = status[tx[t].asset]
    BY <1>4, <2>2, SavingParts
  <2>3. \A t \in Tab : tx[t].asset \in Asset \cup {NoAsset}
    BY DEF Covers, Files, Locks, TypeOK, TxType
  <2>4. ASSUME NEW t \in Tab, tx'[t].op = "save", tx'[t].verified, tx'[t].asset \notin overlapped'
        PROVE  \/ tx'[t].asset \in file' \/ Removing(tx[t].asset)' \/ status'[tx'[t].asset] = "DELETED"
    <3>1. tx[t].asset \in Asset
      BY <2>4 DEF Covers, Files, Locks, Assets
    <3>2. \/ tx[t].asset \in file \/ Removing(tx[t].asset) \/ status[tx[t].asset] = "DELETED"
      BY <2>4 DEF Covers, Stored
    <3> QED
      BY <1>1, <2>2, <2>4, <3>1, <3>2
  <2>5. ASSUME NEW t \in Tab, tx'[t].op = "save", tx'[t].at = "commit",
               tx'[t].asset \notin overlapped' \cup {NoAsset}
        PROVE  tx'[t].asset \in file' /\ ("row" \in tx'[t].held \/ status'[tx'[t].asset] = "READY")
    <3>1. tx[t].asset \in file /\ ("row" \in tx[t].held \/ status[tx[t].asset] = "READY")
      BY <2>5 DEF Covers, Stored
    <3> QED
      BY <2>2, <2>3, <2>5, <3>1
  <2>6. \A t \in Tab : tx'[t].op = "remove" /\ tx'[t].at = "commit" => tx'[t].asset # cover
    BY DEF Covers, Stored
  <2> QED
    BY <2>1, <2>4, <2>5, <2>6 DEF Stored
<1>7. CoverStored'
  <2>1. cover \in Asset \cup {NoAsset}
    BY DEF Covers, Files, Locks, TypeOK
  <2>2. cover \notin overlapped' => cover \notin release[w].list
    BY <1>4
  <2> QED
    BY <2>1, <2>2 DEF Covers, CoverStored
<1> QED
  BY <1>5, <1>6, <1>7

LEMMA ListedCovers ==
  ASSUME Covers, NEW w \in Worker, NEW what \in {"pending", "detached"}, Listed(w, what),
         release[w].at \in {"idle", "find"}, w \in Tab => tx[w].op = "none"
  PROVE  Apart' /\ Stored' /\ CoverStored'
<1>1. /\ UNCHANGED <<status, file, cover, tx>>
      /\ overlapped' = overlapped \cup (Matching(what) \cap Saving)
      /\ \A v \in Worker : v # w => release'[v] = release[v]
  BY DEF Listed, Covers, Files, Locks, TypeOK
<1>2. release'[w].list = {} \/ (release'[w].list = Matching(what) /\ release'[w].what = what)
  BY DEF Listed, AfterRelease, Settled, Covers, Files, Locks, TypeOK
<1>3. \A b \in Matching(what) : b # cover \/ b \in overlapped
  BY MediaAssumption DEF Matching, Covers, CoverStored
<1>4. what = "pending" => \A b \in Matching(what) : status[b] # "READY"
  BY DEF Matching
<1>5. \A b \in release'[w].list :
         \/ b \in overlapped'
         \/ b # cover /\ b \notin Saving /\ (release'[w].what = "pending" => status'[b] # "READY")
  BY <1>1, <1>2, <1>3, <1>4
<1> QED
  BY <1>1, <1>5, ReleaseCovers

LEMMA FailCovers ==
  ASSUME Covers, NEW w \in Worker, FailRelease(w)
  PROVE  Apart' /\ Stored' /\ CoverStored'
<1>1. /\ UNCHANGED <<status, file, cover, tx>> /\ overlapped \subseteq overlapped'
      /\ release'[w] = Settled /\ \A v \in Worker : v # w => release'[v] = release[v]
      /\ release[w].at = "mark" => release[w].list \subseteq overlapped'
  BY DEF FailRelease, Covers, Files, Locks, TypeOK
<1> QED
  BY <1>1, ReleaseCovers DEF Settled

LEMMA RemoveFilesCovers ==
  ASSUME Covers, NEW w \in Worker, NEW what \in {"pending", "detached"}, RemoveFiles(w, what)
  PROVE  Apart' /\ Stored' /\ CoverStored'
<1>1. /\ UNCHANGED <<status, cover, tx, overlapped>> /\ file' = file \ release[w].list
      /\ \A v \in Worker : v # w => release'[v] = release[v]
      /\ release[w].at = "storage" /\ release'[w].at = "mark"
      /\ release'[w].list = release[w].list /\ release'[w].what = release[w].what
  BY DEF RemoveFiles, Covers, Files, Locks, TypeOK, ReleaseType
<1>2. w \in Tab => tx[w].op = "none"
  BY <1>1 DEF Covers, Apart
<1>3. \A b \in release'[w].list :
         \/ b \in overlapped'
         \/ b # cover /\ b \notin Saving /\ (release'[w].what = "pending" => status'[b] # "READY")
  BY <1>1 DEF Covers, Apart
<1> QED
  BY <1>1, <1>2, <1>3, ReleaseCovers

\* A listed row that no longer matches is on record: it is in use again.
LEMMA MarkCovers ==
  ASSUME Covers, NEW w \in Worker, NEW what \in {"pending", "detached"}, Mark(w, what)
  PROVE  Apart' /\ Stored' /\ CoverStored'
<1>1. /\ UNCHANGED <<file, cover, tx, overlapped>>
      /\ \A v \in Worker : v # w => release'[v] = release[v]
      /\ release'[w] = AfterRelease(w, what)
      /\ release[w].at = "mark" /\ release[w].what = what
  BY DEF Mark, Covers, Files, Locks, TypeOK
<1>2. release'[w].list = {} /\ (w \in Tab => tx[w].op = "none")
  BY <1>1 DEF AfterRelease, Settled, Covers, Apart
<1>3. \A b \in Asset :
         status'[b] = IF b \in release[w].list \cap Matching(what) THEN "DELETED" ELSE status[b]
  BY DEF Mark
<1>4. \A b \in release[w].list : b \in overlapped' \/ status'[b] # "READY"
  <2>1. SUFFICES ASSUME NEW b \in release[w].list, b \notin overlapped, status'[b] = "READY" PROVE FALSE
    BY <1>1
  <2>2. b \in Asset
    BY DEF Covers, Files, Locks, TypeOK, ReleaseType
  <2>3. b \notin Matching(what) /\ status[b] = "READY"
    BY <1>3, <2>1, <2>2
  <2>4. b # cover /\ (what = "pending" => status[b] # "READY")
    BY <1>1, <2>1 DEF Covers, Apart
  <2> QED
    BY <2>2, <2>3, <2>4 DEF Matching
<1>5. \A b \in Asset : status'[b] = status[b] \/ (status'[b] = "DELETED" /\ b \in release[w].list)
  BY <1>3
<1> QED
  BY <1>1, <1>2, <1>4, <1>5, ReleaseCovers

LEMMA StillCovers ==
  ASSUME Covers, UNCHANGED <<status, file, cover, tx, release, overlapped>>
  PROVE  Apart' /\ Stored' /\ CoverStored'
<1>1. \A b : (Marking(b) <=> Marking(b)') /\ (Removing(b) <=> Removing(b)') /\ (b \in Saving' <=> b \in Saving)
  BY DEF Marking, Removing, Saving
<1>2. Apart'
  BY <1>1 DEF Covers, Apart
<1>3. Stored'
  BY <1>1 DEF Covers, Stored
<1>4. CoverStored'
  BY DEF Covers, CoverStored
<1> QED
  BY <1>2, <1>3, <1>4

LEMMA NextCovers == Covers /\ [Next]_vars => Covers'
<1> SUFFICES ASSUME Covers, [Next]_vars PROVE Apart' /\ Stored' /\ CoverStored'
  BY NextFiles DEF Covers
<1> DEFINE Kept == Apart' /\ Stored' /\ CoverStored'
<1>1. ASSUME NEW t \in Tab, Request(t) \/ Open(t) PROVE Kept
  <2>1. CASE Request(t)
    BY <2>1, BeginCovers DEF Request
  <2>2. CASE Open(t)
    BY <2>2, BeginCovers DEF Open
  <2> QED
    BY <1>1, <2>1, <2>2
<1>2. ASSUME NEW t \in Tab, RollBack(t) \/ CommitOpen(t) PROVE Kept
  <2>1. tx' = [tx EXCEPT ![t] = Idle] /\ UNCHANGED <<status, file, cover, release>>
    BY <1>2 DEF RollBack, CommitOpen
  <2>2. /\ overlapped \subseteq overlapped'
        /\ tx[t].op = "remove" /\ tx[t].at = "commit" => tx[t].asset \in overlapped'
    BY <1>2 DEF RollBack, CommitOpen, Ready
  <2> QED
    BY <2>1, <2>2, EndCovers
<1>3. ASSUME NEW t \in Tab, CommitRemove(t) PROVE Kept
  <2>1. /\ tx[t].op = "remove" /\ tx[t].at = "commit" /\ tx[t].asset # cover /\ tx[t].asset \in Asset
        /\ tx' = [tx EXCEPT ![t] = Idle] /\ UNCHANGED <<file, cover, release, overlapped>>
        /\ status' = [status EXCEPT ![tx[t].asset] = "DELETED"]
    BY <1>3 DEF CommitRemove, Ready, Covers, Stored, Files, Locks, Assets
  <2>2. \A u \in Tab : u # t => ~ (tx[u].op = "save" /\ tx[u].at = "commit")
    BY <2>1 DEF Covers, Files, Locks, LockInv, Ordered
  <2>3. /\ status'[tx[t].asset] = "DELETED"
        /\ \A a \in Asset : status'[a] = status[a] \/ (status'[a] = "DELETED" /\ a # cover)
    BY <2>1 DEF Covers, Files, Locks, TypeOK
  <2> QED
    BY <2>1, <2>2, <2>3, EndCovers
<1>4. ASSUME NEW t \in Tab, NEW a \in Asset, Reserve(t, a) PROVE Kept
  <2>1. /\ tx[t].op = "request" /\ tx' = [tx EXCEPT ![t] = Idle]
        /\ UNCHANGED <<file, cover, release, overlapped>>
    BY <1>4 DEF Reserve, Ready
  <2>2. \A b \in Asset : status'[b] = status[b] \/ (status[b] = "none" /\ status'[b] = "PENDING")
    BY <1>4 DEF Reserve, Covers, Files, Locks, TypeOK
  <2> QED
    BY <2>1, <2>2, EndCovers
<1>5. ASSUME NEW t \in Tab, NEW a \in Asset, Remove(t, a) PROVE Kept
  BY <1>5, BeginCovers DEF Remove
<1>6. ASSUME NEW t \in Tab, NEW a \in Asset \cup {NoAsset}, Save(t, a) PROVE Kept
  <2> DEFINE pending == a # NoAsset /\ status[a] = "PENDING"
  <2>1. /\ pending \in BOOLEAN /\ (pending => a \in file) /\ Begin(t, "save", a, pending)
        /\ overlapped' = overlapped \cup ({a} \cap Releasing)
        /\ UNCHANGED <<status, file, cover, release>>
    BY <1>6 DEF Save
  <2> HIDE DEF pending
  <2> QED
    BY <2>1, BeginCovers
<1>7. ASSUME NEW t \in Tab,
             Lock(t) \/ Validate(t) \/ CommitSave(t) \/ RemoveFile(t) PROVE Kept
  BY <1>7, LockCovers, ValidateCovers, SaveCovers, RemoveFileCovers
<1>8. ASSUME NEW a \in Asset, Upload(a) PROVE Kept
  BY <1>8, UploadCovers
<1>9. ASSUME NEW w \in Worker, Find(w) PROVE Kept
  <2>1. w \in Tab => tx[w].op = "none"
    BY <1>9 DEF Find, Covers, Apart
  <2> QED
    BY <1>9, <2>1, ListedCovers DEF Find
<1>10. ASSUME CleanUp PROVE Kept
  BY <1>10, ListedCovers, MediaAssumption DEF CleanUp, Settled, Worker
<1>11. ASSUME NEW w \in Worker, FailRelease(w) PROVE Kept
  BY <1>11, FailCovers
<1>12. ASSUME NEW w \in Worker, NEW what \in {"pending", "detached"},
              RemoveFiles(w, what) \/ Mark(w, what) PROVE Kept
  BY <1>12, RemoveFilesCovers, MarkCovers
<1>13. ASSUME TimePasses \/ UNCHANGED vars PROVE Kept
  BY <1>13, StillCovers DEF TimePasses, vars
<1> HIDE DEF Kept
<1>14. Kept
  BY Steps, <1>1, <1>2, <1>3, <1>4, <1>5, <1>6, <1>7, <1>8, <1>9, <1>10, <1>11, <1>12, <1>13
<1> QED
  BY <1>14 DEF Kept

\* The image a quiz shows is READY and in storage, unless its release ran beside
\* the save that attached it or was cut off half way.
THEOREM CoverIsStored == Spec => []CoverStored
<1>1. Covers => CoverStored
  BY DEF Covers
<1> QED
  BY InitCovers, NextCovers, <1>1, PTL DEF Spec

=============================================================================
