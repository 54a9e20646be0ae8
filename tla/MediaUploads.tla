---------------------------- MODULE MediaUploads ----------------------------
(***************************************************************************)
(* Images of one quiz: upload tickets, the check of an upload when a save   *)
(* attaches it, the release of images no save uses any more, the hourly     *)
(* clean-up, the account's storage and upload allowances, and the row locks *)
(* under which all of that runs.                                            *)
(*                                                                           *)
(* Storage is not transactional, so a file and its row change in different   *)
(* steps, and every release is three: find the rows, remove the files, mark  *)
(* the rows that still match. A transaction is its lock requests, its reads  *)
(* under the locks and its commit. The quiz has one place for an image: its  *)
(* cover; a question's image is saved and released by the same code.         *)
(***************************************************************************)
EXTENDS Integers, FiniteSets

CONSTANTS
    Tab,           \* the host's tabs, each with one request at a time
    Cleaner,       \* the hourly maintenance
    Asset,         \* ids an image can have, all of the same size
    NoAsset,       \* no image
    Quota,         \* bound: ACCOUNT_LIMITS.mediaBytes, in images
    UploadsPerDay  \* ACCOUNT_LIMITS.uploadsPerDay

ASSUME MediaAssumption ==
    /\ Cleaner \notin Tab /\ NoAsset \notin Asset
    /\ IsFiniteSet(Asset)
    /\ Quota \in Nat \ {0} /\ UploadsPerDay \in Nat \ {0}

VARIABLES
    status,     \* [Asset -> status of the row, "none" before there is one]
    file,       \* assets whose file is in storage
    ticket,     \* assets whose upload ticket is unused
    old,        \* pending for more than PENDING_UPLOAD_TTL_MS
    cover,      \* the quiz's coverMediaId
    uploads,    \* number of MEDIA_UPLOADED usage events of the last 24 hours
    tx,         \* [Tab -> its transaction]
    release,    \* [Worker -> the release it is in]
    overlapped, \* history: assets with a release that ran beside a save of
                \* theirs, or was cut off before their row was marked
    late        \* history: assets whose file arrived after its removal

vars == <<status, file, ticket, old, cover, uploads, tx, release,
          overlapped, late>>

Worker == Tab \cup {Cleaner}
Idle == [op |-> "none", wants |-> "none", held |-> {}, at |-> "start",
         asset |-> NoAsset, verified |-> FALSE]
Settled == [at |-> "idle", what |-> "detached", list |-> {}]

\* Stored images that still count, reservations included.
Counted == {a \in Asset : status[a] \in {"PENDING", "READY"}}
Reserved == {a \in Asset : status[a] = "PENDING"}

\* Assets a save has looked at and not yet attached; assets some release lists.
Saving == {tx[t].asset : t \in {u \in Tab : tx[u].op = "save"}}
Releasing == UNION {release[w].list : w \in Worker}

-----------------------------------------------------------------------------
(* Row locks. "account" and "quiz" are FOR UPDATE; "share" is the key-share  *)
(* lock on the account that inserting a usage event takes; "row" is the      *)
(* asset's own row, updated and not yet committed.                           *)

\* A mutation of NextLock: an upload request locks the quiz first.
NextLockQuizFirst(op, lock) ==
    CASE lock = "none"    -> IF op = "open" THEN "account" ELSE "quiz"
      [] lock = "quiz"    -> IF op = "request" THEN "account" ELSE "none"
      [] lock = "account" -> IF op = "open" THEN "quiz" ELSE "none"
      [] OTHER            -> "none"

(* Account before quiz; saves and removals lock the quiz only.               *)
NextLock(op, lock) ==
    CASE lock = "none"    -> IF op \in {"request", "open"} THEN "account" ELSE "quiz"
      [] lock = "account" -> "quiz"
      [] OTHER            -> "none"

Conflicts(lock) ==
    CASE lock = "account" -> {"account", "share"}
      [] lock = "share"   -> {"account"}
      [] lock = "quiz"    -> {"quiz"}

\* t waits for a lock that u holds.
WaitsFor(t, u) ==
    /\ t # u /\ tx[t].wants # "none"
    /\ tx[u].held \cap Conflicts(tx[t].wants) # {}

Begin(t, op, asset, verified) ==
    /\ tx[t] = Idle /\ release[t] = Settled
    /\ tx' = [tx EXCEPT ![t] = [op |-> op, wants |-> NextLock(op, "none"), held |-> {},
                                at |-> "start", asset |-> asset, verified |-> verified]]

Lock(t) ==
    /\ tx[t].wants # "none"
    /\ ~ \E u \in Tab : WaitsFor(t, u)
    /\ tx' = [tx EXCEPT ![t].held = @ \cup {tx[t].wants},
                        ![t].wants = NextLock(tx[t].op, @)]
    /\ UNCHANGED <<status, file, ticket, old, cover, uploads, release, overlapped, late>>

\* The transaction of t has its locks and is at this step.
Ready(t, op, at) == tx[t].op = op /\ tx[t].at = at /\ tx[t].wants = "none"

(* A refusal, an error, the 15 seconds of lockedTransaction, or the victim   *)
(* the database picks to end a deadlock: nothing of it is committed. A file  *)
(* that was removed from storage stays removed.                              *)
RollBack(t) ==
    /\ tx[t] # Idle
    /\ overlapped' = IF tx[t].op = "remove" /\ tx[t].at = "commit"
                     THEN overlapped \cup {tx[t].asset} ELSE overlapped
    /\ tx' = [tx EXCEPT ![t] = Idle]
    /\ UNCHANGED <<status, file, ticket, old, cover, uploads, release, late>>

-----------------------------------------------------------------------------
Init ==
    /\ status = [a \in Asset |-> "none"]
    /\ file = {} /\ ticket = {} /\ old = {}
    /\ cover = NoAsset
    /\ uploads = 0
    /\ tx = [t \in Tab |-> Idle]
    /\ release = [w \in Worker |-> Settled]
    /\ overlapped = {} /\ late = {}

(* request: reserves room under the account's lock; the ticket is signed     *)
(* after the commit, which may fail.                                         *)
Request(t) ==
    /\ Begin(t, "request", NoAsset, FALSE)
    /\ UNCHANGED <<status, file, ticket, old, cover, uploads, release, overlapped, late>>

\* A mutation of Reserve: only images in use count.
ReserveReadyOnly(t, a) ==
    /\ Ready(t, "request", "start")
    /\ status[a] = "none"
    /\ uploads < UploadsPerDay
    /\ Cardinality(Counted \ Reserved) < Quota
    /\ status' = [status EXCEPT ![a] = "PENDING"]
    /\ \/ ticket' = ticket \cup {a}
       \/ UNCHANGED ticket
    /\ tx' = [tx EXCEPT ![t] = Idle]
    /\ UNCHANGED <<file, old, cover, uploads, release, overlapped, late>>

Reserve(t, a) ==
    /\ Ready(t, "request", "start")
    /\ status[a] = "none"
    /\ uploads < UploadsPerDay
    /\ Cardinality(Counted) < Quota
    /\ status' = [status EXCEPT ![a] = "PENDING"]
    /\ \/ ticket' = ticket \cup {a}
       \/ UNCHANGED ticket
    /\ tx' = [tx EXCEPT ![t] = Idle]
    /\ UNCHANGED <<file, old, cover, uploads, release, overlapped, late>>

(* The browser sends the file, once, straight to storage.                    *)
Upload(a) ==
    /\ a \in ticket
    /\ ticket' = ticket \ {a}
    /\ file' = file \cup {a}
    /\ late' = IF status[a] = "DELETED" \/ a \in {tx[t].asset : t \in
                      {u \in Tab : tx[u].op = "remove" /\ tx[u].at = "commit"}}
               THEN late \cup {a} ELSE late
    /\ UNCHANGED <<status, old, cover, uploads, tx, release, overlapped>>

(* openLobby, and start, for their locks. That neither a draft's details nor *)
(* its questions change once the quiz is live is a refusal here (RollBack).  *)
Open(t) ==
    /\ Begin(t, "open", NoAsset, FALSE)
    /\ UNCHANGED <<status, file, ticket, old, cover, uploads, release, overlapped, late>>

CommitOpen(t) ==
    /\ Ready(t, "open", "start")
    /\ tx' = [tx EXCEPT ![t] = Idle]
    /\ UNCHANGED <<status, file, ticket, old, cover, uploads, release, overlapped, late>>

-----------------------------------------------------------------------------
(* Saving with an image, or without one. *)

(* verifyPending: the file of a pending upload is checked before the         *)
(* transaction.                                                              *)
Save(t, a) ==
    /\ a # NoAsset => status[a] # "none"
    /\ LET pending == a # NoAsset /\ status[a] = "PENDING" IN
       /\ pending => a \in file
       /\ Begin(t, "save", a, pending)
    /\ overlapped' = overlapped \cup ({a} \cap Releasing)
    /\ UNCHANGED <<status, file, ticket, old, cover, uploads, release, late>>

(* validateMedia: under the quiz's lock, a READY image, or the PENDING one   *)
(* just verified, which becomes READY with a usage event.                    *)
Validate(t) ==
    LET a == tx[t].asset
        pending == a # NoAsset /\ status[a] = "PENDING"
    IN
    /\ Ready(t, "save", "start")
    /\ a # NoAsset => status[a] \in {"READY"} \cup (IF tx[t].verified THEN {"PENDING"} ELSE {})
    /\ tx' = [tx EXCEPT ![t].at = "commit", ![t].verified = FALSE,
                        ![t].wants = IF pending THEN "share" ELSE "none",
                        ![t].held = IF pending THEN @ \cup {"row"} ELSE @]
    /\ UNCHANGED <<status, file, ticket, old, cover, uploads, release, overlapped, late>>

(* The commit; then the request releases what the quiz uses no more.         *)
CommitSave(t) ==
    LET a == tx[t].asset IN
    /\ Ready(t, "save", "commit")
    /\ cover' = a
    /\ IF "row" \in tx[t].held
       THEN status' = [status EXCEPT ![a] = "READY"] /\ uploads' = uploads + 1
       ELSE UNCHANGED <<status, uploads>>
    /\ tx' = [tx EXCEPT ![t] = Idle]
    /\ release' = [release EXCEPT ![t].at = "find"]
    /\ UNCHANGED <<file, ticket, old, overlapped, late>>

-----------------------------------------------------------------------------
(* DELETE /media/:id, whose transaction stays open while storage answers. *)

Remove(t, a) ==
    /\ a \in Counted
    /\ Begin(t, "remove", a, FALSE)
    /\ UNCHANGED <<status, file, ticket, old, cover, uploads, release, overlapped, late>>

\* A mutation of RemoveFile: the image may be in use.
RemoveFileInUse(t) ==
    /\ Ready(t, "remove", "start")
    /\ file' = file \ {tx[t].asset}
    /\ tx' = [tx EXCEPT ![t].at = "commit"]
    /\ UNCHANGED <<status, ticket, old, cover, uploads, release,
                   overlapped, late>>

(* Under the quiz's lock, if the quiz does not use the image.                *)
RemoveFile(t) ==
    /\ Ready(t, "remove", "start")
    /\ cover # tx[t].asset
    /\ file' = file \ {tx[t].asset}
    /\ tx' = [tx EXCEPT ![t].at = "commit"]
    /\ UNCHANGED <<status, ticket, old, cover, uploads, release,
                   overlapped, late>>

\* A mutation of CommitRemove: the upload is given back.
CommitRemoveRefund(t) ==
    /\ Ready(t, "remove", "commit")
    /\ status' = [status EXCEPT ![tx[t].asset] = "DELETED"]
    /\ uploads' = uploads - 1
    /\ tx' = [tx EXCEPT ![t] = Idle]
    /\ UNCHANGED <<file, ticket, old, cover, release,
                   overlapped, late>>

CommitRemove(t) ==
    /\ Ready(t, "remove", "commit")
    /\ status' = [status EXCEPT ![tx[t].asset] = "DELETED"]
    /\ tx' = [tx EXCEPT ![t] = Idle]
    /\ UNCHANGED <<file, ticket, old, cover, uploads, release,
                   overlapped, late>>

-----------------------------------------------------------------------------
(* Releases: after a save, and by the hourly clean-up. *)

Matching(what) ==
    IF what = "pending" THEN {a \in Asset : status[a] = "PENDING" /\ a \in old}
                        ELSE {a \in Asset : status[a] = "READY" /\ cover # a}

(* The clean-up goes on from the abandoned uploads to the detached images.   *)
AfterRelease(w, what) ==
    IF w = Cleaner /\ what = "pending"
    THEN [Settled EXCEPT !.at = "find"] ELSE Settled

(* release reads its rows; with none it is over.                             *)
Listed(w, what) ==
    LET found == Matching(what) IN
    /\ release' = [release EXCEPT ![w] =
           IF found = {} THEN AfterRelease(w, what)
           ELSE [at |-> "storage", what |-> what, list |-> found]]
    /\ overlapped' = overlapped \cup (found \cap Saving)
    /\ UNCHANGED <<status, file, ticket, old, cover, uploads, tx, late>>

CleanUp == release[Cleaner] = Settled /\ Listed(Cleaner, "pending")

Find(w) == release[w].at = "find" /\ Listed(w, "detached")

\* A mutation of RemoveFiles: a failure of the storage is ignored.
RemoveFilesOrNot(w, what) ==
    /\ release[w].at = "storage" /\ release[w].what = what
    /\ file' \in {file, file \ release[w].list}
    /\ release' = [release EXCEPT ![w].at = "mark"]
    /\ UNCHANGED <<status, ticket, old, cover, uploads, tx,
                   overlapped, late>>

RemoveFiles(w, what) ==
    /\ release[w].at = "storage" /\ release[w].what = what
    /\ file' = file \ release[w].list
    /\ release' = [release EXCEPT ![w].at = "mark"]
    /\ UNCHANGED <<status, ticket, old, cover, uploads, tx,
                   overlapped, late>>

(* One statement: the rows that still match. It waits for a save that has    *)
(* one of them in hand.                                                      *)
Mark(w, what) ==
    /\ release[w].at = "mark" /\ release[w].what = what
    /\ ~ \E t \in Tab : "row" \in tx[t].held /\ tx[t].asset \in release[w].list
    /\ status' = [a \in Asset |->
           IF a \in release[w].list \cap Matching(what) THEN "DELETED" ELSE status[a]]
    /\ release' = [release EXCEPT ![w] = AfterRelease(w, what)]
    /\ UNCHANGED <<file, ticket, old, cover, uploads, tx, overlapped, late>>

(* Storage, the database or the process fails: left for the next clean-up.   *)
FailRelease(w) ==
    /\ release[w].at \in {"storage", "mark"}
    /\ overlapped' = IF release[w].at = "mark" THEN overlapped \cup release[w].list
                     ELSE overlapped
    /\ release' = [release EXCEPT ![w] = Settled]
    /\ UNCHANGED <<status, file, ticket, old, cover, uploads, tx, late>>

(* Time passes: reservations reach their end, tickets, which live shorter,   *)
(* expire, and events leave the rolling window, the oldest first.            *)
TimePasses ==
    /\ old' \in {s \in SUBSET Reserved : old \cap Reserved \subseteq s}
    /\ ticket' \in SUBSET (ticket \ old')
    /\ uploads' \in 0..uploads
    /\ UNCHANGED <<status, file, cover, tx, release, overlapped, late>>

-----------------------------------------------------------------------------
Transactions(t) ==
    \/ Request(t) \/ Open(t) \/ Lock(t) \/ RollBack(t)
    \/ CommitOpen(t) \/ Validate(t) \/ CommitSave(t)
    \/ RemoveFile(t) \/ CommitRemove(t)
    \/ Save(t, NoAsset)
    \/ \E a \in Asset : Reserve(t, a) \/ Save(t, a) \/ Remove(t, a)

Releases(w) ==
    \/ Find(w) \/ FailRelease(w)
    \/ \E what \in {"pending", "detached"} : RemoveFiles(w, what) \/ Mark(w, what)

Next ==
    \/ \E t \in Tab : Transactions(t)
    \/ \E a \in Asset : Upload(a)
    \/ \E w \in Worker : Releases(w)
    \/ CleanUp \/ TimePasses

Spec == Init /\ [][Next]_vars

-----------------------------------------------------------------------------

TxType == [op : {"none", "request", "open", "save", "remove"},
           wants : {"none", "account", "quiz", "share"},
           held : SUBSET {"account", "quiz", "share", "row"},
           at : {"start", "commit"},
           asset : Asset \cup {NoAsset}, verified : BOOLEAN]
ReleaseType == [at : {"idle", "find", "storage", "mark"},
                what : {"pending", "detached"}, list : SUBSET Asset]

(* The variables keep their types. *)
TypeOK ==
    /\ status \in [Asset -> {"none", "PENDING", "READY", "DELETED"}]
    /\ {file, ticket, old, overlapped, late} \subseteq SUBSET Asset
    /\ cover \in Asset \cup {NoAsset}
    /\ uploads \in Nat
    /\ tx \in [Tab -> TxType]
    /\ release \in [Worker -> ReleaseType]

(* The image a quiz shows is READY and in storage, unless its release ran    *)
(* beside the save that attached it or was cut off half way: no clean-up,    *)
(* removal or other save takes it away.                                      *)
CoverStored ==
    cover \notin overlapped \cup {NoAsset} => status[cover] = "READY" /\ cover \in file

(* "Quota is never released for a file still in storage": a stored file      *)
(* counts, unless it was sent after its row had been removed.                *)
StoredIsCounted == file \ late \subseteq Counted

(* "[counted] Stored images that still count: pending reservations and ready *)
(* files": requests of several tabs do not get past the quota together.      *)
QuotaKept == Cardinality(Counted) \leq Quota

(* "50 verified uploads per rolling 24 hours" (SECURITY_DESIGN.md:175), "You *)
(* can upload up to N images a day" (media/service.ts:157). The code allows  *)
(* an upload by the events of the day and records the event when the image   *)
(* is attached, so uploads reserved together pass the check together.        *)
UploadsWithinDay == uploads \leq UploadsPerDay

(* Each of S waits for another of S: none of them gets on by itself.          *)
Deadlocked(S) == S # {} /\ \A t \in S : \E u \in S : WaitsFor(t, u)

(* "Account before quiz, the order every transaction locks them in": whoever *)
(* waits for each other, two or more, there is among them a save that        *)
(* attaches a pending upload and records the usage event, whose foreign key  *)
(* locks the account under the quiz's lock.                                  *)
DeadlockNeedsPendingSave ==
    \A S \in SUBSET Tab : Deadlocked(S) => \E t \in S : tx[t].wants = "share"

=============================================================================
