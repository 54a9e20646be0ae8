-------------------------- MODULE AuthSessionsProofs --------------------------
(***************************************************************************)
(* Proofs about AuthSessions, for any number of browsers, tabs, sign-ins,    *)
(* renewals and password changes.                                            *)
(***************************************************************************)
EXTENDS AuthSessions, TLAPS

LEMMA TokenParts ==
  /\ \A token \in Token : /\ token[1] \in Family /\ token[2] \in 1 .. MaxRows
                          /\ token = <<token[1], token[2]>>
  /\ \A f \in Family, n \in 1 .. MaxRows : <<f, n>> \in Token
  /\ NoToken \notin Token
  BY AuthAssumption DEF Token, NoToken

\* The steps of Next, one by one.
LEMMA Steps ==
  ASSUME [Next]_vars
  PROVE  \/ \E f \in Family : \/ CreateSession(f) \/ ListForChange(f)
                              \/ Connect(f) \/ Disconnect(f)
         \/ \E f \in Family, b \in Browser : CheckPassword(f, b)
         \/ \E t \in Tab : \/ Renew(t) \/ Reply(t) \/ GiveUp(t) \/ RotateRead(t)
                           \/ RotateReplay(t) \/ RotateCommit(t) \/ RotateFail(t)
         \/ ListForReset \/ RevokeSessions \/ CommitChange \/ FailChange
         \/ \E b \in Browser : Logout(b)
         \/ UNCHANGED vars
  BY DEF Next, SigningIn, Renewals, Passwords, Sockets

-----------------------------------------------------------------------------
(* Types *)

Types ==
  /\ rows \in [Family -> 0 .. MaxRows]
  /\ live \in SUBSET Token
  /\ password \in 1 .. MaxPasswords
  /\ confirmed \in [Family -> 0 .. MaxPasswords]
  /\ login \in [Family -> Browser \cup {NoLogin}]
  /\ cookie \in [Browser -> Token \cup {NoToken}]
  /\ request \in [Tab -> [at : {"idle", "sent", "read", "renewed", "refused"},
                          token : Token \cup {NoToken}]]
  /\ lock \subseteq Tab
  /\ change \in ChangeType
  /\ {ending, socket, lost, replayed, overlapped, untold}
        \subseteq SUBSET (Family \cup {NoFamily})

\* A renewal under way carries a token of a sign-in; an answer is awaited.
Shapes ==
  \A t \in Tab :
    /\ request[t].at \in {"idle", "refused"} => request[t].token = NoToken
    /\ request[t].at \in {"sent", "read", "renewed"} => request[t].token \in Token
    /\ request[t].at \in {"renewed", "refused"} => t \in lock

\* A password change under way is a reset or a change, and has a next number.
ChangeShape ==
  change.at # "idle" => change.op \in {"reset", "change"} /\ password < MaxPasswords

Issued ==
  /\ \A token \in live : token[2] <= rows[token[1]]
  /\ \A b \in Browser : cookie[b] # NoToken => cookie[b][2] <= rows[cookie[b][1]]
  /\ \A t \in Tab : request[t].token # NoToken =>
        request[t].token[2] <= rows[request[t].token[1]]

LEMMA InitTypes == Init => Types /\ Shapes /\ ChangeShape /\ Issued
  BY AuthAssumption, TokenParts
     DEF Init, Types, Shapes, ChangeShape, Issued, NoRequest, NoChange, ChangeType, NoLogin

LEMMA ListType ==
  ASSUME Types, Shapes, NEW op \in ChangeType, op.op \in {"reset", "change"}, List(op)
  PROVE  Types' /\ Shapes' /\ ChangeShape'
<1>1. {f \in EndedBy(op) : SignedIn(f)} \in SUBSET Family
  BY DEF EndedBy
<1>2. /\ change' \in ChangeType /\ change'.at = "listed" /\ change'.op = op.op
      /\ password < MaxPasswords /\ UNCHANGED <<database, browsers, sockets, history>>
  BY <1>1 DEF List, ChangeType
<1> QED
  BY <1>2 DEF Types, Shapes, ChangeShape, database, browsers, sockets, history

LEMMA NextTypes ==
  Types /\ Shapes /\ ChangeShape /\ [Next]_vars => Types' /\ Shapes' /\ ChangeShape'
<1> SUFFICES ASSUME Types, Shapes, ChangeShape, [Next]_vars
             PROVE  Types' /\ Shapes' /\ ChangeShape'
  OBVIOUS
<1> USE AuthAssumption, TokenParts DEF Types, Shapes, ChangeShape
<1>1. ASSUME NEW f \in Family, CreateSession(f) PROVE Types' /\ Shapes' /\ ChangeShape'
  BY <1>1 DEF CreateSession, sockets
<1>2. ASSUME NEW f \in Family, ListForChange(f) PROVE Types' /\ Shapes' /\ ChangeShape'
  <2>1. [NoChange EXCEPT !.op = "change", !.by = f] \in ChangeType
    BY DEF NoChange, ChangeType
  <2>2. [NoChange EXCEPT !.op = "change", !.by = f].op = "change"
    BY DEF NoChange
  <2> QED
    BY <1>2, <2>1, <2>2, ListType DEF ListForChange
<1>3. ASSUME NEW f \in Family, Connect(f) \/ Disconnect(f) PROVE Types' /\ Shapes' /\ ChangeShape'
  BY <1>3 DEF Connect, Disconnect, database, browsers, history
<1>4. ASSUME NEW f \in Family, NEW b \in Browser, CheckPassword(f, b) PROVE Types' /\ Shapes' /\ ChangeShape'
  BY <1>4 DEF CheckPassword, sockets, history
<1>5. ASSUME NEW t \in Tab, Renew(t) PROVE Types' /\ Shapes' /\ ChangeShape'
  BY <1>5 DEF Renew, database, sockets, history, NoRequest
<1>6. ASSUME NEW t \in Tab, Reply(t) PROVE Types' /\ Shapes' /\ ChangeShape'
  BY <1>6 DEF Reply, database, sockets, history, NoRequest
<1>7. ASSUME NEW t \in Tab, GiveUp(t) PROVE Types' /\ Shapes' /\ ChangeShape'
  BY <1>7 DEF GiveUp, database, sockets, NoRequest, NoToken
<1>8. ASSUME NEW t \in Tab, RotateRead(t) PROVE Types' /\ Shapes' /\ ChangeShape'
  BY <1>8 DEF RotateRead, database, sockets, history
<1>9. ASSUME NEW t \in Tab, RotateReplay(t) PROVE Types' /\ Shapes' /\ ChangeShape'
  BY <1>9 DEF RotateReplay, Answered, NoRequest
<1>10. ASSUME NEW t \in Tab, RotateCommit(t) PROVE Types' /\ Shapes' /\ ChangeShape'
  <2> DEFINE f == request[t].token[1]
             next == <<f, rows[f] + 1>>
  <2>1. f \in Family /\ rows[f] \in Nat /\ rows[f] < MaxRows
    BY <1>10 DEF RotateCommit
  <2>2. next \in Token
    <3>1. rows[f] + 1 \in 1 .. MaxRows
      BY <2>1
    <3> QED
      BY <2>1, <3>1, TokenParts
  <2>3. change' \in ChangeType /\ change'.at = change.at /\ change'.op = change.op
    BY <1>10 DEF RotateCommit, ChangeType
  <2>5. /\ rows' = [rows EXCEPT ![f] = @ + 1]
        /\ live' \in SUBSET Token
        /\ request' = [request EXCEPT ![t] =
                          IF t \in lock THEN [at |-> "renewed", token |-> next] ELSE NoRequest]
        /\ untold' \in SUBSET (Family \cup {NoFamily})
        /\ UNCHANGED <<password, confirmed, login, cookie, lock, sockets, lost,
                       replayed, overlapped>>
    BY <1>10, <2>1, <2>2 DEF RotateCommit, Answered
  <2>6. rows' \in [Family -> 0 .. MaxRows]
    BY <2>1, <2>5
  <2> HIDE DEF f, next
  <2>7. Types' /\ ChangeShape'
    BY <2>2, <2>3, <2>5, <2>6 DEF NoRequest, sockets
  <2>8. Shapes'
    BY <2>2, <2>5 DEF NoRequest
  <2> QED
    BY <2>7, <2>8
<1>11. ASSUME NEW t \in Tab, RotateFail(t) PROVE Types' /\ Shapes' /\ ChangeShape'
  <2>1. change' \in ChangeType /\ change'.at = change.at /\ change'.op = change.op
    BY <1>11 DEF RotateFail, ChangeType
  <2> QED
    BY <1>11, <2>1 DEF RotateFail, NoRequest, database, sockets, history
<1>12. ASSUME ListForReset PROVE Types' /\ Shapes' /\ ChangeShape'
  <2>1. [NoChange EXCEPT !.op = "reset"] \in ChangeType
    BY DEF NoChange, ChangeType
  <2>2. [NoChange EXCEPT !.op = "reset"].op = "reset"
    BY DEF NoChange
  <2> QED
    BY <1>12, <2>1, <2>2, ListType DEF ListForReset
<1>13. ASSUME RevokeSessions PROVE Types' /\ Shapes' /\ ChangeShape'
  <2> DEFINE seen == {token \in live : token[1] \in EndedBy(change)}
             under == {token \in seen : \E t \in Renewing(token[1]) : request[t].token = token}
  <2>1. PICK some \in SUBSET under :
          LET first == some \cup {token \in under : token[2] = 1} IN
          /\ change' = [change EXCEPT !.at = "revoked", !.revoked = seen, !.waits = first]
          /\ overlapped' = overlapped \cup {token[1] : token \in first}
    BY <1>13 DEF RevokeSessions
  <2> DEFINE first == some \cup {token \in under : token[2] = 1}
  <2>2. first \in SUBSET Token /\ seen \in SUBSET Token
    OBVIOUS
  <2>3. {token[1] : token \in first} \in SUBSET Family
    BY <2>2
  <2>4. /\ change' = [change EXCEPT !.at = "revoked", !.revoked = seen, !.waits = first]
        /\ overlapped' \in SUBSET (Family \cup {NoFamily})
    BY <2>1, <2>3
  <2>5. change.at = "listed" /\ UNCHANGED <<database, browsers, sockets, lost, replayed, untold>>
    BY <1>13 DEF RevokeSessions
  <2> HIDE DEF seen, first
  <2>6. change' \in ChangeType /\ change'.at = "revoked" /\ change'.op = change.op
    BY <2>2, <2>4 DEF ChangeType
  <2> QED
    BY <2>4, <2>5, <2>6 DEF database, browsers, sockets
<1>14. ASSUME CommitChange PROVE Types' /\ Shapes' /\ ChangeShape'
  <2>1. change.at = "revoked" /\ password < MaxPasswords /\ password' = password + 1
    BY <1>14 DEF CommitChange
  <2>2. NoChange \in ChangeType /\ NoChange.at = "idle"
    BY DEF NoChange, ChangeType
  <2>3. confirmed' \in [Family -> 0 .. MaxPasswords]
    BY <1>14, <2>1 DEF CommitChange
  <2>4. overlapped' \in SUBSET (Family \cup {NoFamily})
    BY <1>14 DEF CommitChange
  <2>5. ending' \in SUBSET (Family \cup {NoFamily}) /\ live' \in SUBSET Token
    BY <1>14 DEF CommitChange, ChangeType
  <2>6. change' = NoChange /\ UNCHANGED <<rows, browsers, socket, lost, replayed, untold>>
    BY <1>14 DEF CommitChange
  <2>7. password' \in 1 .. MaxPasswords
    BY <2>1
  <2> QED
    BY <2>2, <2>3, <2>4, <2>5, <2>6, <2>7 DEF browsers
<1>15. ASSUME FailChange PROVE Types' /\ Shapes' /\ ChangeShape'
  BY <1>15 DEF FailChange, ChangeType, NoChange, database, browsers, sockets, history
<1>16. ASSUME NEW b \in Browser, Logout(b) PROVE Types' /\ Shapes' /\ ChangeShape'
  BY <1>16 DEF Logout, history
<1>17. ASSUME UNCHANGED vars PROVE Types' /\ Shapes' /\ ChangeShape'
  BY <1>17 DEF vars, database, browsers, sockets, history
<1> QED
  BY Steps, <1>1, <1>2, <1>3, <1>4, <1>5, <1>6, <1>7, <1>8, <1>9, <1>10, <1>11, <1>12,
     <1>13, <1>14, <1>15, <1>16, <1>17

-----------------------------------------------------------------------------
(* One current token and one renewal of it                                   *)

\* The live token of a sign-in, and the one a renewal has read, is the last
\* issued; renewals of a sign-in take turns; a login is of a new sign-in.
Single ==
  /\ \A token \in live : token[2] = rows[token[1]]
  /\ \A t \in Tab : request[t].at = "read" => request[t].token[2] = rows[request[t].token[1]]
  /\ \A t, u \in Tab :
        request[t].at = "read" /\ request[u].at = "read"
        /\ request[t].token[1] = request[u].token[1] => t = u
  /\ \A f \in Family : login[f] # NoLogin => rows[f] = 0

\* What a renewal has read is still live, or passwords changed meanwhile.
Readers ==
  \A t \in Tab : request[t].at = "read" =>
     request[t].token \in live \/ request[t].token[1] \in overlapped

Sound == Types /\ Shapes /\ ChangeShape /\ Issued /\ Single /\ Readers

\* What the steps that change neither sign-ins nor renewals keep.
LEMMA AsideSound ==
  ASSUME Sound, UNCHANGED <<rows, live, login, request, cookie>>, overlapped \subseteq overlapped'
  PROVE  Issued' /\ Single' /\ Readers'
  BY DEF Sound, Issued, Single, Readers

LEMMA CreateSound ==
  ASSUME Sound, NEW f \in Family, CreateSession(f)
  PROVE  Issued' /\ Single' /\ Readers'
<1> USE AuthAssumption, TokenParts DEF Sound, Types, Shapes, Issued, Single, Readers
<1>1. /\ rows[f] = 0 /\ rows' = [rows EXCEPT ![f] = 1] /\ live' = live \cup {<<f, 1>>}
      /\ cookie' = [cookie EXCEPT ![login[f]] = <<f, 1>>]
      /\ login' = [login EXCEPT ![f] = NoLogin]
      /\ request' = request /\ overlapped \subseteq overlapped' /\ login[f] \in Browser
  BY DEF CreateSession
<1>2. <<f, 1>> \in Token /\ <<f, 1>>[1] = f /\ <<f, 1>>[2] = 1
  OBVIOUS
<1>3. \A g \in Family : rows'[g] = IF g = f THEN 1 ELSE rows[g]
  BY <1>1
<1>4. \A token \in live : token[1] # f
  BY <1>1
<1>5. \A t \in Tab : request[t].token \in Token => request[t].token[1] # f
  BY <1>1
<1>6. \A b \in Browser : cookie[b] \in Token => cookie[b][1] # f
  BY <1>1
<1>7. Issued'
  BY <1>1, <1>2, <1>3, <1>4, <1>5, <1>6
<1>8. Single'
  BY <1>1, <1>2, <1>3, <1>4, <1>5
<1>9. Readers'
  BY <1>1
<1> QED
  BY <1>7, <1>8, <1>9

\* Steps of the tab t that leave rows and live tokens alone, and the request of
\* t with a token it had or its browser has, and no fresh read.
LEMMA TabSound ==
  ASSUME Sound, NEW t \in Tab, UNCHANGED <<rows, login, overlapped>>,
         \A u \in Tab : u # t => request'[u] = request[u],
         request'[t].at = "read" => request'[t] = request[t],
         \/ request'[t].token = NoToken
         \/ request'[t].token = request[t].token
         \/ request'[t].token = cookie[BrowserOf[t]],
         \A b \in Browser : \/ cookie'[b] \in {NoToken, cookie[b]}
                            \/ \E u \in Tab : cookie'[b] = request[u].token,
         live' \subseteq live,
         \A u \in Tab : request'[u].at = "read" /\ request[u].token \in live
                         => request[u].token \in live'
  PROVE  Issued' /\ Single' /\ Readers'
<1> USE AuthAssumption, TokenParts DEF Sound, Types, Shapes, Issued, Single, Readers
<1>1. \A u \in Tab : request'[u].at = "read" => request'[u] = request[u]
  OBVIOUS
<1>2. Issued'
  OBVIOUS
<1>3. Single'
  BY <1>1
<1>4. Readers'
  BY <1>1
<1> QED
  BY <1>2, <1>3, <1>4

LEMMA ReadSound ==
  ASSUME Sound, NEW t \in Tab, RotateRead(t)
  PROVE  Issued' /\ Single' /\ Readers'
<1> USE AuthAssumption, TokenParts DEF Sound, Types, Shapes, Issued, Single, Readers
<1>1. /\ request[t].at = "sent" /\ request[t].token \in live
      /\ request' = [request EXCEPT ![t].at = "read"]
      /\ UNCHANGED <<rows, live, login, cookie, overlapped>>
  BY DEF RotateRead, database, history
<1>2. \A u \in Tab : request[u].at = "read" => request[u].token[1] # request[t].token[1]
  BY DEF RotateRead, RootFree, Renewing
<1>3. /\ request'[t].at = "read" /\ request'[t].token = request[t].token
      /\ \A u \in Tab : u # t => request'[u] = request[u]
  BY <1>1
<1>4. Issued'
  BY <1>1, <1>3
<1>5. Single'
  BY <1>1, <1>2, <1>3
<1>6. Readers'
  BY <1>1, <1>3
<1> QED
  BY <1>4, <1>5, <1>6

\* The replay of a used token, and logout, find no renewal in between.
LEMMA NoneReading ==
  ASSUME Sound, NEW f \in Family, RootFree(f), live' = live \ Current(f)
  PROVE  /\ live' \subseteq live
         /\ \A u \in Tab : request[u].at = "read" /\ request[u].token \in live
                            => request[u].token \in live'
  BY DEF Sound, RootFree, Renewing, Current

LEMMA CommitSound ==
  ASSUME Sound, NEW t \in Tab, RotateCommit(t)
  PROVE  Issued' /\ Single' /\ Readers'
<1> USE AuthAssumption, TokenParts DEF Sound, Types, Shapes, Issued, Single, Readers
<1> DEFINE f == request[t].token[1]
           next == <<f, rows[f] + 1>>
<1>1. /\ request[t].at = "read" /\ rows' = [rows EXCEPT ![f] = @ + 1]
      /\ live' = (live \ {request[t].token}) \cup {next}
      /\ UNCHANGED <<login, cookie, overlapped>>
      /\ request' = [request EXCEPT ![t] =
                        IF t \in lock THEN [at |-> "renewed", token |-> next] ELSE NoRequest]
  BY DEF RotateCommit, Answered
<1>2. /\ f \in Family /\ request[t].token = <<f, rows[f]>> /\ rows[f] \in Nat /\ rows[f] > 0
      /\ next[1] = f /\ next[2] = rows[f] + 1
  BY <1>1
<1>3. /\ \A g \in Family : rows'[g] = IF g = f THEN rows[f] + 1 ELSE rows[g]
      /\ request'[t].at # "read" /\ request'[t].token \in {next, NoToken}
      /\ \A u \in Tab : u # t => request'[u] = request[u]
  BY <1>1, <1>2 DEF NoRequest
<1>4. \A u \in Tab : u # t /\ request[u].at = "read" => request[u].token[1] # f
  BY <1>1
<1>5. \A token \in live : token[1] = f => token = request[t].token
  BY <1>2
<1>6. login[f] = NoLogin
  BY <1>2
<1> HIDE DEF f, next
<1>7. Issued'
  BY <1>1, <1>2, <1>3
<1>8. Single'
  BY <1>1, <1>2, <1>3, <1>4, <1>5, <1>6
<1>9. Readers'
  BY <1>1, <1>2, <1>3, <1>4
<1> QED
  BY <1>7, <1>8, <1>9

LEMMA ChangeSound ==
  ASSUME Sound, CommitChange
  PROVE  Issued' /\ Single' /\ Readers'
<1> USE AuthAssumption, TokenParts DEF Sound, Types, Shapes, Issued, Single, Readers
<1>1. /\ live' = live \ change.revoked /\ UNCHANGED <<rows, login, cookie, request>>
      /\ overlapped' = overlapped \cup {f \in Family : login[f] # NoLogin \/ Renewing(f) # {}}
  BY DEF CommitChange, browsers
<1>2. \A t \in Tab : request[t].at = "read" => request[t].token[1] \in overlapped'
  BY <1>1 DEF Renewing
<1>3. Issued' /\ Single'
  BY <1>1
<1> QED
  BY <1>1, <1>2, <1>3

LEMMA NextSound == Sound /\ [Next]_vars => Sound'
<1> SUFFICES ASSUME Sound, [Next]_vars PROVE Issued' /\ Single' /\ Readers'
  BY NextTypes DEF Sound
<1> USE TokenParts
<1>1. ASSUME NEW f \in Family, CreateSession(f) PROVE Issued' /\ Single' /\ Readers'
  BY <1>1, CreateSound
<1>2. ASSUME NEW f \in Family, \/ ListForChange(f) \/ Connect(f) \/ Disconnect(f)
      PROVE  Issued' /\ Single' /\ Readers'
  BY <1>2, AsideSound DEF ListForChange, List, Connect, Disconnect, database, browsers, history
<1>3. ASSUME NEW f \in Family, NEW b \in Browser, CheckPassword(f, b)
      PROVE  Issued' /\ Single' /\ Readers'
  BY <1>3 DEF CheckPassword, Sound, Types, Issued, Single, Readers, history
<1>4. ASSUME NEW t \in Tab, Renew(t) PROVE Issued' /\ Single' /\ Readers'
  <2>1. request'[t] = [at |-> "sent", token |-> cookie[BrowserOf[t]]]
    BY <1>4 DEF Renew, Sound, Types
  <2> QED
    BY <1>4, <2>1, TabSound DEF Renew, Sound, Types, database, history
<1>5. ASSUME NEW t \in Tab, Reply(t) PROVE Issued' /\ Single' /\ Readers'
  <2>1. request'[t] = NoRequest /\ \A u \in Tab : u # t => request'[u] = request[u]
    BY <1>5 DEF Reply, Sound, Types
  <2>2. \A b \in Browser : cookie'[b] \in {NoToken, cookie[b], request[t].token}
    BY <1>5 DEF Reply, Sound, Types
  <2> QED
    BY <1>5, <2>1, <2>2, TabSound DEF Reply, database, history, NoRequest
<1>6. ASSUME NEW t \in Tab, GiveUp(t) PROVE Issued' /\ Single' /\ Readers'
  <2>1. request'[t] \in {NoRequest, request[t]} /\ \A u \in Tab : u # t => request'[u] = request[u]
    BY <1>6 DEF GiveUp, Sound, Types
  <2> QED
    BY <1>6, <2>1, TabSound DEF GiveUp, database, NoRequest
<1>7. ASSUME NEW t \in Tab, RotateRead(t) PROVE Issued' /\ Single' /\ Readers'
  BY <1>7, ReadSound
<1>8. ASSUME NEW t \in Tab, RotateReplay(t) PROVE Issued' /\ Single' /\ Readers'
  <2>1. /\ request'[t].token = NoToken /\ request'[t].at # "read"
        /\ \A u \in Tab : u # t => request'[u] = request[u]
    BY <1>8 DEF RotateReplay, Answered, NoRequest, Sound, Types
  <2>2. request[t].token[1] \in Family
    BY <1>8 DEF RotateReplay, Sound, Shapes
  <2> QED
    BY <1>8, <2>1, <2>2, NoneReading, TabSound DEF RotateReplay
<1>9. ASSUME NEW t \in Tab, RotateCommit(t) PROVE Issued' /\ Single' /\ Readers'
  BY <1>9, CommitSound
<1>10. ASSUME NEW t \in Tab, RotateFail(t) PROVE Issued' /\ Single' /\ Readers'
  <2>1. request'[t] = NoRequest /\ \A u \in Tab : u # t => request'[u] = request[u]
    BY <1>10 DEF RotateFail, Sound, Types
  <2> QED
    BY <1>10, <2>1, TabSound DEF RotateFail, database, history, NoRequest
<1>11. ASSUME ListForReset \/ RevokeSessions \/ FailChange PROVE Issued' /\ Single' /\ Readers'
  BY <1>11, AsideSound
     DEF ListForReset, List, RevokeSessions, FailChange, database, browsers, history
<1>12. ASSUME CommitChange PROVE Issued' /\ Single' /\ Readers'
  BY <1>12, ChangeSound
<1>13. ASSUME NEW b \in Browser, Logout(b) PROVE Issued' /\ Single' /\ Readers'
  <2>1. cookie[b][1] \in Family /\ \A c \in Browser : cookie'[c] \in {NoToken, cookie[c]}
    BY <1>13 DEF Logout, Sound, Types
  <2> QED
    BY <1>13, <2>1, NoneReading DEF Logout, Sound, Types, Shapes, Issued, Single, Readers, history
<1>14. ASSUME UNCHANGED vars PROVE Issued' /\ Single' /\ Readers'
  BY <1>14, AsideSound DEF vars, database, browsers, history
<1> QED
  BY Steps, <1>1, <1>2, <1>3, <1>4, <1>5, <1>6, <1>7, <1>8, <1>9, <1>10, <1>11, <1>12,
     <1>13, <1>14

LEMMA InitSound == Init => Sound
  BY InitTypes, TokenParts DEF Init, Sound, Single, Readers, NoRequest, NoLogin

\* Types, and: a cookie and a renewal carry only tokens that were issued.
THEOREM TypesCorrect == Spec => []TypeOK
<1>1. Sound => TypeOK
  BY DEF Sound, Types, Issued, TypeOK
<1> QED
  BY InitSound, NextSound, <1>1, PTL DEF Spec

\* Only a login and a renewal add live tokens.
LEMMA LiveGrows ==
  ASSUME [Next]_vars,
         \A f \in Family : ~ CreateSession(f), \A t \in Tab : ~ RotateCommit(t)
  PROVE  live' \subseteq live
<1>1. ASSUME NEW f \in Family, \/ ListForChange(f) \/ Connect(f) \/ Disconnect(f)
      PROVE  live' = live
  BY <1>1 DEF ListForChange, List, Connect, Disconnect, database
<1>2. ASSUME NEW f \in Family, NEW b \in Browser, CheckPassword(f, b) PROVE live' = live
  BY <1>2 DEF CheckPassword
<1>3. ASSUME NEW t \in Tab, \/ Renew(t) \/ Reply(t) \/ GiveUp(t) \/ RotateRead(t) \/ RotateFail(t)
      PROVE  live' = live
  BY <1>3 DEF Renew, Reply, GiveUp, RotateRead, RotateFail, database
<1>4. ASSUME NEW t \in Tab, RotateReplay(t) PROVE live' \subseteq live
  BY <1>4 DEF RotateReplay
<1>5. ASSUME ListForReset \/ RevokeSessions \/ FailChange PROVE live' = live
  BY <1>5 DEF ListForReset, List, RevokeSessions, FailChange, database
<1>6. ASSUME CommitChange PROVE live' \subseteq live
  BY <1>6 DEF CommitChange
<1>7. ASSUME NEW b \in Browser, Logout(b) PROVE live' \subseteq live
  BY <1>7 DEF Logout
<1>8. ASSUME UNCHANGED vars PROVE live' = live
  BY <1>8 DEF vars, database
<1> QED
  BY Steps, <1>1, <1>2, <1>3, <1>4, <1>5, <1>6, <1>7, <1>8

\* A sign-in that logout, a replay or a password change ended is never signed
\* in again, except by a renewal under way while the passwords changed.
THEOREM EndedStay == Spec => EndedStaysEnded
<1>1. ASSUME Sound, [Next]_vars, NEW f \in Family, Ended(f), f \notin overlapped
      PROVE  ~ SignedIn(f)'
  <2> USE TokenParts, <1>1 DEF Ended, SignedIn, Current
  <2>1. CASE live' \subseteq live
    BY <2>1
  <2>2. ASSUME NEW g \in Family, CreateSession(g) PROVE ~ SignedIn(f)'
    <3>1. rows[g] = 0 /\ live' = live \cup {<<g, 1>>}
      BY <2>2 DEF CreateSession, Sound, Single
    <3> QED
      BY <3>1
  <2>3. ASSUME NEW t \in Tab, RotateCommit(t) PROVE ~ SignedIn(f)'
    <3>1. /\ request[t].at = "read"
          /\ live' = (live \ {request[t].token})
                        \cup {<<request[t].token[1], rows[request[t].token[1]] + 1>>}
      BY <2>3 DEF RotateCommit
    <3>2. request[t].token[1] # f
      BY <3>1 DEF Sound, Readers
    <3> QED
      BY <3>1, <3>2
  <2> QED
    BY <2>1, <2>2, <2>3, LiveGrows
<1>2. Sound /\ [Next]_vars
        => [\A f \in Family : Ended(f) /\ f \notin overlapped => ~ SignedIn(f)']_vars
  BY <1>1
<1> QED
  BY InitSound, NextSound, <1>2, PTL DEF Spec, EndedStaysEnded

-----------------------------------------------------------------------------
(* Password changes                                                          *)

\* A sign-in is of the current password, or one that changes overlapped with.
Accepted(f) == confirmed[f] = password \/ f \in overlapped

\* What a password change may assume of the rows it is about to revoke.
Revoking ==
  /\ \A f \in Family : login[f] # NoLogin => Accepted(f)
  /\ \A token \in change.waits : token[1] \in overlapped
  /\ change.at = "revoked" => \A token \in live :
        token[1] \in EndedBy(change) => token \in change.revoked \/ token[1] \in overlapped

Changes == Revoking /\ PasswordEndsSignIns

\* Steps that add no live token and leave passwords and the change alone.
LEMMA AsideChanges ==
  ASSUME Changes, live' \subseteq live, UNCHANGED <<login, password, confirmed, overlapped>>,
         \/ change' = change
         \/ change'.at # "revoked" /\ change'.waits \subseteq change.waits
  PROVE  Changes'
  BY DEF Changes, Revoking, Accepted, PasswordEndsSignIns, SignedIn, Current, EndedBy

LEMMA CreateChanges ==
  ASSUME Sound, Changes, NEW f \in Family, CreateSession(f)
  PROVE  Changes'
<1> USE TokenParts, AuthAssumption DEF Sound, Types, Changes, Revoking, Accepted
<1>1. /\ live' = live \cup {<<f, 1>>} /\ <<f, 1>>[1] = f
      /\ overlapped' = IF change.at = "revoked" THEN overlapped \cup {f} ELSE overlapped
      /\ login' = [login EXCEPT ![f] = NoLogin]
      /\ UNCHANGED <<password, confirmed, change>>
  BY DEF CreateSession
<1>2. Accepted(f)
  BY DEF CreateSession
<1>3. \A g \in Family : login'[g] # NoLogin => login[g] # NoLogin
  BY <1>1
<1>4. Revoking'
  BY <1>1, <1>3 DEF EndedBy
<1>5. \A g \in Family : SignedIn(g)' => SignedIn(g) \/ g = f
  BY <1>1 DEF SignedIn, Current
<1>6. PasswordEndsSignIns'
  BY <1>1, <1>2, <1>5 DEF PasswordEndsSignIns
<1> QED
  BY <1>4, <1>6

LEMMA RotateChanges ==
  ASSUME Sound, Changes, NEW t \in Tab, RotateCommit(t)
  PROVE  Changes'
<1> USE TokenParts, AuthAssumption DEF Sound, Types, Shapes, Changes, Revoking, Accepted
<1> DEFINE token == request[t].token
           f == token[1]
           next == <<f, rows[f] + 1>>
<1>1. /\ request[t].at = "read" /\ live' = (live \ {token}) \cup {next}
      /\ change' = [change EXCEPT !.waits = @ \ {token}]
      /\ token \notin Pending \/ token \in change.waits
      /\ UNCHANGED <<password, confirmed, login, overlapped>>
  BY DEF RotateCommit
<1>2. token \in Token /\ f \in Family /\ next[1] = f
  BY <1>1
<1>3. token \in live \/ f \in overlapped
  BY <1>1 DEF Readers
<1>4. Accepted(f)
  <2>1. CASE token \in live
    BY <1>2, <2>1 DEF PasswordEndsSignIns, SignedIn, Current
  <2> QED
    BY <1>3, <2>1
<1>5. change.at = "revoked" /\ f \in EndedBy(change) => f \in overlapped
  BY <1>1, <1>2, <1>3 DEF Pending
<1>6. /\ change'.at = change.at /\ change'.op = change.op /\ change'.by = change.by
      /\ change'.revoked = change.revoked /\ change'.waits \subseteq change.waits
  BY <1>1 DEF ChangeType
<1> HIDE DEF f, next, token
<1>7. EndedBy(change)' = EndedBy(change)
  BY <1>6 DEF EndedBy
<1>8. Revoking'
  BY <1>1, <1>2, <1>5, <1>6, <1>7
<1>9. \A g \in Family : SignedIn(g)' => SignedIn(g) \/ g = f
  BY <1>1, <1>2 DEF SignedIn, Current
<1>10. PasswordEndsSignIns'
  BY <1>1, <1>4, <1>9 DEF PasswordEndsSignIns
<1> QED
  BY <1>8, <1>10

LEMMA RevokeChanges ==
  ASSUME Sound, Changes, RevokeSessions
  PROVE  Changes'
<1> USE TokenParts, AuthAssumption DEF Sound, Types, Changes, Revoking, Accepted
<1> DEFINE seen == {token \in live : token[1] \in EndedBy(change)}
           under == {token \in seen : \E t \in Renewing(token[1]) : request[t].token = token}
<1>1. PICK some \in SUBSET under :
        LET first == some \cup {token \in under : token[2] = 1} IN
        /\ change' = [change EXCEPT !.at = "revoked", !.revoked = seen, !.waits = first]
        /\ overlapped' = overlapped \cup {token[1] : token \in first}
  BY DEF RevokeSessions
<1> DEFINE first == some \cup {token \in under : token[2] = 1}
<1>2. UNCHANGED <<live, login, password, confirmed>>
  BY DEF RevokeSessions, database, browsers
<1>3. /\ change' = [change EXCEPT !.at = "revoked", !.revoked = seen, !.waits = first]
      /\ overlapped' = overlapped \cup {token[1] : token \in first}
  BY <1>1
<1> HIDE DEF first
<1>4. /\ change'.op = change.op /\ change'.by = change.by /\ change'.revoked = seen
      /\ change'.waits = first
  BY <1>3 DEF ChangeType
<1>5. EndedBy(change)' = EndedBy(change)
  BY <1>4 DEF EndedBy
<1>6. Revoking'
  BY <1>2, <1>3, <1>4, <1>5
<1>7. PasswordEndsSignIns'
  BY <1>2, <1>3 DEF PasswordEndsSignIns, SignedIn, Current
<1> QED
  BY <1>6, <1>7

LEMMA CommitChanges ==
  ASSUME Sound, Changes, CommitChange
  PROVE  Changes'
<1> USE TokenParts, AuthAssumption DEF Sound, Types, ChangeShape, Changes, Revoking, Accepted
<1>1. /\ change.at = "revoked" /\ password' = password + 1 /\ login' = login
      /\ confirmed' = [f \in Family |-> IF change.op = "change" /\ f = change.by
                                       THEN password + 1 ELSE confirmed[f]]
      /\ live' = live \ change.revoked
      /\ change' = NoChange
      /\ overlapped' = overlapped \cup {f \in Family : login[f] # NoLogin \/ Renewing(f) # {}}
  BY DEF CommitChange, browsers
<1>2. Revoking'
  BY <1>1 DEF NoChange
<1>3. ASSUME NEW f \in Family, SignedIn(f)' PROVE Accepted(f)'
  <2>1. PICK token \in live' : token[1] = f
    BY <1>3 DEF SignedIn, Current
  <2>2. CASE f \in EndedBy(change)
    BY <1>1, <2>1, <2>2
  <2>3. CASE f \notin EndedBy(change)
    <3>1. change.op = "change" /\ f = change.by
      BY <1>1, <2>3 DEF EndedBy
    <3> QED
      BY <1>1, <3>1
  <2> QED
    BY <2>2, <2>3
<1>4. PasswordEndsSignIns'
  BY <1>3 DEF PasswordEndsSignIns
<1> QED
  BY <1>2, <1>4

LEMMA NextChanges == Sound /\ Changes /\ [Next]_vars => Changes'
<1> SUFFICES ASSUME Sound, Changes, [Next]_vars PROVE Changes'
  OBVIOUS
<1>1. ASSUME NEW f \in Family, CreateSession(f) PROVE Changes'
  BY <1>1, CreateChanges
<1>2. ASSUME NEW f \in Family, ListForChange(f) PROVE Changes'
  BY <1>2, AsideChanges DEF ListForChange, List, NoChange, database, browsers, history
<1>3. ASSUME NEW f \in Family, Connect(f) \/ Disconnect(f) PROVE Changes'
  BY <1>3, AsideChanges DEF Connect, Disconnect, database, browsers, history
<1>4. ASSUME NEW f \in Family, NEW b \in Browser, CheckPassword(f, b) PROVE Changes'
  <2>1. \A g \in Family : SignedIn(g) => g # f
    BY <1>4, TokenParts DEF CheckPassword, SignedIn, Current, Sound, Types, Issued
  <2> QED
    BY <1>4, <2>1
       DEF CheckPassword, history, Sound, Types, Changes, Revoking, Accepted, EndedBy,
           PasswordEndsSignIns, SignedIn, Current
<1>5. ASSUME NEW t \in Tab, \/ Renew(t) \/ Reply(t) \/ GiveUp(t) \/ RotateRead(t) \/ RotateReplay(t)
      PROVE  Changes'
  BY <1>5, AsideChanges DEF Renew, Reply, GiveUp, RotateRead, RotateReplay, database, history
<1>6. ASSUME NEW t \in Tab, RotateCommit(t) PROVE Changes'
  BY <1>6, RotateChanges
<1>7. ASSUME NEW t \in Tab, RotateFail(t) PROVE Changes'
  BY <1>7 DEF RotateFail, Sound, Types, ChangeType, Changes, Revoking, Accepted, EndedBy,
              PasswordEndsSignIns, SignedIn, Current, database, history
<1>8. ASSUME RevokeSessions PROVE Changes'
  BY <1>8, RevokeChanges
<1>9. ASSUME CommitChange PROVE Changes'
  BY <1>9, CommitChanges
<1>10. ASSUME FailChange PROVE Changes'
  BY <1>10, AsideChanges DEF FailChange, NoChange, database, browsers, history
<1>11. ASSUME NEW b \in Browser, Logout(b) PROVE Changes'
  BY <1>11, AsideChanges DEF Logout, history
<1>12. ASSUME UNCHANGED vars PROVE Changes'
  BY <1>12, AsideChanges DEF vars, database, browsers, history
<1>13. ASSUME ListForReset PROVE Changes'
  BY <1>13, AsideChanges DEF ListForReset, List, NoChange, database, browsers, history
<1> QED
  BY Steps, <1>1, <1>2, <1>3, <1>4, <1>5, <1>6, <1>7, <1>8, <1>9, <1>10, <1>11, <1>12, <1>13

LEMMA InitChanges == Init => Changes
  BY DEF Init, Changes, Revoking, PasswordEndsSignIns, SignedIn, Current, NoChange

\* After a reset or a change of the password, the sign-ins left are those
\* confirmed with the new one, and those under way while it was made.
THEOREM PasswordsEnd == Spec => []PasswordEndsSignIns
<1>1. Changes => PasswordEndsSignIns
  BY DEF Changes
<1> QED
  BY InitSound, NextSound, InitChanges, NextChanges, <1>1, PTL DEF Spec

-----------------------------------------------------------------------------
(* Sockets                                                                   *)

\* Whom the event of a password change will reach, or the history excuses.
Told ==
  /\ change.at = "listed" => \A f \in EndedBy(change) :
        SignedIn(f) => f \in change.listed \cup untold
  /\ change.at = "revoked" => \A token \in change.revoked : token[1] \in change.listed \cup untold

Events == Told /\ SocketsFollowSignIn

LEMMA InitEvents == Init => Events
  BY DEF Init, Events, Told, SocketsFollowSignIn, NoChange

\* Steps that end no sign-in and leave the sockets alone.
LEMMA AsideEvents ==
  ASSUME Events, UNCHANGED <<live, ending, socket, untold>>,
         change' = change \/ change'.at = "idle"
  PROVE  Events'
  BY DEF Events, Told, SocketsFollowSignIn, SignedIn, Current, EndedBy

\* Steps that end the sign-in f and send its event.
LEMMA EndEvents ==
  ASSUME Events, NEW f, live' = live \ Current(f), ending' = ending \cup {f},
         UNCHANGED <<socket, untold, change>>
  PROVE  Events'
<1>1. \A g \in Family : SignedIn(g)' => SignedIn(g)
  BY DEF SignedIn, Current
<1>2. \A g \in Family : SignedIn(g) => SignedIn(g)' \/ g = f
  BY DEF SignedIn, Current
<1>3. \A g : g # f /\ SignedIn(g) => SignedIn(g)'
  BY DEF SignedIn, Current
<1>4. SocketsFollowSignIn'
  BY <1>3 DEF Events, SocketsFollowSignIn
<1>5. Told'
  BY <1>1 DEF Events, Told, EndedBy
<1> QED
  BY <1>4, <1>5 DEF Events

LEMMA ListEvents ==
  ASSUME Events, NEW op \in ChangeType, List(op)
  PROVE  Events'
<1> DEFINE who == {f \in EndedBy(op) : SignedIn(f)}
<1>1. /\ change' = [op EXCEPT !.at = "listed", !.listed = who]
      /\ UNCHANGED <<live, ending, socket, untold>>
  BY DEF List, database, sockets, history
<1> HIDE DEF who
<1>2. change'.at = "listed" /\ change'.listed = who /\ change'.op = op.op /\ change'.by = op.by
  BY <1>1 DEF ChangeType
<1>3. EndedBy(change)' = EndedBy(op)
  BY <1>2 DEF EndedBy
<1>4. \A f \in Family : SignedIn(f)' = SignedIn(f)
  BY <1>1 DEF SignedIn, Current
<1>5. Told'
  BY <1>2, <1>3, <1>4 DEF Told, EndedBy, who
<1>6. SocketsFollowSignIn'
  BY <1>1 DEF Events, SocketsFollowSignIn, SignedIn, Current
<1> QED
  BY <1>5, <1>6 DEF Events

LEMMA RevokeEvents ==
  ASSUME Sound, Events, RevokeSessions
  PROVE  Events'
<1> USE TokenParts, AuthAssumption DEF Sound, Types
<1> DEFINE seen == {token \in live : token[1] \in EndedBy(change)}
<1>1. /\ change.at = "listed" /\ change'.at = "revoked"
      /\ change'.revoked = seen /\ change'.listed = change.listed
      /\ UNCHANGED <<live, ending, socket, untold>>
  BY DEF RevokeSessions, ChangeType, database, sockets
<1>2. \A token \in seen : token[1] \in EndedBy(change) /\ SignedIn(token[1])
  BY DEF SignedIn, Current
<1>3. Told'
  BY <1>1, <1>2 DEF Events, Told
<1>4. SocketsFollowSignIn'
  BY <1>1 DEF Events, SocketsFollowSignIn, SignedIn, Current
<1> QED
  BY <1>3, <1>4 DEF Events

LEMMA CommitEvents ==
  ASSUME Sound, Events, CommitChange
  PROVE  Events'
<1>1. /\ change.at = "revoked" /\ live' = live \ change.revoked
      /\ ending' = ending \cup change.listed /\ change' = NoChange
      /\ UNCHANGED <<socket, untold>>
  BY DEF CommitChange
<1>2. \A f : SignedIn(f) => SignedIn(f)' \/ f \in change.listed \cup untold
  BY <1>1 DEF Events, Told, SignedIn, Current
<1>3. SocketsFollowSignIn'
  BY <1>1, <1>2 DEF Events, SocketsFollowSignIn
<1>4. Told'
  BY <1>1 DEF Told, NoChange
<1> QED
  BY <1>3, <1>4 DEF Events

LEMMA CreateEvents ==
  ASSUME Sound, Events, NEW f \in Family, CreateSession(f)
  PROVE  Events'
<1>1. /\ live' = live \cup {<<f, 1>>}
      /\ untold' = IF change.at = "listed" THEN untold \cup {f} ELSE untold
      /\ UNCHANGED <<change, ending, socket>>
  BY DEF CreateSession, sockets
<1>2. \A g : SignedIn(g) => SignedIn(g)'
  BY <1>1 DEF SignedIn, Current
<1>3. \A g : SignedIn(g)' => SignedIn(g) \/ g = f
  BY <1>1 DEF SignedIn, Current
<1>4. Told'
  BY <1>1, <1>3 DEF Events, Told, EndedBy
<1> QED
  BY <1>1, <1>2, <1>4 DEF Events, SocketsFollowSignIn

LEMMA RotateEvents ==
  ASSUME Sound, Events, NEW t \in Tab, RotateCommit(t)
  PROVE  Events'
<1> USE TokenParts, AuthAssumption DEF Sound, Types, Shapes
<1> DEFINE token == request[t].token
           f == token[1]
           next == <<f, rows[f] + 1>>
<1>1. /\ live' = (live \ {token}) \cup {next}
      /\ change' = [change EXCEPT !.waits = @ \ {token}]
      /\ untold' = IF change.at = "listed" /\ ~ SignedIn(f) THEN untold \cup {f} ELSE untold
      /\ UNCHANGED <<ending, socket>>
  BY DEF RotateCommit, sockets
<1>2. token \in Token /\ f \in Family /\ next[1] = f
  BY DEF RotateCommit
<1>3. /\ change'.at = change.at /\ change'.op = change.op /\ change'.by = change.by
      /\ change'.revoked = change.revoked /\ change'.listed = change.listed
  BY <1>1 DEF ChangeType
<1> HIDE DEF f, next
<1>4. \A g : SignedIn(g) => SignedIn(g)'
  <2>1. ASSUME NEW g, SignedIn(g) PROVE SignedIn(g)'
    <3>1. PICK other \in live : other[1] = g
      BY <2>1 DEF SignedIn, Current
    <3>2. CASE other = token
      BY <1>1, <1>2, <3>1, <3>2 DEF SignedIn, Current, f
    <3>3. CASE other # token
      BY <1>1, <3>1, <3>3 DEF SignedIn, Current
    <3> QED
      BY <3>2, <3>3
  <2> QED
    BY <2>1
<1>5. \A g : SignedIn(g)' => SignedIn(g) \/ g = f
  BY <1>1, <1>2 DEF SignedIn, Current
<1>6. Told'
  BY <1>1, <1>2, <1>3, <1>5 DEF Events, Told, EndedBy
<1> QED
  BY <1>1, <1>4, <1>6 DEF Events, SocketsFollowSignIn

LEMMA NextEvents == Sound /\ Events /\ [Next]_vars => Events'
<1> SUFFICES ASSUME Sound, Events, [Next]_vars PROVE Events'
  OBVIOUS
<1>1. ASSUME NEW f \in Family, CreateSession(f) PROVE Events'
  BY <1>1, CreateEvents
<1>2. ASSUME NEW f \in Family, ListForChange(f) PROVE Events'
  <2>1. [NoChange EXCEPT !.op = "change", !.by = f] \in ChangeType
    BY DEF NoChange, ChangeType
  <2> QED
    BY <1>2, <2>1, ListEvents DEF ListForChange
<1>3. ASSUME NEW f \in Family, Connect(f) PROVE Events'
  BY <1>3 DEF Connect, Ended, Events, Told, SocketsFollowSignIn, SignedIn, Current, EndedBy,
              database
<1>4. ASSUME NEW f \in Family, Disconnect(f) PROVE Events'
  BY <1>4 DEF Disconnect, Events, Told, SocketsFollowSignIn, SignedIn, Current, EndedBy,
              database, history
<1>5. ASSUME NEW f \in Family, NEW b \in Browser, CheckPassword(f, b) PROVE Events'
  BY <1>5, AsideEvents DEF CheckPassword, sockets, history
<1>6. ASSUME NEW t \in Tab, Renew(t) \/ Reply(t) \/ GiveUp(t) \/ RotateRead(t) PROVE Events'
  BY <1>6, AsideEvents DEF Renew, Reply, GiveUp, RotateRead, database, sockets, history
<1>7. ASSUME NEW t \in Tab, RotateReplay(t) PROVE Events'
  BY <1>7, EndEvents DEF RotateReplay
<1>8. ASSUME NEW t \in Tab, RotateCommit(t) PROVE Events'
  BY <1>8, RotateEvents
<1>9. ASSUME NEW t \in Tab, RotateFail(t) PROVE Events'
  <2>1. /\ change'.at = change.at /\ change'.op = change.op /\ change'.by = change.by
        /\ change'.revoked = change.revoked /\ change'.listed = change.listed
        /\ UNCHANGED <<live, ending, socket, untold>>
    BY <1>9 DEF RotateFail, Sound, Types, ChangeType, database, sockets, history
  <2> QED
    BY <2>1 DEF Events, Told, SocketsFollowSignIn, SignedIn, Current, EndedBy
<1>10. ASSUME ListForReset PROVE Events'
  <2>1. [NoChange EXCEPT !.op = "reset"] \in ChangeType
    BY DEF NoChange, ChangeType
  <2> QED
    BY <1>10, <2>1, ListEvents DEF ListForReset
<1>11. ASSUME RevokeSessions PROVE Events'
  BY <1>11, RevokeEvents
<1>12. ASSUME CommitChange PROVE Events'
  BY <1>12, CommitEvents
<1>13. ASSUME FailChange PROVE Events'
  BY <1>13, AsideEvents DEF FailChange, NoChange, database, sockets, history
<1>14. ASSUME NEW b \in Browser, Logout(b) PROVE Events'
  BY <1>14, EndEvents DEF Logout, history
<1>15. ASSUME UNCHANGED vars PROVE Events'
  BY <1>15, AsideEvents DEF vars, database, sockets, history
<1> QED
  BY Steps, <1>1, <1>2, <1>3, <1>4, <1>5, <1>6, <1>7, <1>8, <1>9, <1>10, <1>11, <1>12,
     <1>13, <1>14, <1>15

\* An open socket belongs to a sign-in that is not ended or whose end is being
\* delivered, except for the late ones that the history records.
THEOREM SocketsFollow == Spec => []SocketsFollowSignIn
<1>1. Events => SocketsFollowSignIn
  BY DEF Events
<1> QED
  BY InitSound, NextSound, InitEvents, NextEvents, <1>1, PTL DEF Spec

-----------------------------------------------------------------------------
(* The tabs of a browser                                                     *)

\* The tabs of a browser renew in turns, but for the renewals given up.
Turns ==
  /\ \A t, u \in lock : BrowserOf[t] = BrowserOf[u] => t = u
  /\ \A t \in Tab : request[t].at \in {"sent", "read"} => t \in lock \/ request[t].token[1] \in lost

\* The tokens of a sign-in are all in one browser.
Home ==
  /\ \A b, c \in Browser : cookie[b] \in Token /\ cookie[c] \in Token
        /\ cookie[b][1] = cookie[c][1] => b = c
  /\ \A t \in Tab, b \in Browser : request[t].token \in Token /\ cookie[b] \in Token
        /\ request[t].token[1] = cookie[b][1] => BrowserOf[t] = b
  /\ \A t, u \in Tab : request[t].token \in Token /\ request[u].token \in Token
        /\ request[t].token[1] = request[u].token[1] => BrowserOf[t] = BrowserOf[u]

\* While no answer was lost, a renewal and a cookie carry the last token, or
\* the answer that brings it is on its way.
Fresh ==
  /\ \A t \in Tab : request[t].token \in Token /\ request[t].token[1] \notin lost
        => request[t].token[2] = rows[request[t].token[1]]
  /\ \A b \in Browser : cookie[b] \in Token /\ cookie[b][1] \notin lost
        => \/ cookie[b][2] = rows[cookie[b][1]]
           \/ \E t \in Tab : request[t].at = "renewed" /\ request[t].token[1] = cookie[b][1]

Tabs == Turns /\ Home /\ Fresh /\ SignInSurvivesTabs

LEMMA InitTabs == Init => Tabs
  BY TokenParts DEF Init, Tabs, Turns, Home, Fresh, SignInSurvivesTabs, NoRequest

LEMMA AsideTabs ==
  ASSUME Tabs, UNCHANGED <<rows, cookie, request, lock, lost, replayed>>
  PROVE  Tabs'
  BY DEF Tabs, Turns, Home, Fresh, SignInSurvivesTabs

LEMMA CreateTabs ==
  ASSUME Sound, Tabs, NEW f \in Family, CreateSession(f)
  PROVE  Tabs'
<1> USE AuthAssumption, TokenParts DEF Sound, Types, Shapes, Tabs
<1>1. /\ rows[f] = 0 /\ login[f] \in Browser
      /\ rows' = [rows EXCEPT ![f] = 1]
      /\ cookie' = [cookie EXCEPT ![login[f]] = <<f, 1>>]
      /\ UNCHANGED <<request, lock, lost, replayed>>
  BY DEF CreateSession, Single
<1>2. <<f, 1>> \in Token /\ <<f, 1>>[1] = f /\ <<f, 1>>[2] = 1
  OBVIOUS
<1>3. /\ \A g \in Family : rows'[g] = IF g = f THEN 1 ELSE rows[g]
      /\ \A b \in Browser : cookie'[b] = IF b = login[f] THEN <<f, 1>> ELSE cookie[b]
  BY <1>1
<1>4. \A t \in Tab : request[t].token \in Token => request[t].token[1] # f
  BY <1>1 DEF Issued
<1>5. \A b \in Browser : cookie[b] \in Token => cookie[b][1] # f
  BY <1>1 DEF Issued
<1>6. Turns' /\ SignInSurvivesTabs'
  BY <1>1 DEF Turns, SignInSurvivesTabs
<1>7. Home'
  BY <1>1, <1>2, <1>3, <1>4, <1>5 DEF Home
<1>8. Fresh'
  BY <1>1, <1>2, <1>3, <1>4, <1>5 DEF Fresh
<1> QED
  BY <1>6, <1>7, <1>8

LEMMA RenewTabs ==
  ASSUME Sound, Tabs, NEW t \in Tab, Renew(t)
  PROVE  Tabs'
<1> USE AuthAssumption, TokenParts DEF Sound, Types, Shapes, Tabs
<1> DEFINE token == cookie[BrowserOf[t]]
<1>1. /\ request[t] = NoRequest /\ token \in Token
      /\ \A u \in lock : BrowserOf[u] # BrowserOf[t]
      /\ request' = [request EXCEPT ![t] = [at |-> "sent", token |-> token]]
      /\ lock' = lock \cup {t}
      /\ UNCHANGED <<rows, cookie, lost, replayed>>
  BY DEF Renew, database, history
<1>2. /\ request'[t].at = "sent" /\ request'[t].token = token
      /\ \A u \in Tab : u # t => request'[u] = request[u]
  BY <1>1
<1>3. token[1] \notin lost => token[2] = rows[token[1]]
  BY <1>1 DEF Fresh, Home
<1>4. \A u \in Tab : request[u].at = "renewed" => u # t
  BY <1>1 DEF NoRequest
<1>5. Turns' /\ SignInSurvivesTabs'
  BY <1>1, <1>2 DEF Turns, SignInSurvivesTabs
<1>6. Home'
  BY <1>1, <1>2 DEF Home
<1>7. Fresh'
  BY <1>1, <1>2, <1>3, <1>4 DEF Fresh
<1> QED
  BY <1>5, <1>6, <1>7

LEMMA ReplyTabs ==
  ASSUME Sound, Tabs, NEW t \in Tab, Reply(t)
  PROVE  Tabs'
<1> USE AuthAssumption, TokenParts DEF Sound, Types, Shapes, Tabs
<1> DEFINE new == IF request[t].at = "renewed" THEN request[t].token ELSE NoToken
<1>1. /\ request[t].at \in {"renewed", "refused"}
      /\ cookie' = [cookie EXCEPT ![BrowserOf[t]] = new]
      /\ request' = [request EXCEPT ![t] = NoRequest]
      /\ lock' = lock \ {t}
      /\ UNCHANGED <<rows, lost, replayed>>
  BY DEF Reply, database, history
<1>2. /\ request'[t] = NoRequest /\ request'[t].at = "idle" /\ request'[t].token \notin Token
      /\ \A u \in Tab : u # t => request'[u] = request[u]
      /\ \A b \in Browser : cookie'[b] = IF b = BrowserOf[t] THEN new ELSE cookie[b]
  BY <1>1 DEF NoRequest
<1>3. new \in Token => new = request[t].token /\ request[t].at = "renewed"
  OBVIOUS
<1>4. Turns' /\ SignInSurvivesTabs'
  BY <1>1, <1>2 DEF Turns, SignInSurvivesTabs
<1> HIDE DEF new
<1>5. Home'
  BY <1>1, <1>2, <1>3 DEF Home
<1>6. ASSUME NEW b \in Browser, cookie'[b] \in Token, cookie'[b][1] \notin lost
      PROVE  \/ cookie'[b][2] = rows[cookie'[b][1]]
             \/ \E u \in Tab : request'[u].at = "renewed" /\ request'[u].token[1] = cookie'[b][1]
  <2>1. CASE b = BrowserOf[t]
    BY <1>2, <1>3, <1>6, <2>1 DEF Fresh
  <2>2. CASE b # BrowserOf[t]
    <3>1. cookie'[b] = cookie[b]
      BY <1>2, <2>2
    <3>2. request[t].token \in Token => request[t].token[1] # cookie[b][1]
      BY <1>6, <2>2, <3>1 DEF Home
    <3>3. request[t].at = "renewed" => request[t].token[1] # cookie[b][1]
      BY <3>2
    <3> QED
      BY <1>2, <1>6, <3>1, <3>3 DEF Fresh
  <2> QED
    BY <2>1, <2>2
<1>7. Fresh'
  BY <1>1, <1>2, <1>6 DEF Fresh
<1> QED
  BY <1>4, <1>5, <1>7

LEMMA GiveUpTabs ==
  ASSUME Sound, Tabs, NEW t \in Tab, GiveUp(t)
  PROVE  Tabs'
<1> USE AuthAssumption, TokenParts DEF Sound, Types, Shapes, Tabs
<1>1. /\ lock' = lock \ {t} /\ lost' = lost \cup {request[t].token[1]}
      /\ UNCHANGED <<rows, cookie, replayed>>
      /\ \A u \in Tab : u # t => request'[u] = request[u]
      /\ \/ request'[t] = request[t] /\ request[t].at \notin {"renewed", "refused"}
         \/ request'[t] = NoRequest
  BY DEF GiveUp, database
<1>2. NoRequest.token \notin Token /\ NoRequest.at = "idle"
  BY DEF NoRequest
<1>3. Turns' /\ SignInSurvivesTabs'
  BY <1>1, <1>2 DEF Turns, SignInSurvivesTabs
<1>4. \A u \in Tab : request'[u].token \in Token => request'[u].token = request[u].token
  BY <1>1, <1>2
<1>5. Home'
  <2>1. cookie' = cookie
    BY <1>1
  <2> QED
    BY <1>4, <2>1 DEF Home
<1>6. Fresh'
  BY <1>1, <1>2 DEF Fresh
<1> QED
  BY <1>3, <1>5, <1>6

\* Steps of t that keep the token it has, or drop a token not yet renewed.
LEMMA DropTabs ==
  ASSUME Sound, Tabs, NEW t \in Tab, UNCHANGED <<rows, lost>>, replayed' \subseteq lost,
         \A u \in Tab : u # t => request'[u] = request[u],
         request[t].at # "renewed",
         \/ request'[t].token = request[t].token /\ request[t].at \in {"sent", "read"}
         \/ request'[t].token = NoToken /\ request'[t].at \notin {"sent", "read"},
         lock' \subseteq lock, \A u \in Tab : u # t /\ u \in lock => u \in lock',
         t \in lock => t \in lock' \/ request'[t].at \notin {"sent", "read"},
         \A b \in Browser : cookie'[b] \in {NoToken, cookie[b]}
  PROVE  Tabs'
<1> USE AuthAssumption, TokenParts DEF Sound, Types, Shapes, Tabs
<1>1. Turns' /\ SignInSurvivesTabs'
  BY DEF Turns, SignInSurvivesTabs
<1>2. \A u \in Tab : request'[u].token \in Token => request'[u].token = request[u].token
  OBVIOUS
<1>3. \A b \in Browser : cookie'[b] \in Token => cookie'[b] = cookie[b]
  OBVIOUS
<1>4. Home'
  BY <1>2, <1>3 DEF Home
<1>5. \A u \in Tab : request[u].at = "renewed" => request'[u] = request[u]
  OBVIOUS
<1>6. Fresh'
  BY <1>2, <1>3, <1>5 DEF Fresh
<1> QED
  BY <1>1, <1>4, <1>6

\* A token that is used already, while its sign-in goes on: an answer was lost.
LEMMA ReplayTabs ==
  ASSUME Sound, Tabs, NEW t \in Tab, RotateReplay(t)
  PROVE  Tabs'
<1> USE AuthAssumption, TokenParts DEF Sound, Types, Shapes, Tabs
<1> DEFINE f == request[t].token[1]
<1>1. /\ request[t].at = "sent" /\ request[t].token \notin live
      /\ replayed' = IF SignedIn(f) THEN replayed \cup {f} ELSE replayed
      /\ request' = [request EXCEPT ![t] =
                        IF t \in lock THEN [at |-> "refused", token |-> NoToken] ELSE NoRequest]
      /\ UNCHANGED <<rows, cookie, lock, lost>>
  BY DEF RotateReplay, Answered
<1>2. SignedIn(f) => f \in lost
  <2>1. SUFFICES ASSUME NEW token \in live, token[1] = f, f \notin lost PROVE FALSE
    BY DEF SignedIn, Current
  <2>2. request[t].token \in Token
    BY <1>1
  <2>3. token[2] = rows[f] /\ request[t].token[2] = rows[f]
    BY <2>1, <2>2 DEF Single, Fresh
  <2>4. token = request[t].token
    <3>1. token = <<token[1], token[2]>>
      OBVIOUS
    <3>2. request[t].token = <<request[t].token[1], request[t].token[2]>>
      BY <2>2
    <3> QED
      BY <2>1, <2>3, <3>1, <3>2
  <2> QED
    BY <1>1, <2>4
<1>3. replayed' \subseteq lost
  BY <1>1, <1>2 DEF SignInSurvivesTabs
<1>4. /\ request'[t].token = NoToken /\ request'[t].at \notin {"sent", "read"}
      /\ \A u \in Tab : u # t => request'[u] = request[u]
  BY <1>1 DEF NoRequest
<1> QED
  BY <1>1, <1>3, <1>4, DropTabs

LEMMA CommitTabs ==
  ASSUME Sound, Tabs, NEW t \in Tab, RotateCommit(t)
  PROVE  Tabs'
<1> USE AuthAssumption, TokenParts DEF Sound, Types, Shapes, Tabs
<1> DEFINE f == request[t].token[1]
           next == <<f, rows[f] + 1>>
<1>1. /\ request[t].at = "read" /\ rows[f] < MaxRows
      /\ rows' = [rows EXCEPT ![f] = @ + 1]
      /\ request' = [request EXCEPT ![t] =
                        IF t \in lock THEN [at |-> "renewed", token |-> next] ELSE NoRequest]
      /\ UNCHANGED <<cookie, lock, lost, replayed>>
  BY DEF RotateCommit, Answered
<1>2. /\ f \in Family /\ rows[f] \in Nat /\ rows[f] + 1 \in 1 .. MaxRows
  BY <1>1
<1>3. next \in Token /\ next[1] = f /\ next[2] = rows[f] + 1
  BY <1>2
<1>4. /\ \A g \in Family : rows'[g] = IF g = f THEN rows[f] + 1 ELSE rows[g]
      /\ \A u \in Tab : u # t => request'[u] = request[u]
      /\ t \in lock => request'[t].at = "renewed" /\ request'[t].token = next
      /\ t \notin lock => request'[t].at = "idle" /\ request'[t].token = NoToken
  BY <1>1, <1>2 DEF NoRequest
<1>5. t \in lock \/ f \in lost
  BY <1>1 DEF Turns
<1>6. ASSUME NEW u \in Tab, u # t, request[u].token \in Token, request[u].token[1] = f
      PROVE  f \in lost
  <2>1. BrowserOf[u] = BrowserOf[t]
    BY <1>1, <1>6 DEF Home
  <2>2. request[u].at \in {"sent", "read", "renewed"}
    BY <1>6
  <2>3. u \in lock \/ f \in lost
    BY <1>6, <2>2 DEF Turns
  <2> QED
    BY <1>5, <1>6, <2>1, <2>3 DEF Turns
<1>7. request[t].token \in Token /\ request[t].token[1] = f
  BY <1>1
<1> HIDE DEF f, next
<1>8. Turns' /\ SignInSurvivesTabs'
  BY <1>1, <1>4 DEF Turns, SignInSurvivesTabs
<1>9. Home'
  BY <1>1, <1>3, <1>4, <1>7 DEF Home
<1>10. Fresh'
  <2>1. ASSUME NEW u \in Tab, request'[u].token \in Token, request'[u].token[1] \notin lost
        PROVE  request'[u].token[2] = rows'[request'[u].token[1]]
    <3>1. CASE u = t
      BY <1>2, <1>3, <1>4, <2>1, <3>1
    <3>2. CASE u # t
      BY <1>2, <1>4, <1>6, <2>1, <3>2 DEF Fresh
    <3> QED
      BY <3>1, <3>2
  <2>2. ASSUME NEW b \in Browser, cookie[b] \in Token, cookie[b][1] \notin lost
        PROVE  \/ cookie[b][2] = rows'[cookie[b][1]]
               \/ \E u \in Tab : request'[u].at = "renewed" /\ request'[u].token[1] = cookie[b][1]
    <3>1. CASE cookie[b][1] = f
      BY <1>3, <1>4, <1>5, <2>2, <3>1
    <3>2. CASE cookie[b][1] # f
      BY <1>1, <1>2, <1>4, <2>2, <3>2 DEF Fresh
    <3> QED
      BY <3>1, <3>2
  <2> QED
    BY <1>1, <2>1, <2>2 DEF Fresh
<1> QED
  BY <1>8, <1>9, <1>10

LEMMA NextTabs == Sound /\ Tabs /\ [Next]_vars => Tabs'
<1> SUFFICES ASSUME Sound, Tabs, [Next]_vars PROVE Tabs'
  OBVIOUS
<1>1. ASSUME NEW f \in Family, CreateSession(f) PROVE Tabs'
  BY <1>1, CreateTabs
<1>2. ASSUME NEW f \in Family, ListForChange(f) \/ Connect(f) \/ Disconnect(f) PROVE Tabs'
  BY <1>2, AsideTabs DEF ListForChange, List, Connect, Disconnect, database, browsers, history
<1>3. ASSUME NEW f \in Family, NEW b \in Browser, CheckPassword(f, b) PROVE Tabs'
  BY <1>3, AsideTabs DEF CheckPassword, history
<1>4. ASSUME NEW t \in Tab, Renew(t) PROVE Tabs'
  BY <1>4, RenewTabs
<1>5. ASSUME NEW t \in Tab, Reply(t) PROVE Tabs'
  BY <1>5, ReplyTabs
<1>6. ASSUME NEW t \in Tab, GiveUp(t) PROVE Tabs'
  BY <1>6, GiveUpTabs
<1>7. ASSUME NEW t \in Tab, RotateRead(t) PROVE Tabs'
  <2>1. request'[t].token = request[t].token /\ \A u \in Tab : u # t => request'[u] = request[u]
    BY <1>7 DEF RotateRead, Sound, Types
  <2>2. replayed' \subseteq lost
    BY <1>7 DEF RotateRead, history, Tabs, SignInSurvivesTabs
  <2> QED
    BY <1>7, <2>1, <2>2, DropTabs DEF RotateRead, database, history
<1>8. ASSUME NEW t \in Tab, RotateReplay(t) PROVE Tabs'
  BY <1>8, ReplayTabs
<1>9. ASSUME NEW t \in Tab, RotateCommit(t) PROVE Tabs'
  BY <1>9, CommitTabs
<1>10. ASSUME NEW t \in Tab, RotateFail(t) PROVE Tabs'
  <2>1. /\ request'[t] = NoRequest /\ request'[t].token = NoToken /\ request'[t].at = "idle"
        /\ \A u \in Tab : u # t => request'[u] = request[u]
    BY <1>10 DEF RotateFail, Sound, Types, NoRequest
  <2>2. replayed' \subseteq lost
    BY <1>10 DEF RotateFail, history, Tabs, SignInSurvivesTabs
  <2> QED
    BY <1>10, <2>1, <2>2, DropTabs DEF RotateFail, database, history
<1>11. ASSUME ListForReset \/ RevokeSessions \/ CommitChange \/ FailChange PROVE Tabs'
  BY <1>11, AsideTabs
     DEF ListForReset, List, RevokeSessions, CommitChange, FailChange, database, browsers, history
<1>12. ASSUME NEW b \in Browser, Logout(b) PROVE Tabs'
  <2>1. /\ \A c \in Browser : cookie'[c] \in {NoToken, cookie[c]}
        /\ UNCHANGED <<rows, request, lock, lost, replayed>>
    BY <1>12 DEF Logout, history, Sound, Types
  <2> QED
    BY <2>1, TokenParts DEF Tabs, Turns, Home, Fresh, SignInSurvivesTabs
<1>13. ASSUME UNCHANGED vars PROVE Tabs'
  BY <1>13, AsideTabs DEF vars, database, browsers, history
<1> QED
  BY Steps, <1>1, <1>2, <1>3, <1>4, <1>5, <1>6, <1>7, <1>8, <1>9, <1>10, <1>11, <1>12, <1>13

\* The tabs of a browser never end their own sign-in by renewing with the same
\* token: only after an answer got lost does a replay end one.
THEOREM SignInsSurvive == Spec => []SignInSurvivesTabs
<1>1. Tabs => SignInSurvivesTabs
  BY DEF Tabs
<1> QED
  BY InitSound, NextSound, InitTabs, NextTabs, <1>1, PTL DEF Spec

=============================================================================
