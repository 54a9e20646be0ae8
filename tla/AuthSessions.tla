---------------------------- MODULE AuthSessions ----------------------------
(***************************************************************************)
(* The sign-ins of one account: families of refresh tokens, of which a       *)
(* renewal exchanges the current one for the next; the browsers whose tabs   *)
(* share the token in a cookie; logout, the password reset and the password  *)
(* change that end sign-ins; and the sockets opened under a sign-in, which   *)
(* are told when it ends.                                                    *)
(*                                                                           *)
(* A renewal is a request, a read under the lock of the family's root row, a *)
(* commit and a reply. A password change is two statements that read at      *)
(* different times, and its commit. A login checks the password and starts   *)
(* the session in two steps. Codes and tokens of the email flows, expiry and *)
(* the wrong-password pause are left out.                                    *)
(***************************************************************************)
EXTENDS Integers, FiniteSets

CONSTANTS
    Browser,      \* cookie jars
    Tab,          \* tabs, each with one renewal at a time
    BrowserOf,    \* [Tab -> Browser]
    Family,       \* ids a sign-in can have
    NoFamily,     \* no sign-in
    MaxRows,      \* bound: refresh tokens of one sign-in
    MaxPasswords  \* bound: passwords the account has had

ASSUME AuthAssumption ==
    /\ BrowserOf \in [Tab -> Browser]
    /\ IsFiniteSet(Family) /\ NoFamily \notin Family
    /\ MaxRows \in Nat \ {0} /\ MaxPasswords \in Nat \ {0}

VARIABLES
    rows,       \* [Family -> number of refresh tokens issued, 0 before sign-in]
    live,       \* refresh tokens not revoked, as committed
    password,   \* number of the current password
    confirmed,  \* [Family -> password the sign-in was last confirmed with]
    login,      \* [Family -> browser whose login has checked the password]
    cookie,     \* [Browser -> its refresh token]
    request,    \* [Tab -> its renewal]
    lock,       \* tabs that hold their browser's renewal lock
    change,     \* the password reset or change under way
    ending,     \* sign-ins with an authSessionsRevoked event to deliver
    socket,     \* sign-ins with an open socket
    lost,       \* history: sign-ins with a renewal whose answer nobody awaited
    replayed,   \* history: sign-ins that the replay of a used token ended
    overlapped, \* history: sign-ins that a login or renewal under way was
                \* starting or renewing while passwords changed
    untold      \* history: sign-ins with a socket opened after their end, or
                \* started, or brought back by a renewal, after a password
                \* change listed whom to disconnect

database == <<rows, live, password, confirmed>>
browsers == <<login, cookie, request, lock>>
sockets == <<ending, socket>>
history == <<lost, replayed, overlapped, untold>>
vars == <<database, browsers, change, sockets, history>>

NoLogin == NoFamily
Token == Family \X (1 .. MaxRows)
NoToken == <<NoFamily, 0>>
NoRequest == [at |-> "idle", token |-> NoToken]
NoChange == [op |-> "none", at |-> "idle", by |-> NoFamily,
             listed |-> {}, revoked |-> {}, waits |-> {}]

Current(f) == {token \in live : token[1] = f}
SignedIn(f) == Current(f) # {}
Ended(f) == rows[f] > 0 /\ ~ SignedIn(f)

\* Renewals that hold the lock of f's root row.
Renewing(f) == {t \in Tab : request[t].at = "read" /\ request[t].token[1] = f}

\* Rows a password change has updated and not committed.
Pending == IF change.at = "revoked" THEN change.revoked ELSE {}

\* The root row of f, its first token, is free.
RootFree(f) == Renewing(f) = {} /\ <<f, 1>> \notin Pending

-----------------------------------------------------------------------------
Init ==
    /\ rows = [f \in Family |-> 0]
    /\ live = {}
    /\ password = 1
    /\ confirmed = [f \in Family |-> 0]
    /\ login = [f \in Family |-> NoLogin]
    /\ cookie = [b \in Browser |-> NoToken]
    /\ request = [t \in Tab |-> NoRequest]
    /\ lock = {}
    /\ change = NoChange
    /\ ending = {} /\ socket = {}
    /\ lost = {} /\ replayed = {} /\ overlapped = {} /\ untold = {}

(* login, first half: the password of the moment is verified.                *)
CheckPassword(f, b) ==
    /\ rows[f] = 0 /\ confirmed[f] = 0
    /\ login' = [login EXCEPT ![f] = b]
    /\ confirmed' = [confirmed EXCEPT ![f] = password]
    /\ UNCHANGED <<rows, live, password, cookie, request, lock, change, sockets, history>>

(* createSession and the cookies of the answer. Between the two statements   *)
(* of a password change it is revoked and not listed; between the second one *)
(* and the commit it is not revoked.                                         *)
CreateSession(f) ==
    /\ login[f] # NoLogin
    /\ rows' = [rows EXCEPT ![f] = 1]
    /\ live' = live \cup {<<f, 1>>}
    /\ cookie' = [cookie EXCEPT ![login[f]] = <<f, 1>>]
    /\ login' = [login EXCEPT ![f] = NoLogin]
    /\ overlapped' = IF change.at = "revoked" THEN overlapped \cup {f} ELSE overlapped
    /\ untold' = IF change.at = "listed" THEN untold \cup {f} ELSE untold
    /\ UNCHANGED <<password, confirmed, request, lock, change, sockets, lost, replayed>>

-----------------------------------------------------------------------------
(* Renewal, in the browser                                                   *)

\* A mutation of Renew: tabs do not take turns.
RenewTogether(t) ==
    /\ request[t] = NoRequest
    /\ cookie[BrowserOf[t]] # NoToken
    /\ request' = [request EXCEPT ![t] = [at |-> "sent", token |-> cookie[BrowserOf[t]]]]
    /\ lock' = lock \cup {t}
    /\ UNCHANGED <<database, login, cookie, change, sockets, history>>

(* refreshSession: one tab of a browser at a time. A tab that finds the      *)
(* renewal of another one skips its own and changes nothing.                 *)
Renew(t) ==
    /\ request[t] = NoRequest
    /\ \A u \in lock : BrowserOf[u] # BrowserOf[t]
    /\ cookie[BrowserOf[t]] # NoToken
    /\ request' = [request EXCEPT ![t] = [at |-> "sent", token |-> cookie[BrowserOf[t]]]]
    /\ lock' = lock \cup {t}
    /\ UNCHANGED <<database, login, cookie, change, sockets, history>>

(* The answer sets the cookies of the whole browser: the next token, or none *)
(* when the API refused.                                                     *)
Reply(t) ==
    LET answer == request[t] IN
    /\ answer.at \in {"renewed", "refused"}
    /\ cookie' = [cookie EXCEPT ![BrowserOf[t]] =
                     IF answer.at = "renewed" THEN answer.token ELSE NoToken]
    /\ request' = [request EXCEPT ![t] = NoRequest]
    /\ lock' = lock \ {t}
    /\ UNCHANGED <<database, login, change, sockets, history>>

(* The request times out, or its page goes away: the lock is free and the    *)
(* API may still be at it.                                                   *)
GiveUp(t) ==
    /\ t \in lock
    /\ lock' = lock \ {t}
    /\ lost' = lost \cup {request[t].token[1]}
    /\ request' = IF request[t].at \in {"renewed", "refused"}
                  THEN [request EXCEPT ![t] = NoRequest] ELSE request
    /\ UNCHANGED <<database, login, cookie, change, sockets,
                   replayed, overlapped, untold>>

-----------------------------------------------------------------------------
(* Renewal, in the API                                                       *)

Answered(t, at, token) ==
    request' = [request EXCEPT ![t] =
                   IF t \in lock THEN [at |-> at, token |-> token] ELSE NoRequest]

(* rotate: with the root row locked, the token is read once more.            *)
RotateRead(t) ==
    /\ request[t].at = "sent"
    /\ request[t].token \in live
    /\ RootFree(request[t].token[1])
    /\ request' = [request EXCEPT ![t].at = "read"]
    /\ UNCHANGED <<database, login, cookie, lock, change, sockets, history>>

\* A mutation of RotateReplay: no event follows the revocation.
RotateReplaySilent(t) ==
    LET f == request[t].token[1] IN
    /\ request[t].at = "sent"
    /\ request[t].token \notin live
    /\ RootFree(f) /\ Current(f) \cap Pending = {}
    /\ live' = live \ Current(f)
    /\ replayed' = IF SignedIn(f) THEN replayed \cup {f} ELSE replayed
    /\ Answered(t, "refused", NoToken)
    /\ UNCHANGED <<rows, password, confirmed, login, cookie, lock, change,
                   ending, socket, lost, overlapped, untold>>

(* rotate of a used token: what is left of the family is revoked.            *)
RotateReplay(t) ==
    LET f == request[t].token[1] IN
    /\ request[t].at = "sent"
    /\ request[t].token \notin live
    /\ RootFree(f) /\ Current(f) \cap Pending = {}
    /\ live' = live \ Current(f)
    /\ replayed' = IF SignedIn(f) THEN replayed \cup {f} ELSE replayed
    /\ ending' = ending \cup {f}
    /\ Answered(t, "refused", NoToken)
    /\ UNCHANGED <<rows, password, confirmed, login, cookie, lock, change,
                   socket, lost, overlapped, untold>>

\* A mutation of RotateCommit: the next token is handed out and not stored.
RotateCommitUnsaved(t) ==
    LET f == request[t].token[1] IN
    /\ request[t].at = "read"
    /\ rows[f] < MaxRows
    /\ request[t].token \notin Pending \/ request[t].token \in change.waits
    /\ live' = live \ {request[t].token}
    /\ change' = [change EXCEPT !.waits = @ \ {request[t].token}]
    /\ Answered(t, "renewed", <<f, rows[f] + 1>>)
    /\ UNCHANGED <<rows, password, confirmed, login, cookie, lock, sockets, history>>

(* The used token is revoked and the next one created; the row is not read   *)
(* again, even if it was revoked while the update waited for it.             *)
RotateCommit(t) ==
    LET f == request[t].token[1]
        next == <<f, rows[f] + 1>>
    IN
    /\ request[t].at = "read"
    /\ rows[f] < MaxRows
    /\ request[t].token \notin Pending \/ request[t].token \in change.waits
    /\ rows' = [rows EXCEPT ![f] = @ + 1]
    /\ live' = (live \ {request[t].token}) \cup {next}
    /\ change' = [change EXCEPT !.waits = @ \ {request[t].token}]
    /\ Answered(t, "renewed", next)
    /\ untold' = IF change.at = "listed" /\ ~ SignedIn(f) THEN untold \cup {f} ELSE untold
    /\ UNCHANGED <<password, confirmed, login, cookie, lock, sockets, lost,
                   replayed, overlapped>>

(* The transaction fails: nothing changed, and the client is told so.        *)
RotateFail(t) ==
    /\ request[t].at = "read"
    /\ request' = [request EXCEPT ![t] = NoRequest]
    /\ lock' = lock \ {t}
    /\ change' = [change EXCEPT !.waits = @ \ {request[t].token}]
    /\ UNCHANGED <<database, login, cookie, sockets, history>>

-----------------------------------------------------------------------------
(* Ending sign-ins                                                           *)

\* A mutation of Logout: it does not lock the root row.
LogoutUnlocked(b) ==
    LET f == cookie[b][1] IN
    /\ cookie[b] # NoToken
    /\ live' = live \ Current(f)
    /\ ending' = ending \cup {f}
    /\ cookie' = [cookie EXCEPT ![b] = NoToken]
    /\ UNCHANGED <<rows, password, confirmed, login, request, lock, change,
                   socket, history>>

(* revokeFamily, its event, and the answer that clears the cookies.          *)
Logout(b) ==
    LET f == cookie[b][1] IN
    /\ cookie[b] # NoToken
    /\ RootFree(f) /\ Current(f) \cap Pending = {}
    /\ live' = live \ Current(f)
    /\ ending' = ending \cup {f}
    /\ cookie' = [cookie EXCEPT ![b] = NoToken]
    /\ UNCHANGED <<rows, password, confirmed, login, request, lock, change,
                   socket, history>>

\* The sign-ins that op ends: every one, or all but the one it comes from.
EndedBy(op) == {f \in Family : op.op = "reset" \/ f # op.by}

List(op) ==
    /\ change = NoChange /\ password < MaxPasswords
    /\ change' = [op EXCEPT !.at = "listed", !.listed = {f \in EndedBy(op) : SignedIn(f)}]
    /\ UNCHANGED <<database, browsers, sockets, history>>

(* resetPassword, first statement: the families to disconnect. The token was *)
(* checked before.                                                           *)
ListForReset == List([NoChange EXCEPT !.op = "reset"])

(* The same of changePassword. The sign-in f that asks was authenticated and *)
(* the password confirmed before the new one was hashed and the transaction  *)
(* began, neither is looked at again: f may have ended, and the password     *)
(* changed, since.                                                           *)
ListForChange(f) ==
    /\ rows[f] > 0
    /\ List([NoChange EXCEPT !.op = "change", !.by = f])

\* A mutation of RevokeSessions: only the families that were listed.
RevokeListed ==
    LET seen == {token \in live : token[1] \in change.listed}
        under == {token \in seen : \E t \in Renewing(token[1]) : request[t].token = token}
    IN
    /\ change.at = "listed"
    /\ \E some \in SUBSET under :
          LET first == some \cup {token \in under : token[2] = 1} IN
          /\ change' = [change EXCEPT !.at = "revoked", !.revoked = seen, !.waits = first]
          /\ overlapped' = overlapped \cup {token[1] : token \in first}
    /\ UNCHANGED <<database, browsers, sockets, lost, replayed, untold>>

(* Last statement: the rows this one sees. A renewal that has locked such a  *)
(* row, the root or one it has already updated, commits first: the statement *)
(* waits for it and does not see the row the renewal adds.                   *)
RevokeSessions ==
    LET seen == {token \in live : token[1] \in EndedBy(change)}
        under == {token \in seen : \E t \in Renewing(token[1]) : request[t].token = token}
    IN
    /\ change.at = "listed"
    /\ \E some \in SUBSET under :
          LET first == some \cup {token \in under : token[2] = 1} IN
          /\ change' = [change EXCEPT !.at = "revoked", !.revoked = seen, !.waits = first]
          /\ overlapped' = overlapped \cup {token[1] : token \in first}
    /\ UNCHANGED <<database, browsers, sockets, lost, replayed, untold>>

(* Commit of either transaction, then the event for the listed families.     *)
CommitChange ==
    /\ change.at = "revoked"
    /\ change.waits = {}
    /\ password' = password + 1
    /\ confirmed' = [f \in Family |-> IF change.op = "change" /\ f = change.by
                                     THEN password + 1 ELSE confirmed[f]]
    /\ live' = live \ change.revoked
    /\ ending' = ending \cup change.listed
    /\ change' = NoChange
    /\ overlapped' = overlapped \cup {f \in Family : login[f] # NoLogin \/ Renewing(f) # {}}
    /\ UNCHANGED <<rows, browsers, socket, lost, replayed, untold>>

FailChange ==
    /\ change # NoChange
    /\ change' = NoChange
    /\ UNCHANGED <<database, browsers, sockets, history>>

-----------------------------------------------------------------------------
(* Sockets                                                                   *)

(* The handshake checks the ticket, which a sign-in was given at most 60     *)
(* seconds ago, not the sign-in.                                             *)
Connect(f) ==
    /\ rows[f] > 0 /\ f \notin socket
    /\ socket' = socket \cup {f}
    /\ untold' = IF Ended(f) THEN untold \cup {f} ELSE untold
    /\ UNCHANGED <<database, browsers, change, ending, lost, replayed, overlapped>>

(* authSessionsRevoked: everything in the sign-in's room is disconnected.    *)
Disconnect(f) ==
    /\ f \in ending
    /\ ending' = ending \ {f}
    /\ socket' = socket \ {f}
    /\ UNCHANGED <<database, browsers, change, history>>

-----------------------------------------------------------------------------
SigningIn == \E f \in Family : CreateSession(f) \/ \E b \in Browser : CheckPassword(f, b)
Renewals == \E t \in Tab :
    \/ Renew(t) \/ Reply(t) \/ GiveUp(t)
    \/ RotateRead(t) \/ RotateReplay(t) \/ RotateCommit(t) \/ RotateFail(t)
Passwords ==
    \/ \E f \in Family : ListForChange(f)
    \/ ListForReset \/ RevokeSessions \/ CommitChange \/ FailChange
Sockets == \E f \in Family : Connect(f) \/ Disconnect(f)

Next ==
    \/ SigningIn
    \/ Renewals
    \/ Passwords
    \/ Sockets
    \/ \E b \in Browser : Logout(b)

Spec == Init /\ [][Next]_vars

-----------------------------------------------------------------------------
(* What should hold                                                          *)

ChangeType ==
    [op : {"none", "reset", "change"}, at : {"idle", "listed", "revoked"},
     by : Family \cup {NoFamily},
     listed : SUBSET Family, revoked : SUBSET Token, waits : SUBSET Token]

(* Types, and: a cookie and a renewal carry only tokens that were issued.    *)
TypeOK ==
    /\ rows \in [Family -> 0 .. MaxRows]
    /\ live \in SUBSET Token
    /\ password \in 1 .. MaxPasswords
    /\ confirmed \in [Family -> 0 .. MaxPasswords]
    /\ login \in [Family -> Browser \cup {NoLogin}]
    /\ cookie \in [Browser -> Token \cup {NoToken}]
    /\ request \in [Tab -> [at : {"idle", "sent", "read", "renewed", "refused"},
                            token : Token \cup {NoToken}]]
    /\ lock \subseteq Tab
    /\ change \in ChangeType
    /\ {ending, socket, lost, replayed, overlapped, untold}
          \subseteq SUBSET (Family \cup {NoFamily})
    /\ \A token \in live \cup {cookie[b] : b \in Browser}
                         \cup {request[t].token : t \in Tab} :
          token # NoToken => token[2] <= rows[token[1]]

(* A sign-in that logout, a replayed token or a password change ended is     *)
(* never signed in again, except by a renewal that was under way while the   *)
(* passwords changed: renewals and logout are serialized on the root row,    *)
(* password changes are not.                                                 *)
EndedStaysEnded ==
    [][\A f \in Family : Ended(f) /\ f \notin overlapped => ~ SignedIn(f)']_vars

(* After a reset or a password change, the sign-ins left are those confirmed *)
(* with the new password, those that kept theirs by making the change, and   *)
(* those whose login or renewal was under way while it was made.             *)
PasswordEndsSignIns ==
    \A f \in Family : SignedIn(f) => confirmed[f] = password \/ f \in overlapped

(* The tabs of a browser never end their own sign-in by renewing with the    *)
(* same token: a replay ends one only after an answer got lost.              *)
SignInSurvivesTabs == replayed \subseteq lost

(* An open socket belongs to a sign-in that is not ended, or whose end is    *)
(* still being delivered, except when the handshake came after the end, or   *)
(* when a password change had listed whom to disconnect before the sign-in   *)
(* started or a renewal that was under way brought it back.                  *)
SocketsFollowSignIn ==
    \A f \in socket : SignedIn(f) \/ f \in ending \cup untold

=============================================================================
