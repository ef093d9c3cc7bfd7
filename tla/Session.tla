------------------------------- MODULE Session -------------------------------
(***************************************************************************)
(* Sessions: the token on a device (session_provider.dart,                 *)
(* api_client.dart), the accounts and the guard that decide whether it is  *)
(* good (routes/auth.ts, lib/authGuard.ts, scripts/user.ts), and what the  *)
(* device keeps for the person who used it last, of which the lines that   *)
(* wait to be sent matter most (capture_queue_providers.dart).             *)
(*                                                                         *)
(* The store of the token performs and answers its calls in the order they *)
(* were made, and any of them may fail.  Everything else may come back     *)
(* late: an answer to a request of the session before, the call of a       *)
(* sign-out, a pass over the queue.  Each person captures at most one      *)
(* line, which is named by the person.                                     *)
(***************************************************************************)
EXTENDS Naturals, FiniteSets

CONSTANTS
  Users,      \* accounts, and the one line that each of them captures
  MaxLogins,  \* bound: no more tokens than this are issued
  MaxAsked,   \* bound: no more requests than this wait for an answer,
              \* or were refused without the app being signed out
  Null

Tokens == [user : Users, n : 1..MaxLogins]

ASSUME SessionAssumption == Null \notin Users \cup Tokens /\ MaxLogins \in Nat

VARIABLES
  active,    \* the accounts that are not disabled
  expired,   \* tokens whose 30 days are over
  issued,    \* the tokens that were signed
  inbox,     \* the lines the server has of each person
  \* the device:
  disk,      \* the token in the store
  owner,     \* lastUserId
  queue,     \* the file of the capture queue
  \* the app, while it runs:
  status,    \* "off", "signedIn" or "signedOut"
  person,    \* who signed in to the app that is open, or Null
  token,     \* the token that requests are sent with
  held,      \* the lines in memory
  asked,     \* tokens of the requests under way, one of each
  signing,   \* the sign-in under way
  leaving,   \* has the button been pressed, and the call not come back?
  ending,    \* how many erasures of the token are to be followed by "signedOut"
  pass,      \* the pass over the queue under way
  \* for the properties:
  captured,  \* who captured a line
  wiped,     \* which line was wiped at whose sign-in: Null where the device
             \* did not know its owner
  spared,    \* lines of another person that a wipe failed to delete
  crossed,   \* was the token in memory installed with a sign-out under way?
  calm       \* does a sign-in begin only when nothing of the session before is
             \* under way, and is it never cut off half-way?  Fixed at Init

server == <<active, expired, issued, inbox>>
device == <<disk, owner, queue>>
app == <<status, person, token, held, asked, signing, leaving, ending, pass>>
vars == <<server, device, app, captured, wiped, spared, crossed, calm>>

NoSignIn == [at |-> "idle"]
NoPass == [at |-> "idle"]

Closed ==
  /\ status' = "off" /\ person' = Null /\ token' = Null /\ held' = {} /\ asked' = {}
  /\ signing' = NoSignIn /\ leaving' = FALSE /\ ending' = 0 /\ pass' = NoPass

Init ==
  /\ active = Users /\ expired = {} /\ issued = {} /\ inbox = [u \in Users |-> {}]
  /\ disk = Null /\ owner = Null /\ queue = {}
  /\ status = "off" /\ person = Null /\ token = Null /\ held = {} /\ asked = {}
  /\ signing = NoSignIn /\ leaving = FALSE /\ ending = 0 /\ pass = NoPass
  /\ captured = {} /\ wiped = {} /\ spared = {} /\ crossed = FALSE /\ calm \in BOOLEAN

Still == UNCHANGED <<captured, wiped, spared, crossed, calm>>

-----------------------------------------------------------------------------
(* The server.                                                             *)

Valid(t) == t # Null /\ t \notin expired /\ t.user \in active

SetDisabled(u) ==
  /\ active' = IF u \in active THEN active \ {u} ELSE active \cup {u}
  /\ UNCHANGED <<expired, issued, inbox, device, app>> /\ Still

(* Of a token that the device has or has sent: no other is asked about.     *)
Expire(t) ==
  /\ t \in ({disk, token} \cup asked) \ {Null} /\ t \notin expired
  /\ expired' = expired \cup {t}
  /\ UNCHANGED <<active, issued, inbox, device, app>> /\ Still

-----------------------------------------------------------------------------
(* The end of a session.                                                   *)

Forget_DiskOnly ==
  /\ disk' = Null /\ token' = token /\ ending' = ending + 1

(* _forgetToken, whose erasure may fail unheard; "signedOut" follows when  *)
(* the store has answered.                                                 *)
Forget ==
  /\ token' = Null
  /\ disk' \in {disk, Null}
  /\ ending' = ending + 1

(* _handleUnauthorized: nothing if signed out already.                     *)
HandleUnauthorized ==
  IF status = "signedIn" THEN Forget ELSE UNCHANGED <<token, disk, ending>>

(* The store answers in order: not before a write begun earlier.            *)
Ended ==
  /\ ending > 0 /\ signing.at # "writing"
  /\ ending' = ending - 1 /\ status' = "signedOut" /\ person' = Null
  /\ UNCHANGED <<server, device, token, held, asked, signing, leaving, pass>> /\ Still

(* The button; logout needs no token, and its failure is ignored.          *)
SignOut ==
  /\ status = "signedIn" /\ ~leaving /\ ending < MaxAsked
  /\ leaving' = TRUE
  /\ UNCHANGED <<server, device, status, person, token, held, asked, signing, ending, pass>> /\ Still

LogoutReturns ==
  /\ leaving /\ leaving' = FALSE
  /\ Forget
  /\ UNCHANGED <<server, owner, queue, status, person, held, asked, signing, pass>> /\ Still

(* Any request of the screens, and the probe of GET /auth/me.              *)
Ask ==
  /\ status = "signedIn" /\ Cardinality(asked) + ending < MaxAsked
  /\ asked' = asked \cup {token}
  /\ UNCHANGED <<server, device, status, person, token, held, signing, leaving, ending, pass>> /\ Still

Answered(t) ==
  /\ t \in asked /\ asked' = asked \ {t}
  /\ \/ UNCHANGED <<disk, token, ending>>
     \/ ~Valid(t) /\ HandleUnauthorized
  /\ UNCHANGED <<server, owner, queue, status, person, held, signing, leaving, pass>> /\ Still

-----------------------------------------------------------------------------
(* The beginning of a session.                                             *)

(* Session.build: a stored token opens the app, and is probed behind it;   *)
(* an install whose owner is not known, or cannot be read, adopts the      *)
(* token's.  A token that cannot be read counts as none, and is erased, if *)
(* that can be done.  (An adoption that fails ends the launch: left out.)  *)
Launch ==
  /\ status = "off" /\ held' = queue
  /\ \/ /\ disk # Null /\ token' = disk /\ asked' = {disk}
        /\ status' = "signedIn" /\ person' = disk.user
        /\ \E read \in {owner, Null} : owner' = IF read = Null THEN disk.user ELSE owner
        /\ UNCHANGED disk
     \/ /\ token' = Null /\ disk' \in {disk, Null}
        /\ status' = "signedOut" /\ UNCHANGED <<person, asked, owner>>
  /\ UNCHANGED <<server, queue, signing, leaving, ending, pass>> /\ Still

(* POST /auth/login: the account is read, the password compared -- which   *)
(* takes a while -- and a token signed.                                    *)
SignIn(u) ==
  /\ status = "signedOut" /\ signing = NoSignIn /\ u \in active /\ Cardinality(issued) < MaxLogins
  /\ calm => asked = {} /\ ~leaving /\ ending = 0 /\ pass = NoPass
  /\ signing' = [at |-> "compared", user |-> u]
  /\ UNCHANGED <<server, device, status, person, token, held, asked, leaving, ending, pass>> /\ Still

(* The answer is lost, or the password wrong, or the write fails and       *)
(* leaves the store as it was: the login screen says so.                   *)
SignInFails ==
  /\ signing.at = "compared" /\ signing' = NoSignIn
  /\ UNCHANGED <<server, device, status, person, token, held, asked, leaving, ending, pass>> /\ Still

(* The answer arrives and its token is written, after the erasures begun   *)
(* before.                                                                 *)
Writes ==
  /\ signing.at = "compared" /\ ending = 0
  /\ LET new == [user |-> signing.user, n |-> Cardinality(issued) + 1] IN
       issued' = issued \cup {new} /\ disk' = new /\ signing' = [at |-> "writing", token |-> new]
  /\ UNCHANGED <<active, expired, inbox, owner, queue, status, person, token, held, asked, leaving,
                 ending, pass>>
  /\ Still

(* The write returns, and the token is installed; an erasure begun in      *)
(* between is still to be answered.                                        *)
Installs ==
  /\ signing.at = "writing"
  /\ token' = signing.token /\ crossed' = (ending > 0)
  /\ signing' = [signing EXCEPT !.at = "installed"]
  /\ UNCHANGED <<server, device, status, person, held, asked, leaving, ending, pass,
                 captured, wiped, spared, calm>>

SameUser_Never(subject, read) == FALSE

SameUser(subject, read) == subject = read

(* The file of the queue is deleted, or the deletion fails unheard.        *)
Wipe(subject, read) ==
  \/ /\ queue' = {} /\ UNCHANGED spared
     /\ wiped' = wiped \cup {<<x, IF read = Null THEN Null ELSE subject>> : x \in queue}
  \/ /\ spared' = spared \cup (queue \ {subject}) /\ UNCHANGED <<queue, wiped>>

Settles_KeepsQueue ==
  /\ signing.at = "installed"
  /\ signing' = [signing EXCEPT !.at = "settled"]
  /\ owner' = signing.token.user
  /\ UNCHANGED <<server, disk, queue, status, person, token, held, asked, leaving, ending, pass>> /\ Still

(* Unless the owner can be read and is the same, the files are wiped, and  *)
(* the new owner written: if that fails, so does the sign-in, half-way.    *)
Settles ==
  /\ signing.at = "installed"
  /\ \E read \in {owner, Null} :
       IF SameUser(signing.token.user, read)
       THEN signing' = [signing EXCEPT !.at = "settled"] /\ UNCHANGED <<owner, queue, wiped, spared>>
       ELSE /\ Wipe(signing.token.user, read)
            /\ \/ owner' = signing.token.user /\ signing' = [signing EXCEPT !.at = "settled"]
               \/ ~calm /\ owner' = owner /\ signing' = NoSignIn
  /\ UNCHANGED <<server, disk, status, person, token, held, asked, leaving, ending, pass,
                 captured, crossed, calm>>

(* The copies in memory are dropped, and read again from the files.        *)
Enters ==
  /\ signing.at = "settled"
  /\ signing' = NoSignIn /\ held' = queue
  /\ status' = "signedIn" /\ person' = signing.token.user
  /\ UNCHANGED <<server, device, token, asked, leaving, ending, pass>> /\ Still

-----------------------------------------------------------------------------
(* The capture queue.                                                      *)

(* Somebody with the device in hand writes a line down: the one signed in. *)
Capture ==
  /\ status = "signedIn" /\ person \notin captured
  /\ captured' = captured \cup {person}
  /\ held' = held \cup {person} /\ queue' = held'
  /\ UNCHANGED <<server, disk, owner, status, person, token, asked, signing, leaving, ending, pass,
                 wiped, spared, crossed, calm>>

PassBegins ==
  /\ status = "signedIn" /\ pass = NoPass /\ held # {} /\ ending < MaxAsked
  /\ pass' = [at |-> "next", left |-> held, sent |-> {}]
  /\ UNCHANGED <<server, device, status, person, token, held, asked, signing, leaving, ending>> /\ Still

(* A request takes the token there is when it is made.                     *)
Sends(x) ==
  /\ pass.at = "next" /\ x \in pass.left
  /\ pass' = [at |-> "sending", left |-> pass.left \ {x}, sent |-> pass.sent, line |-> x, with |-> token]
  /\ UNCHANGED <<server, device, status, person, token, held, asked, signing, leaving, ending>> /\ Still

(* It arrives or not; the answer arrives or not; either failure, and a     *)
(* refusal of the token, ends the sending.                                 *)
Stop == [at |-> "next", left |-> {}, sent |-> pass.sent]

Arrives ==
  /\ pass.at = "sending" /\ Valid(pass.with)
  /\ inbox' = [inbox EXCEPT ![pass.with.user] = @ \cup {pass.line}]
  /\ pass' \in {Stop, [at |-> "next", left |-> pass.left, sent |-> pass.sent \cup {pass.line}]}
  /\ UNCHANGED <<active, expired, issued, device, status, person, token, held, asked, signing, leaving, ending>>
  /\ Still

Fails ==
  /\ pass.at = "sending"
  /\ pass' = Stop
  /\ \/ UNCHANGED <<disk, token, ending>>
     \/ ~Valid(pass.with) /\ HandleUnauthorized
  /\ UNCHANGED <<server, owner, queue, status, person, held, asked, signing, leaving>> /\ Still

PassEnds ==
  /\ pass.at = "next" /\ pass.left = {}
  /\ held' = held \ pass.sent
  /\ queue' \in IF pass.sent = {} THEN {queue} ELSE {queue, held'}
  /\ pass' = NoPass
  /\ UNCHANGED <<server, disk, owner, status, person, token, asked, signing, leaving, ending>> /\ Still

(* The app is killed, by the system or by the person.                      *)
Killed ==
  /\ status # "off" /\ (calm => signing = NoSignIn)
  /\ Closed /\ crossed' = FALSE
  /\ UNCHANGED <<server, device, captured, wiped, spared, calm>>

Next ==
  \/ \E u \in Users : SetDisabled(u) \/ SignIn(u)
  \/ \E t \in Tokens : Expire(t)
  \/ \E t \in asked : Answered(t)
  \/ Ended \/ SignOut \/ LogoutReturns \/ Ask
  \/ Launch \/ SignInFails \/ Writes \/ Installs \/ Settles \/ Enters \/ Killed
  \/ Capture \/ PassBegins \/ Arrives \/ Fails \/ PassEnds
  \/ \E x \in Users : Sends(x)

Spec == Init /\ [][Next]_vars

-----------------------------------------------------------------------------
(* Properties.                                                             *)

TypeOK ==
  /\ active \subseteq Users /\ expired \subseteq Tokens /\ issued \subseteq Tokens
  /\ inbox \in [Users -> SUBSET Users] /\ captured \subseteq Users
  /\ disk \in Tokens \cup {Null} /\ owner \in Users \cup {Null} /\ queue \subseteq Users
  /\ status \in {"off", "signedIn", "signedOut"} /\ person \in Users \cup {Null}
  /\ token \in Tokens \cup {Null} /\ asked \subseteq Tokens \cup {Null} /\ held \subseteq Users
  /\ signing \in {NoSignIn} \cup [at : {"compared"}, user : Users]
                  \cup [at : {"writing", "installed", "settled"}, token : Tokens]
  /\ leaving \in BOOLEAN /\ ending \in Nat
  /\ pass \in {NoPass} \cup [at : {"next"}, left : SUBSET Users, sent : SUBSET Users]
                \cup [at : {"sending"}, left : SUBSET Users, sent : SUBSET Users,
                      line : Users, with : Tokens \cup {Null}]
  /\ spared \subseteq Users /\ crossed \in BOOLEAN /\ calm \in BOOLEAN

Quiet == status # "off" /\ signing = NoSignIn /\ ending = 0

(* A line gets to the inbox of the person who captured it, whoever signs   *)
(* in next ("Uploading their queued lines into this person's inbox ...     *)
(* would be a leak", session_provider.dart), when a sign-in finds nothing  *)
(* of the session before under way; except the lines that it could not     *)
(* delete ("a stubborn file cannot block a sign-in").                      *)
OwnLines == calm => \A u \in Users : inbox[u] \ {u} \subseteq spared

(* "The same person signing in again ... keeps everything": through        *)
(* expiry, sign-outs, kills and failed erasures, and whatever comes back   *)
(* late, a captured line is on the device or on the server unless a sign-  *)
(* in wiped it; and one's own sign-in that can read whose the device is    *)
(* never does, unless it was begun too soon or cut off, or the line had    *)
(* outlived the wipe of another's and was no longer known for one's own.   *)
SameKeepsAll ==
  \A u \in captured :
    /\ calm /\ <<u, u>> \in wiped => u \in spared
    /\ \/ u \in queue \cup UNION {inbox[v] : v \in Users}
       \/ \E v \in Users \cup {Null} : <<u, v>> \in wiped

(* The two copies of the token and what is on the screen agree.  A token   *)
(* that is sent is one that survives a restart, unless a sign-out that     *)
(* came late fell into the write of it; the app is open with one and the   *)
(* login form shown without, unless a sign-in was begun too soon or cut    *)
(* off (signIn, _forgetToken).                                             *)
TokenInStep ==
  /\ token # Null /\ signing.at # "writing" => token = disk \/ crossed
  /\ Quiet /\ calm => (status = "signedIn" <=> token # Null)
=============================================================================
