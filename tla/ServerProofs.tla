---------------------------- MODULE ServerProofs ----------------------------
(* What the server keeps beside its rows of tasks, lines and projects, for *)
(* every value of the constants: the sessions of one device (Session), the *)
(* prompts of a parse and what becomes of the model's reply (Parses), the  *)
(* models that are asked and what their outcomes teach (ModelRouter), and  *)
(* what history mode answers (History).  Each part is proved of its own    *)
(* specification.                                                          *)
EXTENDS Session, ModelRouter, Parses, History, FiniteSetTheorems, SequenceTheorems,
        WellFoundedInduction, TLAPS

-----------------------------------------------------------------------------
(* Session: shapes.                                                        *)

(* A token more may be signed while a password is being compared; an open  *)
(* app is somebody's.                                                      *)
Issuing ==
  /\ IsFiniteSet(issued)
  /\ signing.at = "compared" => Cardinality(issued) < MaxLogins
  /\ status = "signedIn" <=> person # Null

TypeInv == TypeOK /\ Issuing

(* Forgetting a token leaves nothing in memory.                            *)
LEMMA ForgetTyped ==
  ASSUME TypeOK, Forget
  PROVE  token' = Null /\ disk' \in Tokens \cup {Null} /\ ending' \in Nat
BY DEF TypeOK, Forget

(* A 401 forgets the token or changes nothing.                             *)
LEMMA UnauthorizedTyped ==
  ASSUME TypeOK, HandleUnauthorized
  PROVE  token' \in {token, Null} /\ disk' \in {disk, Null} /\ ending' \in {ending, ending + 1}
BY DEF TypeOK, HandleUnauthorized, Forget

(* The token that a compared password is answered with is a new one.       *)
LEMMA NextToken ==
  ASSUME TypeInv, signing.at = "compared"
  PROVE  /\ [user |-> signing.user, n |-> Cardinality(issued) + 1] \in Tokens
         /\ \A t : IsFiniteSet(issued \cup {t})
<1>1. signing.user \in Users
  BY DEF TypeInv, TypeOK, NoSignIn
<1>2. Cardinality(issued) \in Nat
  BY FS_CardinalityType DEF TypeInv, Issuing
<1>3. Cardinality(issued) + 1 \in 1..MaxLogins
  BY <1>2, SessionAssumption DEF TypeInv, Issuing
<1> QED BY <1>1, <1>3, FS_AddElement DEF Tokens, TypeInv, Issuing

(* Every step keeps the shapes: one case per action.                       *)
LEMMA TypeStep == TypeInv /\ [Next]_vars => TypeInv'
<1> SUFFICES ASSUME TypeInv, [Next]_vars PROVE TypeInv'
  OBVIOUS
<1> USE DEF TypeInv, TypeOK, Issuing, Still, server, device, app
<1>1. ASSUME NEW u \in Users, SetDisabled(u) PROVE TypeInv'
  BY <1>1 DEF SetDisabled
<1>2. ASSUME NEW u \in Users, SignIn(u) PROVE TypeInv'
  BY <1>2 DEF SignIn
<1>3. ASSUME NEW t \in Tokens, Expire(t) PROVE TypeInv'
  BY <1>3 DEF Expire
<1>4. ASSUME NEW t \in asked, Answered(t) PROVE TypeInv'
  BY <1>4, UnauthorizedTyped DEF Answered
<1>5. CASE Ended
  BY <1>5 DEF Ended
<1>6. CASE SignOut
  BY <1>6 DEF SignOut
<1>7. CASE LogoutReturns
  BY <1>7, ForgetTyped DEF LogoutReturns
<1>8. CASE Ask
  BY <1>8 DEF Ask
<1>9. CASE Launch
  <2>1. disk # Null => disk.user \in Users
    BY DEF Tokens
  <2> QED BY <1>9, <2>1, SessionAssumption DEF Launch
<1>10. CASE Installs
  BY <1>10 DEF Installs, NoSignIn
<1>11. CASE Settles
  <2>1. signing \in [at : {"writing", "installed", "settled"}, token : Tokens]
    BY <1>11 DEF Settles, NoSignIn
  <2>2. signing.token.user \in Users
    BY <2>1 DEF Tokens
  <2> QED BY <1>11, <2>1, <2>2 DEF Settles, Wipe, NoSignIn
<1>12. CASE Enters
  <2>1. signing.token.user \in Users
    BY <1>12 DEF Enters, NoSignIn, Tokens
  <2> QED BY <1>12, <2>1, SessionAssumption DEF Enters, NoSignIn
<1>13. CASE Killed
  BY <1>13 DEF Killed, Closed, NoSignIn
<1>14. CASE Capture
  BY <1>14 DEF Capture
<1>15. CASE PassBegins
  BY <1>15 DEF PassBegins
<1>16. CASE Arrives
  <2>1. pass.with \in Tokens /\ pass.with.user \in Users /\ pass.line \in Users /\ pass.left \in SUBSET Users /\ pass.sent \in SUBSET Users
    BY <1>16 DEF Arrives, Valid, NoPass, Tokens
  <2> QED BY <1>16, <2>1 DEF Arrives, Stop
<1>17. CASE Fails
  BY <1>17, UnauthorizedTyped DEF Fails, Stop, NoPass
<1>18. CASE PassEnds
  BY <1>18 DEF PassEnds
<1>19. ASSUME NEW x \in Users, Sends(x) PROVE TypeInv'
  BY <1>19 DEF Sends, NoPass
<1>20. CASE SignInFails
  BY <1>20 DEF SignInFails, NoSignIn
<1>21. CASE Writes
  <2> DEFINE new == [user |-> signing.user, n |-> Cardinality(issued) + 1]
  <2>1. new \in Tokens /\ IsFiniteSet(issued \cup {new})
    BY <1>21, NextToken DEF Writes
  <2>2. /\ issued' = issued \cup {new} /\ disk' = new /\ signing' = [at |-> "writing", token |-> new]
        /\ UNCHANGED <<active, expired, inbox, owner, queue, status, person, token, held, asked, leaving, ending, pass,
                       captured, spared, crossed, calm>>
    BY <1>21 DEF Writes
  <2> HIDE DEF new
  <2> QED BY <2>1, <2>2
<1>22. CASE UNCHANGED vars
  BY <1>22 DEF vars
<1> QED BY <1>1, <1>2, <1>3, <1>4, <1>5, <1>6, <1>7, <1>8, <1>9, <1>10, <1>11, <1>12,
           <1>13, <1>14, <1>15, <1>16, <1>17, <1>18, <1>19, <1>20, <1>21, <1>22 DEF Next

(* The shape of the state, for any people and number of sign-ins.          *)
THEOREM TypeCorrect == Spec => []TypeInv
<1>1. Init => TypeInv
  <2> SUFFICES ASSUME Init PROVE TypeInv
    OBVIOUS
  <2>1. Issuing
    BY FS_EmptySet DEF Init, Issuing, NoSignIn
  <2>2. TypeOK
    BY DEF Init, TypeOK
  <2> QED BY <2>1, <2>2 DEF TypeInv
<1> QED BY <1>1, TypeStep, PTL DEF Spec

-----------------------------------------------------------------------------
(* The two copies of the token.                                            *)

TokenInv ==
  /\ token # Null /\ signing.at # "writing" => token = disk \/ crossed = TRUE
  /\ ending > 0 /\ signing.at # "writing" => token = Null \/ crossed = TRUE
  /\ signing.at = "writing" /\ ending = 0 => disk = signing.token
  /\ status = "off" => token = Null /\ ~leaving /\ ending = 0 /\ signing = NoSignIn /\ pass = NoPass

(* Every step keeps the copies in agreement.                               *)
LEMMA TokenStep == TypeInv /\ TokenInv /\ [Next]_vars => TokenInv'
<1> SUFFICES ASSUME TypeOK, TokenInv, [Next]_vars PROVE TokenInv'
  BY DEF TypeInv
<1>a. ending \in Nat
  BY DEF TypeOK
<1> USE <1>a DEF TokenInv, NoSignIn, server, device, app, Still
<1>1. ASSUME NEW u \in Users, SetDisabled(u) PROVE TokenInv'
  BY <1>1 DEF SetDisabled
<1>2. ASSUME NEW u \in Users, SignIn(u) PROVE TokenInv'
  BY <1>2 DEF SignIn
<1>3. ASSUME NEW t \in Tokens, Expire(t) PROVE TokenInv'
  BY <1>3 DEF Expire
<1>4. ASSUME NEW t \in asked, Answered(t) PROVE TokenInv'
  BY <1>4 DEF Answered, HandleUnauthorized, Forget
<1>5. CASE Ended
  BY <1>5 DEF Ended
<1>6. CASE SignOut
  BY <1>6 DEF SignOut
<1>7. CASE LogoutReturns
  BY <1>7 DEF LogoutReturns, Forget
<1>8. CASE Ask
  BY <1>8 DEF Ask
<1>9. CASE Launch
  BY <1>9 DEF Launch
<1>10. CASE Installs
  <2>1. /\ signing.at = "writing" /\ signing'.at = "installed"
        /\ token' = signing.token /\ UNCHANGED <<disk, status, ending>>
    BY <1>10 DEF Installs, TypeOK
  <2>2. ending # 0 => crossed' = TRUE
    <3>1. crossed' = (ending > 0)
      BY <1>10 DEF Installs
    <3>2. ending # 0 => ending > 0
      OBVIOUS
    <3> QED BY <3>1, <3>2, Zenon
  <2>3. status # "off"
    BY <2>1
  <2> QED BY <2>1, <2>2, <2>3
<1>11. CASE Settles
  BY <1>11 DEF Settles, TypeOK
<1>12. CASE Enters
  BY <1>12 DEF Enters
<1>13. CASE Killed
  BY <1>13 DEF Killed, Closed
<1>14. CASE Capture
  BY <1>14 DEF Capture
<1>15. CASE PassBegins
  BY <1>15 DEF PassBegins
<1>16. ASSUME NEW x \in Users, Sends(x) PROVE TokenInv'
  BY <1>16 DEF Sends, NoPass
<1>17. CASE Arrives
  BY <1>17 DEF Arrives, NoPass, Stop
<1>18. CASE Fails
  BY <1>18 DEF Fails, HandleUnauthorized, Forget, NoPass
<1>19. CASE PassEnds
  BY <1>19 DEF PassEnds, NoPass
<1>20. CASE SignInFails
  BY <1>20 DEF SignInFails
<1>21. CASE Writes
  BY <1>21 DEF Writes
<1>22. CASE UNCHANGED vars
  BY <1>22 DEF vars
<1> QED BY <1>1, <1>2, <1>3, <1>4, <1>5, <1>6, <1>7, <1>8, <1>9, <1>10, <1>11, <1>12, <1>13, <1>14, <1>15, <1>16, <1>17,
           <1>18, <1>19, <1>20, <1>21, <1>22 DEF Next

-----------------------------------------------------------------------------
(* Lines on the device, on the server, or wiped.                           *)

Accounted(u) ==
  \/ \E v \in Users : u \in inbox[v]
  \/ \E v \in Users \cup {Null} : <<u, v>> \in wiped

KeptInv ==
  /\ \A u \in captured : u \in queue \/ Accounted(u)
  /\ status # "off" => \A u \in captured : u \in held \/ Accounted(u)
  /\ pass # NoPass => \A u \in pass.sent : \E v \in Users : u \in inbox[v]

(* What has arrived or been wiped stays so.                                *)
LEMMA StaysAccounted ==
  ASSUME TypeOK, wiped \subseteq wiped',
         \A v \in Users : inbox[v] \subseteq inbox'[v]
  PROVE  \A u : Accounted(u) => Accounted(u)'
BY DEF Accounted

(* Most steps leave the lines where they are.                              *)
LEMMA NoLineMoves ==
  ASSUME KeptInv, UNCHANGED <<inbox, wiped, captured, held, queue>>,
         status' # "off" => status # "off",
         pass' # NoPass => pass # NoPass /\ status' # "off" /\ pass'.sent = pass.sent
  PROVE  KeptInv'
BY DEF KeptInv, Accounted

(* No step loses a line that was captured.                                 *)
LEMMA KeptStep == TypeInv /\ TokenInv /\ KeptInv /\ [Next]_vars => KeptInv'
<1> SUFFICES ASSUME TypeOK, TokenInv, KeptInv, [Next]_vars PROVE KeptInv'
  BY DEF TypeInv
<1>a. pass # NoPass => status # "off"
  BY DEF TokenInv
<1> USE DEF Still, server, device, app
<1>1. ASSUME NEW u \in Users, SetDisabled(u) PROVE KeptInv'
  BY <1>1, <1>a, NoLineMoves DEF SetDisabled
<1>2. ASSUME NEW u \in Users, SignIn(u) PROVE KeptInv'
  BY <1>2, <1>a, NoLineMoves DEF SignIn
<1>3. ASSUME NEW t \in Tokens, Expire(t) PROVE KeptInv'
  BY <1>3, <1>a, NoLineMoves DEF Expire
<1>4. ASSUME NEW t \in asked, Answered(t) PROVE KeptInv'
  BY <1>4, <1>a, NoLineMoves DEF Answered
<1>5. CASE Ended
  BY <1>5, <1>a, NoLineMoves DEF Ended, TokenInv
<1>6. CASE SignOut
  BY <1>6, <1>a, NoLineMoves DEF SignOut
<1>7. CASE LogoutReturns
  BY <1>7, <1>a, NoLineMoves DEF LogoutReturns
<1>8. CASE Ask
  BY <1>8, <1>a, NoLineMoves DEF Ask
<1>9. CASE Launch
  BY <1>9 DEF Launch, KeptInv, Accounted
<1>10. CASE Installs
  BY <1>10, <1>a, NoLineMoves DEF Installs
<1>11. CASE Settles
  <2>1. \A u : Accounted(u) => Accounted(u)'
    BY <1>11, StaysAccounted DEF Settles, Wipe
  <2>2. signing.token.user \in Users
    BY <1>11 DEF Settles, TypeOK, NoSignIn, Tokens
  <2>3. \A u : u \in queue => u \in queue' \/ Accounted(u)'
    BY <1>11, <2>2 DEF Settles, Wipe, Accounted
  <2>4. UNCHANGED <<captured, held, status, pass, inbox>>
    BY <1>11 DEF Settles
  <2> QED BY <2>1, <2>3, <2>4 DEF KeptInv
<1>12. CASE Enters
  BY <1>12 DEF Enters, KeptInv, Accounted
<1>13. CASE Killed
  BY <1>13 DEF Killed, Closed, KeptInv, Accounted
<1>14. CASE Capture
  BY <1>14 DEF Capture, KeptInv, Accounted
<1>15. CASE PassBegins
  BY <1>15 DEF PassBegins, KeptInv, Accounted
<1>16. ASSUME NEW x \in Users, Sends(x) PROVE KeptInv'
  BY <1>16, <1>a, NoLineMoves DEF Sends, NoPass
<1>17. CASE Arrives
  <2>1. pass # NoPass /\ pass.with.user \in Users /\ pass.sent \subseteq Users
    BY <1>17 DEF Arrives, Valid, TypeOK, NoPass, Tokens
  <2>2. /\ \A v \in Users : inbox[v] \subseteq inbox'[v]
        /\ \E v \in Users : pass.line \in inbox'[v]
    BY <1>17, <2>1 DEF Arrives, TypeOK
  <2>3. \A u : Accounted(u) => Accounted(u)'
    BY <1>17, <2>2, StaysAccounted DEF Arrives
  <2>4. pass'.sent \subseteq pass.sent \cup {pass.line}
    BY <1>17 DEF Arrives, Stop
  <2>5. \A u \in pass'.sent : \E v \in Users : u \in inbox'[v]
    BY <2>1, <2>2, <2>4 DEF KeptInv
  <2>6. UNCHANGED <<captured, held, queue, status>>
    BY <1>17 DEF Arrives
  <2> QED BY <1>a, <2>1, <2>3, <2>5, <2>6 DEF KeptInv
<1>18. CASE Fails
  BY <1>18, <1>a, NoLineMoves DEF Fails, Stop, NoPass
<1>19. CASE PassEnds
  <2>1. pass # NoPass
    BY <1>19 DEF PassEnds, NoPass
  <2>2. \A u \in pass.sent : Accounted(u)
    BY <2>1 DEF KeptInv, Accounted
  <2>3. \A u : Accounted(u) => Accounted(u)'
    BY <1>19, StaysAccounted DEF PassEnds
  <2>4. \A u \in captured : u \in held' \/ Accounted(u)'
    BY <1>19, <1>a, <2>1, <2>2, <2>3 DEF PassEnds, KeptInv
  <2>5. \A u \in captured : u \in queue' \/ Accounted(u)'
    BY <1>19, <2>3, <2>4 DEF PassEnds, KeptInv
  <2> QED BY <1>19, <2>4, <2>5 DEF PassEnds, KeptInv
<1>20. CASE SignInFails
  BY <1>20, <1>a, NoLineMoves DEF SignInFails
<1>21. CASE Writes
  BY <1>21, <1>a, NoLineMoves DEF Writes
<1>22. CASE UNCHANGED vars
  BY <1>22, <1>a, NoLineMoves DEF vars
<1> QED BY <1>1, <1>2, <1>3, <1>4, <1>5, <1>6, <1>7, <1>8, <1>9, <1>10, <1>11, <1>12, <1>13, <1>14, <1>15, <1>16, <1>17,
           <1>18, <1>19, <1>20, <1>21, <1>22 DEF Next

-----------------------------------------------------------------------------
(* Whose the lines are.                                                    *)

(* A sign-in that has begun has the app to itself, and what the device     *)
(* holds is its owner's, who is the person of its token.                   *)
CalmInv ==
  /\ signing # NoSignIn =>
       /\ status = "signedOut" /\ asked = {} /\ ~leaving /\ ending = 0 /\ pass = NoPass
       /\ token = Null <=> signing.at \in {"compared", "writing"}
       /\ signing.at # "compared" => disk = signing.token
       /\ signing.at = "settled" => owner = signing.token.user
  /\ signing = NoSignIn =>
       /\ status = "signedOut" => token = Null
       /\ status = "signedIn" /\ ending = 0 => token # Null
  /\ signing.at \notin {"writing", "installed", "settled"} /\ disk # Null => disk.user = owner
  /\ ~crossed /\ person \in {owner, Null}
  /\ queue \subseteq {owner} \cup spared
  /\ signing.at # "settled" => held \subseteq {owner} \cup spared
  /\ pass # NoPass => pass.left \subseteq {owner} \cup spared
  /\ pass.at = "sending" => pass.line \in {owner} \cup spared /\ (pass.with # Null => pass.with.user = owner)
  /\ \A u \in Users : inbox[u] \ {u} \subseteq spared
  /\ \A u \in Users : <<u, u>> \in wiped => u \in spared

(* Every step keeps each line with its owner.                              *)
LEMMA CalmStep == TypeInv /\ TokenInv /\ calm /\ CalmInv /\ [Next]_vars => CalmInv'
<1> SUFFICES ASSUME TypeInv, TypeOK, TokenInv, calm, CalmInv, [Next]_vars PROVE CalmInv'
  BY DEF TypeInv
<1> USE DEF TypeOK, TokenInv, CalmInv, Still, server, device, app
<1>1. ASSUME NEW u \in Users, SetDisabled(u) PROVE CalmInv'
  BY <1>1 DEF SetDisabled
<1>2. ASSUME NEW u \in Users, SignIn(u) PROVE CalmInv'
  BY <1>2 DEF SignIn, NoSignIn, NoPass
<1>3. ASSUME NEW t \in Tokens, Expire(t) PROVE CalmInv'
  BY <1>3 DEF Expire
<1>4. ASSUME NEW t \in asked, Answered(t) PROVE CalmInv'
  BY <1>4 DEF Answered, HandleUnauthorized, Forget
<1>5. CASE Ended
  BY <1>5 DEF Ended
<1>6. CASE SignOut
  BY <1>6 DEF SignOut
<1>7. CASE LogoutReturns
  BY <1>7 DEF LogoutReturns, Forget
<1>8. CASE Ask
  BY <1>8 DEF Ask
<1>9. CASE Launch
  BY <1>9 DEF Launch, Tokens, NoSignIn
<1>10. CASE Installs
  <2>1. /\ signing # NoSignIn /\ signing.at = "writing" /\ signing.token \in Tokens
        /\ signing'.at = "installed" /\ signing'.token = signing.token /\ signing' # NoSignIn
    BY <1>10 DEF Installs, NoSignIn
  <2>2. token' = signing.token /\ token' # Null /\ ~crossed'
    BY <1>10, <2>1, SessionAssumption DEF Installs
  <2> QED BY <1>10, <2>1, <2>2 DEF Installs
<1>11. CASE Settles
  <2> DEFINE subject == signing.token.user
  <2>1. /\ signing # NoSignIn /\ signing.at = "installed" /\ subject \in Users
        /\ signing'.at = "settled" /\ signing'.token = signing.token /\ signing' # NoSignIn
    BY <1>11 DEF Settles, NoSignIn, Tokens
  <2> HIDE DEF subject
  <2>2. PICK read \in {owner, Null} :
          \/ subject = read /\ UNCHANGED <<owner, queue, wiped, spared>>
          \/ subject # read /\ Wipe(subject, read) /\ owner' = subject
    BY <1>11 DEF Settles, SameUser, subject
  <2>3. owner' = subject /\ queue' \subseteq {subject} \cup spared' /\ spared \subseteq spared'
    <3>1. CASE subject = read
      BY <2>1, <2>2, <3>1, SessionAssumption
    <3>2. CASE subject # read
      BY <2>2, <3>2 DEF Wipe
    <3> QED BY <3>1, <3>2
  <2>4. ASSUME NEW u \in Users, <<u, u>> \in wiped' PROVE u \in spared'
    <3>1. CASE <<u, u>> \in wiped
      BY <2>3, <3>1
    <3>2. CASE <<u, u>> \notin wiped
      <4> DEFINE by == IF read = Null THEN Null ELSE subject
      <4>1. subject # read /\ wiped' = wiped \cup {<<x, by>> : x \in queue}
        BY <2>2, <2>4, <3>2 DEF Wipe
      <4>2. by \in queue /\ u = by
        BY <2>4, <3>2, <4>1
      <4>3. read # Null /\ u = subject /\ u # owner
        BY <2>2, <4>1, <4>2, SessionAssumption
      <4> QED BY <2>3, <4>2, <4>3
    <3> QED BY <3>1, <3>2
  <2>5. UNCHANGED <<status, person, asked, leaving, ending, pass, token, disk, held, inbox, crossed>>
    BY <1>11 DEF Settles
  <2>6. person' = Null
    BY <2>1, <2>5 DEF TypeInv, Issuing
  <2> QED BY <2>1, <2>3, <2>4, <2>5, <2>6 DEF NoPass, subject
<1>12. CASE Enters
  BY <1>12 DEF Enters, NoSignIn
<1>13. CASE Killed
  BY <1>13 DEF Killed, Closed, NoPass
<1>14. CASE Capture
  <2>1. signing = NoSignIn /\ person = owner
    BY <1>14 DEF Capture, NoSignIn, TypeInv, Issuing
  <2>2. held' \subseteq {owner} \cup spared /\ queue' \subseteq {owner} \cup spared
    BY <1>14, <2>1 DEF Capture, NoSignIn
  <2> QED BY <1>14, <2>1, <2>2 DEF Capture
<1>15. CASE PassBegins
  <2>1. signing = NoSignIn
    BY <1>15 DEF PassBegins
  <2>2. pass' = [at |-> "next", left |-> held, sent |-> {}] /\ held \subseteq {owner} \cup spared
    BY <1>15, <2>1 DEF PassBegins, NoSignIn
  <2> QED BY <1>15, <2>1, <2>2 DEF PassBegins
<1>16. ASSUME NEW x \in Users, Sends(x) PROVE CalmInv'
  BY <1>16 DEF Sends, NoPass, NoSignIn
<1>17. CASE Arrives
  BY <1>17 DEF Arrives, NoPass, Stop, Valid, Tokens
<1>18. CASE Fails
  BY <1>18 DEF Fails, HandleUnauthorized, Forget, NoPass, Stop
<1>19. CASE PassEnds
  <2>1. signing = NoSignIn
    BY <1>19 DEF PassEnds, NoPass
  <2>2. held' \subseteq {owner} \cup spared /\ queue' \subseteq {owner} \cup spared
    BY <1>19, <2>1 DEF PassEnds, NoSignIn
  <2> QED BY <1>19, <2>1, <2>2 DEF PassEnds, NoPass
<1>20. CASE SignInFails
  BY <1>20 DEF SignInFails, NoSignIn
<1>21. CASE Writes
  <2> DEFINE new == [user |-> signing.user, n |-> Cardinality(issued) + 1]
  <2>1. signing # NoSignIn /\ signing.at = "compared"
    BY <1>21 DEF Writes, NoSignIn
  <2>2. /\ disk' = new /\ signing' = [at |-> "writing", token |-> new] /\ signing' # NoSignIn
        /\ UNCHANGED <<inbox, owner, queue, status, person, token, held, asked, leaving, ending, pass,
                       wiped, spared, crossed>>
    BY <1>21 DEF Writes, NoSignIn
  <2> HIDE DEF new
  <2> QED BY <2>1, <2>2
<1>22. CASE UNCHANGED vars
  BY <1>22 DEF vars
<1> QED BY <1>1, <1>2, <1>3, <1>4, <1>5, <1>6, <1>7, <1>8, <1>9, <1>10, <1>11, <1>12, <1>13, <1>14, <1>15, <1>16, <1>17,
           <1>18, <1>19, <1>20, <1>21, <1>22 DEF Next

(* The strengthening that the three properties follow from.                *)
THEOREM SessionInvariant == Spec => [](TypeInv /\ TokenInv /\ KeptInv /\ (calm => CalmInv))
<1>1. Init => TokenInv /\ KeptInv /\ (calm => CalmInv)
  BY DEF Init, TokenInv, KeptInv, CalmInv, NoSignIn, NoPass
<1>2. [Next]_vars => calm' = calm
  BY DEF Next, vars, Still, SetDisabled, SignIn, Expire, Answered, Ended, SignOut, LogoutReturns, Ask, Launch,
         SignInFails, Writes, Installs, Settles, Enters, Killed, Capture, PassBegins, Sends, Arrives, Fails, PassEnds
<1>3. TypeInv /\ TokenInv /\ (calm => CalmInv) /\ [Next]_vars => (calm => CalmInv)'
  BY <1>2, CalmStep
<1> QED BY <1>1, <1>3, TypeCorrect, TokenStep, KeptStep, PTL DEF Spec

(* "Uploading their queued lines into this person's inbox ... would be a   *)
(* leak" (session_provider.dart): it happens to no line that could be      *)
(* deleted, when a sign-in finds nothing of the session before under way   *)
(* and is not cut off.                                                     *)
THEOREM OwnLinesCorrect == Spec => []OwnLines
<1>1. (calm => CalmInv) => OwnLines
  BY DEF OwnLines, CalmInv
<1> QED BY <1>1, SessionInvariant, PTL

(* "The same person signing in again ... keeps everything", as long as the *)
(* device can tell that it is the same.                                    *)
THEOREM SameKeepsAllCorrect == Spec => []SameKeepsAll
<1>1. TypeInv /\ KeptInv /\ (calm => CalmInv) => SameKeepsAll
  BY DEF SameKeepsAll, KeptInv, Accounted, CalmInv, TypeInv, TypeOK
<1> QED BY <1>1, SessionInvariant, PTL

(* The token that is sent is the one that survives a restart, unless a     *)
(* late sign-out crossed the write of it, and what is on the screen is     *)
(* what the token allows.                                                  *)
THEOREM TokenInStepCorrect == Spec => []TokenInStep
<1>1. TypeInv /\ TokenInv /\ (calm => CalmInv) => TokenInStep
  BY DEF TokenInStep, Quiet, TokenInv, CalmInv, TypeInv, TypeOK
<1> QED BY <1>1, SessionInvariant, PTL

-----------------------------------------------------------------------------
(* Parses: the texts that prompts are built from.                          *)

EditStates == [at : {"idle", "read", "written"}, copy : Blocks]

(* Every copy of the stored edits that may yet be mirrored or written into *)
(* a prompt is of a value that the row has had.                            *)
CopiesWere ==
  /\ stored \in was /\ mirror \in was /\ AllDefault \in was
  /\ load.copy \in was
  /\ \A e \in Edits : edit[e].at = "written" => edit[e].copy \in was
  /\ \A p \in Parses : parse[p].at \in {"asked", "replied"} => parse[p].blocks \in was
  /\ \A p \in Parses : \A r \in dataset[p] : r.blocks \in was /\ r.version \in was

(* Requests that wait for each other: at most one edit, or a load; and what*)
(* either of them carries to the mirror is what is stored.                 *)
InTurn ==
  orderly =>
    /\ \A e, f \in Edits : edit[e].at # "idle" /\ edit[f].at # "idle" => e = f
    /\ \A e \in Edits : edit[e].at # "idle" => load.at = "idle"
    /\ \A e \in Edits : edit[e].at = "written" => edit[e].copy = stored
    /\ load.at = "read" => load.copy = stored
    /\ loaded = "resolved" /\ (\A e \in Edits : edit[e].at # "written") => mirror = stored

Shaped ==
  /\ edit \in [Edits -> EditStates]
  /\ parse = [p \in Parses |-> parse[p]] /\ dataset = [p \in Parses |-> dataset[p]]
  /\ stored \in Blocks

PromptInv == Shaped /\ CopiesWere /\ InTurn

(* It holds at the start.                                                  *)
LEMMA PromptInit == ParsesInit => PromptInv
BY DEF ParsesInit, PromptInv, Shaped, CopiesWere, InTurn, EditStates, Blocks, AllDefault,
       NoLoad, NoEdit, New

(* The steps of a load.                                                    *)
LEMMA LoadKeeps ==
  ASSUME PromptInv, Loading
  PROVE  PromptInv'
<1> USE DEF PromptInv, Shaped, CopiesWere, InTurn, EditStates
<1>1. CASE LoadRead
  BY <1>1 DEF LoadRead
<1>2. CASE LoadArrives
  <2>1. \A p \in Parses : /\ Released[p].at \in {"asked", "replied"} => parse[p].at = Released[p].at
                          /\ Released[p].at \in {"asked", "replied"} => Released[p] = parse[p]
    BY DEF Released
  <2> QED BY <1>2, <2>1 DEF LoadArrives, NoLoad, Released
<1>3. CASE LoadFails
  <2>1. \A p \in Parses : Released[p].at \in {"asked", "replied"} => Released[p] = parse[p]
    BY DEF Released
  <2> QED BY <1>3, <2>1 DEF LoadFails, NoLoad, Released
<1> QED BY <1>1, <1>2, <1>3 DEF Loading

(* The steps of an edit.                                                   *)
LEMMA EditKeeps ==
  ASSUME PromptInv, NEW e \in Edits
  PROVE  /\ \A l \in Levels, r \in Wordings \cup {Default} : EditRead(e, l, r) => PromptInv'
         /\ EditWrites(e) \/ EditFails(e) \/ EditMirrors(e) => PromptInv'
<1> USE DEF PromptInv, Shaped, CopiesWere, InTurn, EditStates
<1>1. ASSUME NEW l \in Levels, NEW r \in Wordings \cup {Default}, EditRead(e, l, r) PROVE PromptInv'
  <2>1. [stored EXCEPT ![l] = r] \in Blocks
    BY DEF Blocks
  <2> QED BY <1>1, <2>1 DEF EditRead, NoEdits
<1>2. CASE EditWrites(e)
  BY <1>2 DEF EditWrites
<1>3. CASE EditFails(e)
  <2>1. NoEdit \in EditStates
    BY DEF NoEdit, NoLoad, AllDefault, Blocks
  <2> QED BY <1>3, <2>1 DEF EditFails, NoEdit, NoLoad
<1>4. CASE EditMirrors(e)
  <2>1. NoEdit \in EditStates
    BY DEF NoEdit, NoLoad, AllDefault, Blocks
  <2> QED BY <1>4, <2>1 DEF EditMirrors, NoEdit, NoLoad
<1> QED BY <1>1, <1>2, <1>3, <1>4

(* The steps of a parse, and the looks at the prompts.                     *)
LEMMA ParseKeeps ==
  ASSUME PromptInv, NEW p \in Parses
  PROVE  /\ \A k, l, i : AskParse(p, k, l, i) => PromptInv'
         /\ Advance(p) => PromptInv'
<1> USE DEF PromptInv, Shaped, CopiesWere, InTurn, EditStates
<1>1. ASSUME NEW k, NEW l, NEW i, AskParse(p, k, l, i) PROVE PromptInv'
  BY <1>1 DEF AskParse, EnsureLoaded, NoLoad, NoEdits
<1>2. CASE Build(p)
  BY <1>2 DEF Build
<1>3. CASE GiveUp(p)
  BY <1>3 DEF GiveUp, Over
<1>4. ASSUME NEW raw, Reply(p, raw) PROVE PromptInv'
  BY <1>4 DEF Reply, Replying
<1>5. CASE CallFails(p)
  BY <1>5 DEF CallFails, Replying
<1>6. CASE Keep(p)
  <2>1. \A q \in Parses : \A r \in dataset'[q] :
          \/ r \in dataset[q]
          \/ r.blocks = parse[p].blocks /\ r.version = mirror
    BY <1>6 DEF Keep, levelRulesVersion
  <2>2. \A q \in Parses : \A r \in dataset'[q] : r.blocks \in was /\ r.version \in was
    BY <1>6, <2>1 DEF Keep
  <2> QED BY <1>6, <2>2 DEF Keep, Over
<1>7. CASE KeepFails(p)
  BY <1>7 DEF KeepFails, Over
<1> QED BY <1>1, <1>2, <1>3, <1>4, <1>5, <1>6, <1>7 DEF Advance

(* Every step keeps it.                                                    *)
LEMMA PromptStep == PromptInv /\ [ParsesNext]_parsesVars => PromptInv'
<1> SUFFICES ASSUME PromptInv, [ParsesNext]_parsesVars PROVE PromptInv'
  OBVIOUS
<1>1. CASE FromOutside
  <2>1. CASE Look
    BY <2>1 DEF Look, EnsureLoaded, PromptInv, Shaped, CopiesWere, InTurn, NoLoad, NoEdits
  <2>2. CASE Restart
    <3>1. NoEdit \in EditStates /\ AllDefault \in Blocks
      BY DEF EditStates, NoEdit, NoLoad, AllDefault, Blocks
    <3> QED BY <2>2, <3>1 DEF Restart, PromptInv, Shaped, CopiesWere, InTurn, NoEdit, NoLoad, New, Over
  <2> QED BY <1>1, <2>1, <2>2, EditKeeps, ParseKeeps DEF FromOutside
<1>2. CASE Loading
  BY <1>2, LoadKeeps
<1>3. CASE \E p \in Parses : Advance(p)
  BY <1>3, ParseKeeps
<1>4. CASE \E e \in Edits : EditWrites(e) \/ EditFails(e) \/ EditMirrors(e)
  BY <1>4, EditKeeps
<1>5. CASE UNCHANGED parsesVars
  BY <1>5 DEF parsesVars, PromptInv, Shaped, CopiesWere, InTurn
<1> QED BY <1>1, <1>2, <1>3, <1>4, <1>5 DEF ParsesNext

(* The inductive invariant of the edits, their mirror and the prompts, for *)
(* any number of parses and edits.                                         *)
THEOREM PromptCorrect == ParsesSpec => []PromptInv
BY PromptInit, PromptStep, PTL DEF ParsesSpec

(* NeverInvented: however loads and edits overlap or fail, no prompt is    *)
(* built from a text that was never stored, and no row of the dataset      *)
(* claims one.                                                             *)
THEOREM NeverInventedCorrect == ParsesSpec => []NeverInvented
<1>1. PromptInv => NeverInvented
  BY DEF PromptInv, CopiesWere, NeverInvented
<1> QED BY <1>1, PromptCorrect, PTL

(* MirrorTrue: for requests that wait for each other, prompts are built    *)
(* from what is stored.                                                    *)
THEOREM MirrorTrueCorrect == ParsesSpec => []MirrorTrue
<1>1. PromptInv => MirrorTrue
  BY DEF PromptInv, InTurn, MirrorTrue, NoEdits
<1> QED BY <1>1, PromptCorrect, PTL

(* Every set of numbers that is not empty has a least one.                 *)
LEMMA Least ==
  ASSUME NEW T \in SUBSET Nat, T # {}
  PROVE  \E n \in T : \A m \in T : n <= m
<1>1. IsWellFoundedOn({ss \in Nat \X Nat : ss[1] < ss[2]}, Nat)
  BY NatLessThanWellFounded DEF OpToRel
<1>2. \E n \in T : \A m \in T : ~ (<<m, n>> \in {ss \in Nat \X Nat : ss[1] < ss[2]})
  BY <1>1, WFMin
<1>3. PICK n \in T : \A m \in T : ~ (m < n)
  BY <1>2
<1>4. \A m \in T : n <= m
  BY <1>3
<1> QED BY <1>4

-----------------------------------------------------------------------------
(* Some of the entries of a list.                                          *)

In(s, T) == {i \in DOMAIN s : s[i] \in T}

Places(s, T, n, f) ==
  /\ f \in [1 .. n -> In(s, T)]
  /\ \A i, k \in 1 .. n : i < k => f[i] < f[k]
  /\ \A i \in In(s, T) : \E k \in 1 .. n : f[k] = i

(* The places of the entries of a list are those of the list less its last *)
(* entry, and the last one's own if it is in the set.                      *)
LEMMA PlacesShorter ==
  ASSUME NEW S, NEW s \in Seq(S), NEW T, Len(s) > 0,
         NEW shorter, shorter = [i \in 1 .. Len(s) - 1 |-> s[i]],
         NEW n \in 0 .. Len(s) - 1, NEW f, Places(shorter, T, n, f)
  PROVE  \E m \in 0 .. Len(s) : \E g : Places(s, T, m, g)
<1> DEFINE last == Len(s)
<1>1. shorter \in Seq(S) /\ Len(shorter) = last - 1 /\ \A i \in 1 .. last - 1 : shorter[i] = s[i]
  OBVIOUS
<1>2. DOMAIN s = 1 .. last /\ DOMAIN shorter = 1 .. last - 1 /\ last \in Nat
  BY <1>1
<1>3. CASE s[last] \notin T
  <2>1. In(s, T) = In(shorter, T)
    BY <1>1, <1>2, <1>3 DEF In
  <2>2. Places(s, T, n, f)
    BY <2>1 DEF Places
  <2> QED BY <1>2, <2>2
<1>4. CASE s[last] \in T
  <2> DEFINE g == [k \in 1 .. n + 1 |-> IF k = n + 1 THEN last ELSE f[k]]
  <2>1. In(s, T) = In(shorter, T) \cup {last}
    BY <1>1, <1>2, <1>4 DEF In
  <2>2. \A k \in 1 .. n : f[k] \in 1 .. last - 1
    BY <1>2 DEF Places, In
  <2>3. g \in [1 .. n + 1 -> In(s, T)]
    BY <2>1 DEF Places
  <2>4. \A i, k \in 1 .. n + 1 : i < k => g[i] < g[k]
    BY <1>2, <2>2 DEF Places
  <2>5. ASSUME NEW i \in In(s, T)
        PROVE  \E k \in 1 .. n + 1 : g[k] = i
    <3>1. CASE i = last
      <4>1. n + 1 \in 1 .. n + 1 /\ g[n + 1] = last
        OBVIOUS
      <4> QED BY <3>1, <4>1
    <3>2. CASE i \in In(shorter, T)
      <4>1. PICK k \in 1 .. n : f[k] = i
        BY <3>2 DEF Places
      <4>2. k \in 1 .. n + 1 /\ g[k] = i
        BY <4>1
      <4> QED BY <4>2
    <3> QED BY <2>1, <3>1, <3>2
  <2>6. Places(s, T, n + 1, g)
    BY <2>3, <2>4, <2>5 DEF Places
  <2> QED BY <1>2, <2>6
<1> QED BY <1>3, <1>4

(* The places of the entries of a set can be put in order, in every list:  *)
(* by the least length for which they could not.                           *)
LEMMA PlacesExist ==
  ASSUME NEW S, NEW s \in Seq(S), NEW T
  PROVE  \E n \in 0 .. Len(s) : \E f : Places(s, T, n, f)
<1> DEFINE Good(q) == \E n \in 0 .. Len(q) : \E f : Places(q, T, n, f)
           Bad == {Len(q) : q \in {p \in Seq(S) : ~ Good(p)}}
<1>1. SUFFICES ASSUME Bad # {} PROVE FALSE
  OBVIOUS
<1>2. Bad \in SUBSET Nat
  OBVIOUS
<1>3. PICK least \in Bad : \A m \in Bad : least <= m
  BY <1>1, <1>2, Least
<1>4. PICK q \in Seq(S) : Len(q) = least /\ ~ Good(q)
  BY <1>3
<1>5. CASE least = 0
  <2>1. In(q, T) = {} /\ Len(q) = 0
    BY <1>4, <1>5 DEF In
  <2>2. [k \in 1 .. 0 |-> k] \in [1 .. 0 -> {}]
    OBVIOUS
  <2>3. Places(q, T, 0, [k \in 1 .. 0 |-> k])
    BY <2>1, <2>2 DEF Places
  <2> QED BY <1>4, <2>1, <2>3
<1>6. CASE least # 0
  <2> DEFINE shorter == [i \in 1 .. Len(q) - 1 |-> q[i]]
  <2>1. Len(q) \in Nat /\ Len(q) > 0
    BY <1>2, <1>4, <1>6
  <2>2. shorter \in Seq(S) /\ Len(shorter) = Len(q) - 1 /\ Len(shorter) \in Nat
    BY <2>1
  <2>3. Good(shorter)
    <3>1. ~ Good(shorter) => Len(shorter) \in Bad
      BY <2>2
    <3>2. Len(shorter) < least
      BY <1>4, <2>1, <2>2
    <3>3. least \in Nat /\ Len(shorter) \in Nat
      BY <1>4, <2>1, <2>2
    <3> HIDE DEF Good, Bad, shorter
    <3> QED BY <1>3, <3>1, <3>2, <3>3
  <2>4. PICK n, f : n \in 0 .. Len(shorter) /\ Places(shorter, T, n, f)
    BY <2>3
  <2>5. n \in 0 .. Len(q) - 1
    BY <2>2, <2>4
  <2> HIDE DEF Good, Bad
  <2>6. \E m \in 0 .. Len(q) : \E g : Places(q, T, m, g)
    BY <2>1, <2>4, <2>5, PlacesShorter
  <2> QED BY <1>4, <2>6 DEF Good
<1> QED BY <1>5, <1>6

Enumerates(f, s, T) ==
  /\ DOMAIN f = DOMAIN Only(s, T)
  /\ \A k \in DOMAIN f : f[k] \in In(s, T) /\ Only(s, T)[k] = s[f[k]]
  /\ \A i, k \in DOMAIN f : i < k => f[i] < f[k]
  /\ \A i \in In(s, T) : \E k \in DOMAIN f : f[k] = i

(* Some of the entries of a list are a list of them, each at its place.    *)
LEMMA OnlyIs ==
  ASSUME NEW S, NEW s \in Seq(S), NEW T
  PROVE  Only(s, T) \in Seq(S) /\ Len(Only(s, T)) <= Len(s) /\ \E f : Enumerates(f, s, T)
<1> DEFINE in == {i \in DOMAIN s : s[i] \in T}
           all == UNION {[1 .. n -> in] : n \in 0 .. Len(s)}
           Fits(f) == /\ \A i, k \in DOMAIN f : i < k => f[i] < f[k]
                      /\ \A i \in in : \E k \in DOMAIN f : f[k] = i
           place == CHOOSE f \in all : Fits(f)
<1>1. Only(s, T) = [k \in DOMAIN place |-> s[place[k]]]
  BY DEF Only
<1>2. PICK n, f : n \in 0 .. Len(s) /\ Places(s, T, n, f)
  BY PlacesExist
<1>3. f \in all /\ Fits(f)
  BY <1>2 DEF Places, In
<1>4. place \in all /\ Fits(place)
  BY <1>3
<1> HIDE DEF place
<1>5. PICK m \in 0 .. Len(s) : place \in [1 .. m -> in]
  BY <1>4
<1>6. DOMAIN place = 1 .. m /\ m \in Nat /\ \A k \in 1 .. m : place[k] \in DOMAIN s /\ place[k] \in in
  BY <1>5
<1>7. Only(s, T) \in Seq(S) /\ DOMAIN Only(s, T) = 1 .. m /\ Len(Only(s, T)) = m
  BY <1>1, <1>5, <1>6
<1>8. Enumerates(place, s, T)
  BY <1>1, <1>4, <1>6, <1>7 DEF Enumerates, In
<1> QED BY <1>5, <1>7, <1>8

(* They are the entries of the set, and no others.                         *)
LEMMA OnlyHas ==
  ASSUME NEW S, NEW s \in Seq(S), NEW T
  PROVE  ToSet(Only(s, T)) = ToSet(s) \cap T
<1>1. PICK f : Enumerates(f, s, T)
  BY OnlyIs
<1>2. ASSUME NEW x \in ToSet(Only(s, T)) PROVE x \in ToSet(s) \cap T
  BY <1>1, <1>2 DEF Enumerates, In, ToSet
<1>3. ASSUME NEW x \in ToSet(s) \cap T PROVE x \in ToSet(Only(s, T))
  <2>1. PICK i \in DOMAIN s : s[i] = x
    BY <1>3 DEF ToSet
  <2>2. PICK k \in DOMAIN f : f[k] = i
    BY <1>1, <1>3, <2>1 DEF Enumerates, In
  <2> QED BY <1>1, <2>1, <2>2 DEF Enumerates, ToSet
<1> QED BY <1>2, <1>3

(* Of a list with entries, the first is one of them.                       *)
LEMMA FirstIn ==
  ASSUME NEW S, NEW s \in Seq(S)
  PROVE  /\ s = <<>> <=> ToSet(s) = {}
         /\ s # <<>> => s[1] \in ToSet(s)
         /\ ToSet(s) \subseteq S
<1>1. DOMAIN s = 1 .. Len(s) /\ Len(s) \in Nat
  OBVIOUS
<1>2. CASE s = <<>>
  BY <1>2 DEF ToSet
<1>3. CASE s # <<>>
  <2>1. 1 \in DOMAIN s
    BY <1>1, <1>3
  <2> QED BY <1>3, <2>1 DEF ToSet
<1>4. ToSet(s) \subseteq S
  BY <1>1 DEF ToSet
<1> QED BY <1>2, <1>3, <1>4

-----------------------------------------------------------------------------
(* ModelRouter: the plan.                                                  *)

(* The models that may be asked are known, the environment's among them.   *)
LEMMA EntriesIs ==
  ASSUME list \in Seq(Models)
  PROVE  Entries \in Seq(Asked)
<1>1. CASE list = <<>>
  <2>1. Env \in Asked
    BY DEF Asked
  <2>2. <<Env>> \in Seq(Asked)
    BY <2>1
  <2> QED BY <1>1, <2>2 DEF Entries
<1>2. CASE list # <<>>
  <2>1. \A i \in 1 .. Len(list) : list[i] \in Asked
    BY DEF Asked
  <2>2. list \in Seq(Asked)
    BY <2>1
  <2> QED BY <1>2, <2>2 DEF Entries
<1> QED BY <1>1, <1>2

(* The models worth asking are some of those that may be.                  *)
LEMMA EligibleIs ==
  ASSUME NEW S, NEW entries \in Seq(S), NEW h, NEW now
  PROVE  eligible(entries, h, now) \in Seq(S)
<1> DEFINE usable == Only(entries, {m \in ToSet(entries) : isUsable(h[m])})
           warm == Only(usable, {m \in ToSet(usable) : ~ isCoolingDown(h[m], now)})
<1>1. usable \in Seq(S)
  BY OnlyIs
<1>2. warm \in Seq(S)
  BY <1>1, OnlyIs
<1>3. eligible(entries, h, now) = IF warm # <<>> THEN warm ELSE usable
  BY DEF eligible
<1> QED BY <1>1, <1>2, <1>3

Planned(plan) ==
  /\ plan.first \in Seq(Asked) /\ plan.fallback \in Seq(Asked)
  /\ ToSet(plan.first) \cap ToSet(plan.fallback) = {}
  /\ plan.first = <<>> => plan.fallback = <<>>

(* A plan asks nobody twice, and nobody later if nobody at first.          *)
LEMMA SinglePlanned ==
  ASSUME NEW entries \in Seq(Asked), NEW h, NEW now
  PROVE  Planned(planSingle(entries, h, now))
<1> DEFINE worth == eligible(entries, h, now)
           first == Only(worth, {worth[1]} \cup lastGood(worth, h))
           fallback == Only(worth, ToSet(worth) \ ToSet(first))
<1>1. worth \in Seq(Asked)
  BY EligibleIs
<1>2. first \in Seq(Asked) /\ ToSet(first) = ToSet(worth) \cap ({worth[1]} \cup lastGood(worth, h))
  BY <1>1, OnlyIs, OnlyHas
<1>3. fallback \in Seq(Asked) /\ ToSet(fallback) = ToSet(worth) \cap (ToSet(worth) \ ToSet(first))
  BY <1>1, OnlyIs, OnlyHas
<1>4. planSingle(entries, h, now) = [first |-> first, fallback |-> fallback]
  BY DEF planSingle
<1> HIDE DEF first, fallback, worth
<1>5. ASSUME first = <<>> PROVE fallback = <<>>
  <2>1. ToSet(first) = {}
    BY <1>2, <1>5, FirstIn
  <2>2. worth[1] \notin ToSet(worth)
    BY <1>2, <2>1
  <2>3. worth = <<>>
    BY <1>1, <2>2, FirstIn
  <2>4. ToSet(worth) = {}
    BY <1>1, <2>3, FirstIn
  <2>5. ToSet(fallback) = {}
    BY <1>3, <2>4
  <2> QED BY <1>3, <2>5, FirstIn
<1> QED BY <1>2, <1>3, <1>4, <1>5 DEF Planned

(* Asking several at once has no fallback.                                 *)
LEMMA MultiPlanned ==
  ASSUME NEW entries \in Seq(Asked), NEW h, NEW now
  PROVE  Planned(planMulti(entries, h, now))
<1> DEFINE worth == eligible(entries, h, now)
           n == IF Len(worth) < MULTI_COUNT THEN Len(worth) ELSE MULTI_COUNT
<1>1. worth \in Seq(Asked)
  BY EligibleIs
<1>2. n \in 0 .. Len(worth)
  BY <1>1, RosterAssumption
<1>3. SubSeq(worth, 1, n) \in Seq(Asked)
  <2>1. \A i \in 1 .. n : worth[i] \in Asked
    BY <1>1, <1>2
  <2>2. SubSeq(worth, 1, n) = [i \in 1 .. n |-> worth[i]]
    BY <1>1, <1>2
  <2> QED BY <1>2, <2>1, <2>2
<1>4. planMulti(entries, h, now) = [first |-> SubSeq(worth, 1, n), fallback |-> <<>>]
  BY DEF planMulti
<1>5. ToSet(<<>>) = {} /\ <<>> \in Seq(Asked)
  BY DEF ToSet
<1> QED BY <1>3, <1>4, <1>5 DEF Planned

-----------------------------------------------------------------------------
(* What a parse knows of its attempts.                                     *)

Stages == {"idle", "refused", "race", "fallback", "several", "answered", "failed"}
ParseRecord == [stage : Stages, several : BOOLEAN, gone : BOOLEAN,
                first : Seq(Asked), fallback : Seq(Asked), answer : Asked \cup {None}]

RouterShaped ==
  /\ list \in Seq(Models)
  /\ req \in [Reqs -> ParseRecord]
  /\ att \in [Reqs -> [Asked -> Attempt]]
  /\ clock \in Nat /\ health \in [Asked -> Health]

Active(a) == a.st \in {"asking", "noting"}

(* While a parse is under way its first models have been asked, and of     *)
(* those left for later at most one is being asked, once the first lost.   *)
Told(q, a) ==
  /\ Planned(q)
  /\ q.stage \in {"idle", "refused"} => \A m \in Asked : a[m].st = "none"
  /\ \A m \in Asked : a[m].st # "none" => m \in ToSet(q.first) \cup ToSet(q.fallback)
  /\ \A m \in Asked : a[m].st = "cancelled" => q.gone
  /\ \A m \in Asked : a[m].st = "ok" => q.answer # None
  /\ q.answer # None => a[q.answer].st = "ok"
  /\ q.stage = "answered" => q.answer # None
  /\ q.stage \in {"race", "fallback"} => q.answer = None
  /\ q.stage \in {"race", "several"} => \A m \in ToSet(q.first) : a[m].st # "none"
  /\ q.stage = "race" => q.first # <<>> /\ \A m \in ToSet(q.fallback) : a[m].st = "none"
  /\ q.stage = "several" => q.fallback = <<>>
  /\ q.stage = "fallback" =>
       /\ \A m \in ToSet(q.first) : Lost(a[m])
       /\ \A m, n \in Asked : Active(a[m]) /\ Active(a[n]) => m = n
  /\ q.stage = "failed" =>
       /\ \A m \in ToSet(q.first) : Lost(a[m])
       /\ \A m \in ToSet(q.fallback) : Lost(a[m]) \/ (q.gone /\ a[m].st = "none")

AllTold == \A r \in Reqs : Told(req[r], att[r])
ToldInv == RouterShaped /\ AllTold

(* A list of one.                                                          *)
LEMMA OneIn ==
  ASSUME NEW x
  PROVE  ToSet(<<x>>) = {x}
<1>1. DOMAIN <<x>> = {1} /\ <<x>>[1] = x
  OBVIOUS
<1> QED BY <1>1 DEF ToSet

(* A step of one parse, and of its attempts.                               *)
OfOne(r) ==
  /\ req' = [req EXCEPT ![r] = req'[r]] /\ req'[r] \in ParseRecord
  /\ att' = [att EXCEPT ![r] = att'[r]] /\ att'[r] \in [Asked -> Attempt]
  /\ Told(req'[r], att'[r])

(* A step that one parse takes, and keeps its own account, keeps all.      *)
LEMMA OfOneKeeps ==
  ASSUME ToldInv, NEW r \in Reqs, OfOne(r)
  PROVE  /\ req' \in [Reqs -> ParseRecord] /\ att' \in [Reqs -> [Asked -> Attempt]]
         /\ AllTold'
<1>1. \A s \in Reqs : s # r => req'[s] = req[s] /\ att'[s] = att[s]
  BY DEF OfOne, ToldInv, RouterShaped
<1>2. AllTold'
  BY <1>1 DEF OfOne, ToldInv, AllTold
<1>3. req' \in [Reqs -> ParseRecord]
  BY DEF OfOne, ToldInv, RouterShaped
<1>4. att' \in [Reqs -> [Asked -> Attempt]]
  BY DEF OfOne, ToldInv, RouterShaped
<1> QED BY <1>2, <1>3, <1>4

(* What an attempt may be.                                                 *)
LEMMA AttemptIs ==
  /\ \A st \in {"none", "asking", "ok", "bad", "cancelled"} :
       Is(st) \in Attempt /\ Is(st).st = st
  /\ \A ok \in BOOLEAN, at \in Nat, seen \in Health :
       [st |-> "noting", ok |-> ok, at |-> at, seen |-> seen] \in Attempt
BY DEF Attempt, Is

(* An attempt under way is one of a parse under way, or of a race that has *)
(* been won.                                                               *)
LEMMA ActiveStage ==
  ASSUME NEW q, NEW a, Told(q, a), q \in ParseRecord, NEW m \in Asked, Active(a[m])
  PROVE  /\ q.stage \in {"race", "fallback", "several", "answered"}
         /\ m \in ToSet(q.first) \cup ToSet(q.fallback)
         /\ a[m].st # "none" /\ a[m].st # "ok" /\ ~ Lost(a[m])
<1>1. a[m].st \in {"asking", "noting"}
  BY DEF Active
<1>2. m \in ToSet(q.first) \cup ToSet(q.fallback)
  BY <1>1 DEF Told
<1>3. q.stage \notin {"idle", "refused"}
  BY <1>1 DEF Told
<1>4. q.stage # "failed"
  BY <1>1, <1>2 DEF Told, Lost
<1> QED BY <1>1, <1>2, <1>3, <1>4 DEF ParseRecord, Stages, Lost

(* The first answer is kept, and a later one takes nothing away.           *)
LEMMA ResolveKeeps ==
  ASSUME ToldInv, NEW r \in Reqs, NEW m \in Asked, Active(att[r][m]), Resolve(r, m)
  PROVE  OfOne(r)
<1> DEFINE q == req[r]
           a == att[r]
           b == [a EXCEPT ![m] = Is("ok")]
           stage == IF q.stage = "several" /\ \E n \in ToSet(q.first) : ~ Settled(b[n])
                    THEN q.stage ELSE "answered"
           w == [q EXCEPT !.answer = IF q.answer = None THEN m ELSE q.answer, !.stage = stage]
<1>1. q \in ParseRecord /\ a \in [Asked -> Attempt] /\ Told(q, a)
  BY DEF ToldInv, RouterShaped, AllTold
<1>2. att' = [att EXCEPT ![r] = b]
  BY DEF Resolve
<1>3. req' = [req EXCEPT ![r] = w]
  BY DEF Resolve, ToldInv, RouterShaped, ParseRecord
<1>4. req'[r] = w /\ att'[r] = b
  BY <1>2, <1>3 DEF ToldInv, RouterShaped
<1>5. b \in [Asked -> Attempt] /\ b[m].st = "ok" /\ \A n \in Asked : n # m => b[n] = a[n]
  BY <1>1, AttemptIs
<1>6. m # None /\ q.answer \in Asked \cup {None}
  BY <1>1, RouterAssumption DEF Asked, ParseRecord
<1>7. stage \in {"several", "answered"} /\ (stage = "several" => q.stage = "several")
  OBVIOUS
<1>8. /\ w.stage = stage /\ w.answer = (IF q.answer = None THEN m ELSE q.answer)
      /\ w.first = q.first /\ w.fallback = q.fallback /\ w.gone = q.gone /\ w.several = q.several
  BY <1>1 DEF ParseRecord
<1>9. w \in ParseRecord
  BY <1>1, <1>6, <1>7 DEF ParseRecord, Stages
<1>10. w.answer # None /\ w.answer \in Asked /\ b[w.answer].st = "ok"
  BY <1>1, <1>5, <1>6, <1>8 DEF Told
<1> HIDE DEF w, b, stage
<1>11. Planned(w)
  BY <1>1, <1>8 DEF Told, Planned
<1>12. m \in ToSet(q.first) \cup ToSet(q.fallback) /\ a[m].st # "none"
  BY <1>1, ActiveStage
<1>13. ToSet(q.first) \subseteq Asked
  BY <1>1, FirstIn DEF Told, Planned
<1>14. \A n \in Asked : /\ b[n].st # "none" => n \in ToSet(q.first) \cup ToSet(q.fallback)
                        /\ b[n].st = "cancelled" => q.gone
                        /\ a[n].st # "none" => b[n].st # "none"
  BY <1>1, <1>5, <1>12 DEF Told
<1>15. ASSUME stage = "several" PROVE Told(w, b)
  <2>1. q.stage = "several"
    BY <1>7, <1>15
  <2>2. q.fallback = <<>> /\ \A n \in ToSet(q.first) : a[n].st # "none"
    BY <1>1, <2>1 DEF Told
  <2>3. \A n \in ToSet(q.first) : b[n].st # "none"
    BY <1>13, <1>14, <2>2
  <2> QED BY <1>8, <1>10, <1>11, <1>14, <1>15, <2>2, <2>3 DEF Told
<1>16. ASSUME stage = "answered" PROVE Told(w, b)
  BY <1>8, <1>10, <1>11, <1>14, <1>16 DEF Told
<1>17. Told(w, b)
  BY <1>7, <1>15, <1>16
<1> QED BY <1>2, <1>3, <1>4, <1>5, <1>9, <1>17 DEF OfOne

(* The end of an attempt that gave no answer.                              *)
Loses(a, b, m) ==
  /\ b \in [Asked -> Attempt] /\ Lost(b[m])
  /\ \A n \in Asked : n # m => b[n] = a[n]

(* A loss among several asked at once keeps the account.                   *)
LEMMA SeveralKeeps ==
  ASSUME ToldInv, NEW r \in Reqs, NEW m \in Asked, Active(att[r][m]),
         NEW b, Loses(att[r], b, m), (b[m].st = "cancelled" => req[r].gone), RejectSeveral(r, b)
  PROVE  OfOne(r)
<1> DEFINE q == req[r]
           a == att[r]
           stage == IF \E n \in ToSet(q.first) : ~ Settled(b[n]) THEN q.stage
                    ELSE IF q.answer = None THEN "failed" ELSE "answered"
           w == [q EXCEPT !.stage = stage]
<1>1. q \in ParseRecord /\ a \in [Asked -> Attempt] /\ Told(q, a) /\ q.stage = "several"
  BY DEF ToldInv, RouterShaped, AllTold, RejectSeveral
<1>2. att' = [att EXCEPT ![r] = b]
  BY DEF RejectSeveral
<1>3. req' = [req EXCEPT ![r] = w]
  BY DEF RejectSeveral, ToldInv, RouterShaped, ParseRecord
<1>4. req'[r] = w /\ att'[r] = b
  BY <1>2, <1>3 DEF ToldInv, RouterShaped
<1>5. stage \in {"several", "failed", "answered"}
  BY <1>1
<1>6. /\ w.stage = stage /\ w.answer = q.answer
      /\ w.first = q.first /\ w.fallback = q.fallback /\ w.gone = q.gone /\ w.several = q.several
      /\ w \in ParseRecord
  BY <1>1, <1>5 DEF ParseRecord, Stages
<1>7. Planned(w) /\ q.fallback = <<>> /\ ToSet(q.fallback) = {}
  BY <1>1, <1>6, FirstIn DEF Told, Planned
<1>8. m \in ToSet(q.first) \cup ToSet(q.fallback) /\ a[m].st # "none" /\ a[m].st # "ok"
  BY <1>1, ActiveStage
<1>9. b[m].st \in {"bad", "cancelled"}
  BY DEF Loses, Lost
<1>10. q.answer # None => b[q.answer].st = "ok" /\ q.answer \in Asked
  <2>1. q.answer # None => q.answer \in Asked /\ a[q.answer].st = "ok"
    BY <1>1 DEF Told, ParseRecord
  <2> QED BY <1>8, <2>1 DEF Loses
<1>11. ASSUME stage = "failed" PROVE \A n \in ToSet(q.first) : Lost(b[n])
  <2>1. q.answer = None /\ \A n \in ToSet(q.first) : Settled(b[n])
    BY <1>1, <1>11
  <2>2. \A n \in Asked : b[n].st # "ok"
    BY <1>1, <1>9, <2>1 DEF Told, Loses
  <2>3. ToSet(q.first) \subseteq Asked
    BY <1>1, FirstIn DEF Told, Planned
  <2> QED BY <2>1, <2>2, <2>3 DEF Settled, Lost
<1>12. stage = "answered" => q.answer # None
  BY <1>1
<1> HIDE DEF w, stage
<1>13. ToSet(q.first) \subseteq Asked
  BY <1>1, FirstIn DEF Told, Planned
<1>14. Told(w, b)
  BY <1>1, <1>5, <1>6, <1>7, <1>8, <1>9, <1>10, <1>11, <1>12, <1>13 DEF Told, Loses
<1>15. b \in [Asked -> Attempt]
  BY DEF Loses
<1> QED BY <1>2, <1>3, <1>4, <1>6, <1>14, <1>15 DEF OfOne

(* A step of a race or a fallback: where its attempts and its stage are    *)
(* told, the rest follows.                                                 *)
LEMMA ThenKeeps ==
  ASSUME ToldInv, NEW r \in Reqs, NEW b \in [Asked -> Attempt], NEW stage \in Stages,
         Then(r, b, stage), Told([req[r] EXCEPT !.stage = stage], b)
  PROVE  OfOne(r)
<1> DEFINE w == [req[r] EXCEPT !.stage = stage]
<1>1. att' = [att EXCEPT ![r] = b]
  BY DEF Then
<1>2. req' = [req EXCEPT ![r] = w]
  BY DEF Then, ToldInv, RouterShaped, ParseRecord
<1>3. req'[r] = w /\ att'[r] = b
  BY <1>1, <1>2 DEF ToldInv, RouterShaped
<1>4. w \in ParseRecord
  BY DEF ToldInv, RouterShaped, ParseRecord
<1> QED BY <1>1, <1>2, <1>3, <1>4 DEF OfOne

(* A race, a fallback, or a race already won, goes on or ends in failure.  *)
LEMMA SingleKeeps ==
  ASSUME ToldInv, NEW r \in Reqs, NEW m \in Asked, Active(att[r][m]),
         NEW b, Loses(att[r], b, m), (b[m].st = "cancelled" => req[r].gone), RejectSingle(r, m, b)
  PROVE  OfOne(r)
<1> DEFINE q == req[r]
           a == att[r]
           left == Only(q.fallback, {n \in Asked : b[n].st = "none"})
<1>1. q \in ParseRecord /\ a \in [Asked -> Attempt] /\ Told(q, a)
  BY DEF ToldInv, RouterShaped, AllTold
<1>2. /\ m \in ToSet(q.first) \cup ToSet(q.fallback) /\ a[m].st # "none" /\ a[m].st # "ok" /\ ~ Lost(a[m])
      /\ q.stage \in {"race", "fallback", "several", "answered"}
  BY <1>1, ActiveStage
<1>3. b[m].st \in {"bad", "cancelled"} /\ b \in [Asked -> Attempt] /\ \A n \in Asked : n # m => b[n] = a[n]
  BY DEF Loses, Lost
<1>4. Planned(q) /\ ToSet(q.first) \subseteq Asked /\ ToSet(q.fallback) \subseteq Asked
  BY <1>1, FirstIn DEF Told, Planned
<1>5. q.answer # None => b[q.answer].st = "ok" /\ q.answer \in Asked
  <2>1. q.answer # None => q.answer \in Asked /\ a[q.answer].st = "ok"
    BY <1>1 DEF Told, ParseRecord
  <2> QED BY <1>2, <1>3, <2>1
<1>6. \A st : LET w == [q EXCEPT !.stage = st]
              IN /\ w.stage = st /\ w.answer = q.answer /\ w.first = q.first
                 /\ w.fallback = q.fallback /\ w.gone = q.gone
  BY <1>1 DEF ParseRecord
<1>7. \A st : Planned([q EXCEPT !.stage = st])
  BY <1>4, <1>6 DEF Planned
<1>8. \A n \in Asked : /\ b[n].st = "ok" => q.answer # None
                       /\ b[n].st = "cancelled" => q.gone
                       /\ b[n].st # "none" => n \in ToSet(q.first) \cup ToSet(q.fallback)
                       /\ (a[n].st # "none" => b[n].st # "none")
  BY <1>1, <1>2, <1>3 DEF Told
<1>9. CASE /\ q.stage = "answered" \/ (q.stage = "race" /\ ~ RaceLost(q, b))
           /\ Then(r, b, q.stage)
  <2>1. Told([q EXCEPT !.stage = q.stage], b)
    <3>1. [q EXCEPT !.stage = q.stage] = q
      BY <1>1 DEF ParseRecord
    <3>2. ASSUME q.stage = "race", NEW n \in ToSet(q.fallback) PROVE b[n].st = "none"
      <4>1. n \in Asked /\ a[n].st = "none"
        BY <1>1, <1>4, <3>2 DEF Told
      <4> QED BY <1>2, <1>3, <4>1
    <3>3. \A n \in ToSet(q.first) : n \in Asked /\ (q.stage = "race" => b[n].st # "none")
      BY <1>1, <1>4, <1>8 DEF Told
    <3> QED BY <1>1, <1>4, <1>5, <1>8, <1>9, <3>1, <3>2, <3>3 DEF Told
  <2>2. q.stage \in Stages
    BY <1>1 DEF ParseRecord
  <2> QED BY <1>3, <1>9, <2>1, <2>2, ThenKeeps
<1>10. CASE /\ q.stage = "fallback" \/ (q.stage = "race" /\ RaceLost(q, b))
            /\ \/ (EndsIt(r, m, b) \/ left = <<>>) /\ Then(r, b, "failed")
               \/ ~ EndsIt(r, m, b) /\ left # <<>> /\ AskNext(r, b, left[1])
  <2>1. \A n \in ToSet(q.first) : Lost(b[n])
    <3>1. CASE q.stage = "race" /\ RaceLost(q, b)
      BY <3>1 DEF RaceLost
    <3>2. CASE q.stage = "fallback"
      BY <1>1, <1>2, <1>3, <1>4, <3>2 DEF Told
    <3> QED BY <1>10, <3>1, <3>2
  <2>2. \A n \in ToSet(q.fallback) : Lost(b[n]) \/ b[n].st = "none"
    <3>1. ASSUME NEW n \in ToSet(q.fallback), q.stage = "race" PROVE Lost(b[n]) \/ b[n].st = "none"
      <4>1. n \in Asked /\ a[n].st = "none"
        BY <1>1, <1>4, <3>1 DEF Told
      <4> QED BY <1>2, <1>3, <4>1 DEF Lost
    <3>2. ASSUME NEW n \in ToSet(q.fallback), q.stage = "fallback" PROVE Lost(b[n]) \/ b[n].st = "none"
      <4>1. CASE n = m
        BY <1>3, <4>1 DEF Lost
      <4>2. CASE n # m
        <5>1. n \in Asked /\ b[n] = a[n] /\ a[n] \in Attempt
          BY <1>1, <1>3, <1>4, <4>2
        <5>2. ~ Active(a[n])
          BY <1>1, <3>2, <4>2, <5>1 DEF Told
        <5>3. a[n].st # "ok"
          BY <1>1, <3>2, <5>1 DEF Told
        <5>4. a[n].st \in {"none", "asking", "ok", "bad", "cancelled", "noting"}
          BY <5>1 DEF Attempt
        <5> QED BY <5>1, <5>2, <5>3, <5>4 DEF Active, Lost
      <4> QED BY <4>1, <4>2
    <3> QED BY <1>10, <3>1, <3>2
  <2>3. q.answer = None
    BY <1>1, <1>10 DEF Told
  <2>4. /\ left \in Seq(Asked) /\ ToSet(left) = ToSet(q.fallback) \cap {n \in Asked : b[n].st = "none"}
    BY <1>4, OnlyIs, OnlyHas DEF Planned
  <2>5. ASSUME EndsIt(r, m, b) PROVE q.gone
    <3>1. CASE q.stage = "race"
      <4>1. q.first[1] \in Asked /\ b[q.first[1]].st = "cancelled"
        BY <1>1, <1>4, <2>5, <3>1, FirstIn DEF EndsIt, Told, Planned
      <4> QED BY <1>8, <4>1
    <3>2. CASE q.stage # "race"
      BY <1>8, <2>5, <3>2 DEF EndsIt
    <3> QED BY <3>1, <3>2
  <2>6. ASSUME NEW c \in [Asked -> Attempt], q.gone,
               \A n \in Asked : /\ c[n].st # "ok"
                                /\ c[n].st # "none" => n \in ToSet(q.first) \cup ToSet(q.fallback),
               \A n \in ToSet(q.first) : Lost(c[n]),
               \A n \in ToSet(q.fallback) : Lost(c[n]) \/ c[n].st = "none"
        PROVE  Told([q EXCEPT !.stage = "failed"], c)
    BY <1>6, <1>7, <2>3, <2>6 DEF Told
  <2>7. \A n \in Asked : b[n].st # "ok"
    BY <1>8, <2>3
  <2>8. CASE EndsIt(r, m, b) /\ Then(r, b, "failed")
    <3>1. Told([q EXCEPT !.stage = "failed"], b)
      BY <1>3, <1>8, <2>1, <2>2, <2>5, <2>6, <2>7, <2>8
    <3> QED BY <1>3, <2>8, <3>1, ThenKeeps DEF Stages
  <2>9. CASE left = <<>> /\ Then(r, b, "failed")
    <3>1. ToSet(left) = {}
      BY <2>4, <2>9, FirstIn
    <3>2. \A n \in ToSet(q.fallback) : Lost(b[n])
      BY <1>4, <2>2, <2>4, <3>1
    <3>3. Told([q EXCEPT !.stage = "failed"], b)
      BY <1>6, <1>7, <1>8, <2>1, <2>3, <2>7, <3>2 DEF Told
    <3> QED BY <1>3, <2>9, <3>3, ThenKeeps DEF Stages
  <2>10. CASE left # <<>> /\ AskNext(r, b, left[1])
    <3> DEFINE n == left[1]
    <3>1. n \in ToSet(q.fallback) /\ n \in Asked /\ b[n].st = "none"
      BY <2>4, <2>10, FirstIn
    <3>2. CASE q.gone /\ Then(r, [b EXCEPT ![n] = Is("cancelled")], "failed")
      <4> DEFINE c == [b EXCEPT ![n] = Is("cancelled")]
      <4>1. /\ c \in [Asked -> Attempt] /\ c[n].st = "cancelled"
            /\ \A k \in Asked : k # n => c[k] = b[k]
        BY <1>3, <3>1, AttemptIs
      <4> HIDE DEF c, n
      <4>2. \A k \in Asked : /\ c[k].st # "ok"
                             /\ c[k].st # "none" => k \in ToSet(q.first) \cup ToSet(q.fallback)
        BY <1>8, <2>7, <3>1, <4>1
      <4>3. \A k \in ToSet(q.first) : Lost(c[k])
        BY <1>4, <2>1, <4>1 DEF Lost
      <4>4. \A k \in ToSet(q.fallback) : Lost(c[k]) \/ c[k].st = "none"
        BY <1>4, <2>2, <4>1 DEF Lost
      <4>5. Told([q EXCEPT !.stage = "failed"], c)
        BY <2>6, <3>2, <4>1, <4>2, <4>3, <4>4
      <4> QED BY <3>2, <4>1, <4>5, ThenKeeps DEF Stages, c
    <3>3. CASE ~ q.gone /\ Then(r, AskedIn(b, <<n>>), "fallback")
      <4> DEFINE c == AskedIn(b, <<n>>)
      <4>1. ToSet(<<n>>) = {n}
        BY OneIn
      <4>2. /\ c \in [Asked -> Attempt] /\ c[n].st = "asking"
            /\ \A k \in Asked : k # n => c[k] = b[k]
        BY <1>3, <3>1, <4>1, AttemptIs DEF AskedIn
      <4> HIDE DEF c, n
      <4>3. \A k \in Asked : /\ c[k].st # "ok"
                             /\ c[k].st = "cancelled" => q.gone
                             /\ c[k].st # "none" => k \in ToSet(q.first) \cup ToSet(q.fallback)
        BY <1>8, <2>7, <3>1, <4>2
      <4>4. \A k \in ToSet(q.first) : Lost(c[k])
        <5>1. n \notin ToSet(q.first)
          BY <1>4, <3>1 DEF Planned
        <5> QED BY <1>4, <2>1, <4>2, <5>1
      <4>5. \A k \in Asked : Active(c[k]) => k = n
        <5>1. ASSUME NEW k \in Asked, k # n, Active(c[k]) PROVE FALSE
          <6>1. c[k] = b[k] /\ b[k].st \in {"asking", "noting"}
            BY <4>2, <5>1 DEF Active
          <6>2. k \in ToSet(q.first) \cup ToSet(q.fallback)
            BY <1>8, <6>1
          <6> QED BY <2>1, <2>2, <6>1, <6>2 DEF Lost
        <5> QED BY <5>1
      <4>6. Told([q EXCEPT !.stage = "fallback"], c)
        BY <1>6, <1>7, <2>3, <4>3, <4>4, <4>5 DEF Told
      <4> QED BY <3>3, <4>2, <4>6, ThenKeeps DEF Stages, c
    <3> QED BY <2>10, <3>2, <3>3 DEF AskNext
  <2> QED BY <1>10, <2>8, <2>9, <2>10
<1> QED BY <1>9, <1>10 DEF RejectSingle

(* What an attempt teaches leaves a health.                                *)
LEMMA HealthIs ==
  /\ Clean \in Health
  /\ \A row, seen \in Health, ok \in BOOLEAN, at \in Nat : afterAttempt(row, seen, ok, at) \in Health
  /\ \A row \in Health : Reenabled(row) \in Health
  /\ \A row \in Health, on \in BOOLEAN : [row EXCEPT !.enabled = on] \in Health
<1>1. Clean \in Health
  BY DEF Clean, Health, Moment, Never
<1>2. ASSUME NEW row \in Health, NEW seen \in Health, NEW at \in Nat PROVE Failed(row, seen, at) \in Health
  <2> DEFINE old == seen.failStreakStartedAt = Never \/ at - seen.failStreakStartedAt > DISABLE_WINDOW
             failures == IF old THEN 1 ELSE seen.consecutiveFailures + 1
             start == IF old THEN at ELSE seen.failStreakStartedAt
             off == row.autoDisabled \/ failures >= DISABLE_FAILURES
  <2>1. failures \in Nat /\ start \in Moment /\ off \in BOOLEAN /\ at \in Moment
    BY DEF Health, Moment
  <2>2. Failed(row, seen, at) =
          [row EXCEPT !.consecutiveFailures = failures, !.lastFailureAt = at,
                      !.failStreakStartedAt = start, !.autoDisabled = off]
    BY DEF Failed, Health
  <2> HIDE DEF old, failures, start, off
  <2> QED BY <2>1, <2>2 DEF Health
<1>3. ASSUME NEW row \in Health, NEW at \in Nat PROVE Succeeded(row, at) \in Health
  BY DEF Succeeded, Health, Moment, Never
<1>4. \A row \in Health : Reenabled(row) \in Health
  BY DEF Reenabled, Health, Moment, Never
<1>5. \A row \in Health, on \in BOOLEAN : [row EXCEPT !.enabled = on] \in Health
  BY DEF Health
<1> QED BY <1>1, <1>2, <1>3, <1>4, <1>5 DEF afterAttempt

(* However an attempt ends, its parse is told.                             *)
LEMMA RejectKeeps ==
  ASSUME ToldInv, NEW r \in Reqs, NEW m \in Asked, Active(att[r][m]),
         NEW st \in {"bad", "cancelled"}, (st = "cancelled" => req[r].gone), Reject(r, m, st)
  PROVE  OfOne(r)
<1> DEFINE b == [att[r] EXCEPT ![m] = Is(st)]
<1>1. Loses(att[r], b, m) /\ b[m].st = st
  BY AttemptIs DEF Loses, Lost, ToldInv, RouterShaped
<1>2. RejectSeveral(r, b) \/ RejectSingle(r, m, b)
  BY DEF Reject
<1> HIDE DEF b
<1> QED BY <1>1, <1>2, SeveralKeeps, SingleKeeps

(* An attempt that ends, either way, keeps the account.                    *)
LEMMA SettleKeeps ==
  ASSUME ToldInv, NEW r \in Reqs, NEW m \in Asked, Active(att[r][m]),
         NEW ok \in BOOLEAN, Settle(r, m, ok)
  PROVE  OfOne(r)
BY ResolveKeeps, RejectKeeps DEF Settle

(* A request is planned, refused or without a model to ask.                *)
LEMMA BeginKeeps ==
  ASSUME ToldInv, NEW r \in Reqs, NEW several \in BOOLEAN, Begin(r, several)
  PROVE  OfOne(r)
<1> DEFINE plan == IF several THEN planMulti(Entries, health, clock) ELSE planSingle(Entries, health, clock)
           As(stage) == [Idle EXCEPT !.stage = stage, !.several = several,
                                     !.first = plan.first, !.fallback = plan.fallback]
           a == att[r]
<1>1. Entries \in Seq(Asked)
  BY EntriesIs DEF ToldInv, RouterShaped
<1>2. Planned(plan)
  BY <1>1, SinglePlanned, MultiPlanned
<1>3. /\ req[r].stage = "idle" /\ a \in [Asked -> Attempt]
      /\ \A m \in Asked : a[m].st = "none"
  BY DEF Begin, ToldInv, RouterShaped, AllTold, Told
<1>4. /\ \/ req' = [req EXCEPT ![r] = As("refused")] /\ att' = att
         \/ /\ req' = [req EXCEPT ![r] = As("failed")] /\ att' = att
            /\ plan.first = <<>>
         \/ /\ req' = [req EXCEPT ![r] = As(IF several THEN "several" ELSE "race")]
            /\ att' = [att EXCEPT ![r] = AskedIn(a, plan.first)]
            /\ plan.first # <<>>
  BY DEF Begin
<1>5. several => plan.fallback = <<>>
  BY DEF planMulti
<1> HIDE DEF plan
<1>6. \A stage \in Stages : /\ As(stage) \in ParseRecord /\ Planned(As(stage))
                            /\ As(stage).stage = stage /\ As(stage).answer = None /\ ~ As(stage).gone
                            /\ As(stage).first = plan.first /\ As(stage).fallback = plan.fallback
  BY <1>2 DEF Idle, ParseRecord, Planned
<1>7. att = [att EXCEPT ![r] = a]
  BY DEF ToldInv, RouterShaped
<1>8. \A w, b : req' = [req EXCEPT ![r] = w] => req'[r] = w
  BY DEF ToldInv, RouterShaped
<1>9. \A b : att' = [att EXCEPT ![r] = b] => att'[r] = b
  BY DEF ToldInv, RouterShaped
<1> HIDE DEF As
<1>10. CASE req' = [req EXCEPT ![r] = As("refused")] /\ att' = att
  <2>1. Told(As("refused"), a)
    BY <1>3, <1>6 DEF Told, Stages
  <2> QED BY <1>3, <1>6, <1>7, <1>8, <1>10, <2>1 DEF OfOne, Stages
<1>11. CASE req' = [req EXCEPT ![r] = As("failed")] /\ att' = att /\ plan.first = <<>>
  <2>1. ToSet(plan.first) = {} /\ ToSet(plan.fallback) = {}
    BY <1>2, <1>11, FirstIn DEF Planned
  <2>2. Told(As("failed"), a)
    BY <1>3, <1>6, <2>1 DEF Told, Stages
  <2> QED BY <1>3, <1>6, <1>7, <1>8, <1>11, <2>2 DEF OfOne, Stages
<1>12. CASE /\ req' = [req EXCEPT ![r] = As(IF several THEN "several" ELSE "race")]
            /\ att' = [att EXCEPT ![r] = AskedIn(a, plan.first)]
            /\ plan.first # <<>>
  <2> DEFINE b == AskedIn(a, plan.first)
             stage == IF several THEN "several" ELSE "race"
  <2>1. /\ b \in [Asked -> Attempt]
        /\ \A m \in Asked : b[m].st = IF m \in ToSet(plan.first) THEN "asking" ELSE "none"
    BY <1>3, AttemptIs DEF AskedIn
  <2>2. ToSet(plan.first) \subseteq Asked /\ ToSet(plan.fallback) \subseteq Asked
    BY <1>2, FirstIn DEF Planned
  <2>3. /\ stage \in Stages /\ stage \in {"several", "race"}
        /\ stage = "several" => plan.fallback = <<>>
    BY <1>5 DEF Stages
  <2> HIDE DEF b, stage
  <2>4. \A m \in ToSet(plan.fallback) : b[m].st = "none"
    BY <1>2, <2>1, <2>2 DEF Planned
  <2>5. \A m \in ToSet(plan.first) : b[m].st # "none"
    BY <2>1, <2>2
  <2>6. Told(As(stage), b)
    BY <1>6, <1>12, <2>1, <2>3, <2>4, <2>5 DEF Told
  <2>7. req'[r] = As(stage) /\ att'[r] = b
    BY <1>8, <1>9, <1>12 DEF b, stage
  <2> QED BY <1>6, <1>12, <2>1, <2>3, <2>6, <2>7 DEF OfOne, b, stage
<1> QED BY <1>4, <1>10, <1>11, <1>12

(* The client leaves.                                                      *)
LEMMA LeaveKeeps ==
  ASSUME ToldInv, NEW r \in Reqs, Leave(r)
  PROVE  OfOne(r)
<1> DEFINE w == [req[r] EXCEPT !.gone = TRUE]
<1>1. req[r] \in ParseRecord /\ Told(req[r], att[r]) /\ att[r] \in [Asked -> Attempt]
  BY DEF ToldInv, RouterShaped, AllTold
<1>2. req' = [req EXCEPT ![r] = w] /\ att' = att
  BY DEF Leave, ToldInv, RouterShaped
<1>3. /\ w \in ParseRecord /\ w.stage = req[r].stage /\ w.gone /\ w.answer = req[r].answer
      /\ w.first = req[r].first /\ w.fallback = req[r].fallback
  BY <1>1 DEF ParseRecord
<1>4. req'[r] = w /\ att'[r] = att[r] /\ att' = [att EXCEPT ![r] = att[r]]
  BY <1>2 DEF ToldInv, RouterShaped
<1> HIDE DEF w
<1>5. Told(w, att[r])
  BY <1>1, <1>3 DEF Told, Planned
<1> QED BY <1>1, <1>2, <1>3, <1>4, <1>5 DEF OfOne

(* An outcome is noted.                                                    *)
LEMMA NoteKeeps ==
  ASSUME ToldInv, NEW r \in Reqs, NEW m \in Asked, NEW ok \in BOOLEAN, Note(r, m, ok)
  PROVE  OfOne(r)
<1> DEFINE a == att[r]
           x == [st |-> "noting", ok |-> ok, at |-> clock, seen |-> health[m]]
           b == [a EXCEPT ![m] = x]
<1>1. /\ req[r] \in ParseRecord /\ Told(req[r], a) /\ a \in [Asked -> Attempt]
      /\ a[m].st = "asking" /\ Active(a[m])
  BY DEF Note, At, Active, ToldInv, RouterShaped, AllTold
<1>2. CASE m \in ToSet(list) /\ att' = [att EXCEPT ![r][m] = x] /\ UNCHANGED req
  <2>1. x \in Attempt /\ x.st = "noting"
    BY AttemptIs DEF ToldInv, RouterShaped
  <2>2. att' = [att EXCEPT ![r] = b]
    BY <1>2 DEF ToldInv, RouterShaped
  <2>3. b \in [Asked -> Attempt] /\ b[m].st = "noting" /\ \A n \in Asked : n # m => b[n] = a[n]
    BY <1>1, <2>1
  <2>4. /\ req' = [req EXCEPT ![r] = req[r]] /\ req'[r] = req[r] /\ att'[r] = b
    BY <1>2, <2>2 DEF ToldInv, RouterShaped
  <2> HIDE DEF b
  <2>5. \A n \in Asked : Active(b[n]) => Active(a[n])
    BY <1>1, <2>3 DEF Active
  <2>6. /\ req[r].stage \in {"race", "fallback", "several", "answered"}
        /\ m \in ToSet(req[r].first) \cup ToSet(req[r].fallback)
    BY <1>1, ActiveStage
  <2>7. /\ ToSet(req[r].first) \subseteq Asked /\ ToSet(req[r].fallback) \subseteq Asked
    BY <1>1, FirstIn DEF Told, Planned
  <2>8. req[r].answer # None => req[r].answer \in Asked /\ b[req[r].answer].st = "ok"
    <3>1. req[r].answer # None => req[r].answer \in Asked /\ a[req[r].answer].st = "ok"
      BY <1>1 DEF Told, ParseRecord
    <3> QED BY <1>1, <2>3, <3>1
  <2>9. req[r].stage = "race" => \A n \in ToSet(req[r].fallback) : b[n].st = "none"
    BY <1>1, <2>3, <2>7 DEF Told
  <2>10. req[r].stage = "fallback" => \A n \in ToSet(req[r].first) : Lost(b[n])
    BY <1>1, <2>3, <2>7 DEF Told, Lost
  <2>11. \A n \in Asked : /\ a[n].st # "none" => b[n].st # "none"
                          /\ b[n].st # "none" => a[n].st # "none"
                          /\ b[n].st \in {"ok", "cancelled"} => b[n] = a[n]
    BY <1>1, <2>3
  <2>12. Told(req[r], b)
    BY <1>1, <2>5, <2>6, <2>7, <2>8, <2>9, <2>10, <2>11 DEF Told
  <2> QED BY <1>1, <2>2, <2>3, <2>4, <2>12 DEF OfOne
<1>3. CASE Settle(r, m, ok)
  BY <1>1, <1>3, SettleKeeps
<1> QED BY <1>2, <1>3 DEF Note

(* Every step of the router keeps the account of every parse: one case per *)
(* action.                                                                 *)
LEMMA ToldStep == ToldInv /\ [RouterNext]_routerVars => ToldInv'
<1> SUFFICES ASSUME ToldInv, [RouterNext]_routerVars PROVE ToldInv'
  OBVIOUS
<1>1. \A r \in Reqs : OfOne(r) =>
        /\ req' \in [Reqs -> ParseRecord] /\ att' \in [Reqs -> [Asked -> Attempt]] /\ AllTold'
  BY OfOneKeeps
<1>2. UNCHANGED <<req, att>> =>
        /\ req' \in [Reqs -> ParseRecord] /\ att' \in [Reqs -> [Asked -> Attempt]] /\ AllTold'
  BY DEF ToldInv, RouterShaped, AllTold
<1>3. ASSUME NEW r \in Reqs, Leave(r) PROVE ToldInv'
  BY <1>1, <1>3, LeaveKeeps DEF Leave, ToldInv, RouterShaped
<1>4. ASSUME NEW r \in Reqs, NEW several \in BOOLEAN, Begin(r, several) PROVE ToldInv'
  BY <1>1, <1>4, BeginKeeps DEF Begin, ToldInv, RouterShaped
<1>5. ASSUME NEW r \in Reqs, NEW m \in Asked, NEW ok \in BOOLEAN, Note(r, m, ok) PROVE ToldInv'
  BY <1>1, <1>5, NoteKeeps DEF Note, ToldInv, RouterShaped
<1>6. ASSUME NEW r \in Reqs, NEW m \in Asked, CutOff(r, m) PROVE ToldInv'
  <2>1. Active(att[r][m]) /\ req[r].gone /\ Reject(r, m, "cancelled")
    BY <1>6 DEF CutOff, At, Active
  <2>2. OfOne(r)
    BY <2>1, RejectKeeps
  <2> QED BY <1>1, <1>6, <2>2 DEF CutOff, ToldInv, RouterShaped
<1>7. ASSUME NEW r \in Reqs, NEW m \in Asked, WriteRow(r, m) PROVE ToldInv'
  <2> DEFINE x == att[r][m]
  <2>1. x \in Attempt /\ x.st = "noting" /\ Active(x) /\ Settle(r, m, x.ok)
    BY <1>7 DEF WriteRow, At, Active, ToldInv, RouterShaped
  <2>2. x.ok \in BOOLEAN /\ x.at \in Nat /\ x.seen \in Health
    BY <2>1 DEF Attempt
  <2>3. OfOne(r)
    BY <2>1, <2>2, SettleKeeps
  <2>4. health' = health \/ health' = [health EXCEPT ![m] = afterAttempt(health[m], x.seen, x.ok, x.at)]
    BY <1>7 DEF WriteRow, ToldInv, RouterShaped
  <2>5. health' \in [Asked -> Health]
    <3>1. afterAttempt(health[m], x.seen, x.ok, x.at) \in Health
      BY <2>2, HealthIs DEF ToldInv, RouterShaped
    <3> QED BY <2>4, <3>1 DEF ToldInv, RouterShaped
  <2>6. list' = list /\ clock' = clock
    BY <1>7 DEF WriteRow
  <2> QED BY <1>1, <2>3, <2>5, <2>6 DEF ToldInv, RouterShaped
<1>8. ASSUME NEW m \in Models, Reenable(m) PROVE ToldInv'
  <2>1. Reenabled(health[m]) \in Health
    BY HealthIs DEF ToldInv, RouterShaped, Asked
  <2>2. health' = [health EXCEPT ![m] = Reenabled(health[m])]
    BY <1>8 DEF Reenable, ToldInv, RouterShaped
  <2> QED BY <1>2, <1>8, <2>1, <2>2 DEF Reenable, ToldInv, RouterShaped
<1>9. ASSUME NEW sent \in Sent, WriteRoster(sent) PROVE ToldInv'
  <2>1. list' = Only(sent.list, ToSet(list) \cup unborn) /\ sent.list \in Seq(Models)
    BY <1>9, RouterAssumption DEF WriteRoster
  <2>2. list' \in Seq(Models)
    BY <2>1, OnlyIs
  <2>3. \A m \in Asked : [health[m] EXCEPT !.enabled = m \in sent.on] \in Health /\ Clean \in Health
    <3>1. \A m \in Asked : health[m] \in Health /\ (m \in sent.on) \in BOOLEAN
      BY DEF ToldInv, RouterShaped
    <3> QED BY <3>1, HealthIs
  <2>4. health' \in [Asked -> Health]
    BY <1>9, <2>3 DEF WriteRoster
  <2> QED BY <1>2, <1>9, <2>2, <2>4 DEF WriteRoster, ToldInv, RouterShaped
<1>10. CASE Tick
  BY <1>2, <1>10 DEF Tick, ToldInv, RouterShaped
<1>11. CASE UNCHANGED routerVars
  BY <1>2, <1>11 DEF routerVars, ToldInv, RouterShaped
<1> QED BY <1>3, <1>4, <1>5, <1>6, <1>7, <1>8, <1>9, <1>10, <1>11 DEF RouterNext, Progress

(* A function from the numbers up to N, each of whose values is made of    *)
(* the one before.                                                         *)
Chain(f, first, step, n) ==
  /\ f[0] = first
  /\ \A k \in 1 .. n : f[k] = step[<<k, f[k - 1]>>]

(* There is one: by the least length for which there were none.            *)
LEMMA ChainExists ==
  ASSUME NEW V, NEW first \in V, NEW N \in Nat, NEW step \in [(1 .. N) \X V -> V]
  PROVE  \E f \in [0 .. N -> V] : Chain(f, first, step, N)
<1> DEFINE Good(n) == \E f \in [0 .. n -> V] : Chain(f, first, step, n)
           Bad == {n \in 0 .. N : ~ Good(n)}
<1>1. SUFFICES ASSUME Bad # {} PROVE FALSE
  OBVIOUS
<1>2. PICK least \in Bad : \A n \in Bad : least <= n
  <2>1. Bad \in SUBSET Nat
    OBVIOUS
  <2> HIDE DEF Bad
  <2> QED BY <1>1, <2>1, Least
<1>3. CASE least = 0
  <2>1. [k \in 0 .. 0 |-> first] \in [0 .. 0 -> V] /\ Chain([k \in 0 .. 0 |-> first], first, step, 0)
    BY DEF Chain
  <2> QED BY <1>2, <1>3, <2>1
<1>4. CASE least # 0
  <2>1. least - 1 \in 0 .. N /\ least \in 1 .. N
    BY <1>2, <1>4
  <2>2. Good(least - 1)
    BY <1>2, <2>1
  <2>3. PICK f \in [0 .. least - 1 -> V] : Chain(f, first, step, least - 1)
    BY <2>2
  <2> DEFINE next == step[<<least, f[least - 1]>>]
             g == [k \in 0 .. least |-> IF k = least THEN next ELSE f[k]]
  <2>4. next \in V
    <3>1. least - 1 \in 0 .. least - 1
      BY <2>1
    <3>2. <<least, f[least - 1]>> \in (1 .. N) \X V
      BY <2>1, <3>1
    <3> QED BY <3>2
  <2> HIDE DEF next
  <2>5. g \in [0 .. least -> V]
    BY <2>1, <2>4
  <2>6. Chain(g, first, step, least)
    <3>1. g[0] = first
      BY <2>1, <2>3 DEF Chain
    <3>2. ASSUME NEW k \in 1 .. least PROVE g[k] = step[<<k, g[k - 1]>>]
      <4>1. CASE k = least
        <5>1. g[k] = next /\ g[k - 1] = f[k - 1]
          BY <2>1, <4>1
        <5> QED BY <4>1, <5>1 DEF next
      <4>2. CASE k # least
        BY <2>1, <2>3, <4>2 DEF Chain
      <4> QED BY <4>1, <4>2
    <3> QED BY <3>1, <3>2 DEF Chain
  <2>7. Good(least)
    BY <2>5, <2>6
  <2> QED BY <1>2, <2>7
<1> QED BY <1>3, <1>4

(* Two of them agree as far as their steps do: by the first place where    *)
(* they did not.                                                           *)
LEMMA ChainsAgree ==
  ASSUME NEW n \in Nat, NEW f, NEW g, f[0] = g[0],
         \A k \in 1 .. n : f[k - 1] = g[k - 1] => f[k] = g[k]
  PROVE  \A k \in 0 .. n : f[k] = g[k]
<1> DEFINE Bad == {k \in 0 .. n : f[k] # g[k]}
<1>1. SUFFICES ASSUME Bad # {} PROVE FALSE
  OBVIOUS
<1>2. PICK least \in Bad : \A k \in Bad : least <= k
  <2>1. Bad \in SUBSET Nat
    OBVIOUS
  <2> HIDE DEF Bad
  <2> QED BY <1>1, <2>1, Least
<1>3. least \in 1 .. n /\ least - 1 \in 0 .. n
  BY <1>2
<1>4. least - 1 \notin Bad
  BY <1>2, <1>3
<1> QED BY <1>2, <1>3, <1>4

-----------------------------------------------------------------------------
(* ModelRouter: what outcomes teach.                                       *)

LearntOf(f, past) ==
  f = [n \in 0 .. Len(past) |->
         IF n = 0 THEN Clean ELSE afterAttempt(f[n - 1], f[n - 1], past[n].ok, past[n].at)]

(* The steps that outcomes are.                                            *)
LEMMA LearntExists ==
  ASSUME NEW past \in Seq(Entry)
  PROVE  \E f : f \in [0 .. Len(past) -> Health] /\ LearntOf(f, past)
<1> DEFINE step == [x \in (1 .. Len(past)) \X Health |->
                      afterAttempt(x[2], x[2], past[x[1]].ok, past[x[1]].at)]
<1>1. step \in [(1 .. Len(past)) \X Health -> Health]
  <2>1. ASSUME NEW x \in (1 .. Len(past)) \X Health PROVE afterAttempt(x[2], x[2], past[x[1]].ok, past[x[1]].at) \in Health
    <3>1. x[2] \in Health /\ past[x[1]] \in Entry
      OBVIOUS
    <3> QED BY <3>1, HealthIs DEF Entry
  <2> QED BY <2>1
<1>2. Len(past) \in Nat /\ Clean \in Health
  BY HealthIs
<1>3. PICK f \in [0 .. Len(past) -> Health] : Chain(f, Clean, step, Len(past))
  <2> HIDE DEF step
  <2> QED BY <1>1, <1>2, ChainExists
<1>4. \A k \in 1 .. Len(past) : f[k] = afterAttempt(f[k - 1], f[k - 1], past[k].ok, past[k].at)
  <2>1. ASSUME NEW k \in 1 .. Len(past) PROVE f[k] = afterAttempt(f[k - 1], f[k - 1], past[k].ok, past[k].at)
    <3>1. k - 1 \in 0 .. Len(past)
      BY <1>2
    <3>2. f[k - 1] \in Health
      BY <3>1
    <3>3. <<k, f[k - 1]>> \in (1 .. Len(past)) \X Health
      BY <3>2
    <3>4. step[<<k, f[k - 1]>>] = afterAttempt(f[k - 1], f[k - 1], past[k].ok, past[k].at)
      BY <3>3
    <3> QED BY <1>3, <3>4 DEF Chain
  <2> QED BY <2>1
<1> DEFINE h == [n \in 0 .. Len(past) |->
                   IF n = 0 THEN Clean ELSE afterAttempt(f[n - 1], f[n - 1], past[n].ok, past[n].at)]
<1>5. \A n \in 0 .. Len(past) : f[n] = h[n]
  <2>1. f[0] = h[0]
    BY <1>2, <1>3 DEF Chain
  <2>2. \A n \in 1 .. Len(past) : f[n] = h[n]
    BY <1>2, <1>4
  <2>3. \A n \in 0 .. Len(past) : n = 0 \/ n \in 1 .. Len(past)
    BY <1>2
  <2> HIDE DEF h
  <2> QED BY <2>1, <2>2, <2>3
<1>6. f = h
  BY <1>5
<1> QED BY <1>6 DEF LearntOf

(* Nothing teaches nothing, and one outcome more teaches what it teaches.  *)
LEMMA LearntIs ==
  ASSUME NEW past \in Seq(Entry)
  PROVE  /\ Learnt(past) \in Health
         /\ past = <<>> => Learnt(past) = Clean
         /\ \A e \in Entry :
              Learnt(Append(past, e)) = afterAttempt(Learnt(past), Learnt(past), e.ok, e.at)
<1>1. \A s : Learnt(s) = (CHOOSE f : LearntOf(f, s))[Len(s)]
  BY DEF Learnt, LearntOf
<1> DEFINE f == CHOOSE x : LearntOf(x, past)
<1>2. LearntOf(f, past) /\ Len(past) \in Nat
  BY LearntExists
<1> HIDE DEF f
<1>3. /\ f[0] = Clean
      /\ \A k \in 1 .. Len(past) : f[k] = afterAttempt(f[k - 1], f[k - 1], past[k].ok, past[k].at)
  <2>1. \A k \in 0 .. Len(past) :
          f[k] = IF k = 0 THEN Clean ELSE afterAttempt(f[k - 1], f[k - 1], past[k].ok, past[k].at)
    BY <1>2 DEF LearntOf
  <2>2. 0 \in 0 .. Len(past) /\ \A k \in 1 .. Len(past) : k \in 0 .. Len(past) /\ k # 0
    BY <1>2
  <2> QED BY <2>1, <2>2
<1>4. Learnt(past) = f[Len(past)]
  BY <1>1 DEF f
<1>5. Learnt(past) \in Health
  <2>1. PICK g : g \in [0 .. Len(past) -> Health] /\ LearntOf(g, past)
    BY LearntExists
  <2>2. \A k \in 0 .. Len(past) :
          g[k] = IF k = 0 THEN Clean ELSE afterAttempt(g[k - 1], g[k - 1], past[k].ok, past[k].at)
    BY <2>1 DEF LearntOf
  <2>3. 0 \in 0 .. Len(past) /\ \A k \in 1 .. Len(past) : k \in 0 .. Len(past) /\ k # 0
    BY <1>2
  <2>4. f[0] = g[0] /\ \A k \in 1 .. Len(past) : f[k - 1] = g[k - 1] => f[k] = g[k]
    BY <1>3, <2>2, <2>3
  <2>5. \A k \in 0 .. Len(past) : f[k] = g[k]
    BY <1>2, <2>4, ChainsAgree
  <2> QED BY <1>2, <1>4, <2>1, <2>5
<1>6. past = <<>> => Learnt(past) = Clean
  BY <1>3, <1>4
<1>7. ASSUME NEW e \in Entry
      PROVE  Learnt(Append(past, e)) = afterAttempt(Learnt(past), Learnt(past), e.ok, e.at)
  <2> DEFINE longer == Append(past, e)
             g == CHOOSE x : LearntOf(x, longer)
             n == Len(past)
  <2>1. /\ longer \in Seq(Entry) /\ Len(longer) = n + 1 /\ longer[n + 1] = e
        /\ \A k \in 1 .. n : longer[k] = past[k]
    OBVIOUS
  <2>2. LearntOf(g, longer)
    BY <2>1, LearntExists
  <2>3. Learnt(longer) = g[n + 1]
    BY <1>1, <2>1
  <2> HIDE DEF g, longer
  <2>4. \A k \in 0 .. n + 1 :
          g[k] = IF k = 0 THEN Clean ELSE afterAttempt(g[k - 1], g[k - 1], longer[k].ok, longer[k].at)
    BY <2>1, <2>2 DEF LearntOf
  <2>5. /\ 0 \in 0 .. n + 1 /\ n + 1 \in 0 .. n + 1 /\ n + 1 # 0 /\ n + 1 - 1 = n /\ n \in 0 .. n
        /\ \A k \in 1 .. n : k \in 0 .. n + 1 /\ k # 0
    BY <1>2
  <2>6. f[0] = g[0] /\ \A k \in 1 .. n : f[k - 1] = g[k - 1] => f[k] = g[k]
    BY <1>3, <2>1, <2>4, <2>5
  <2>7. \A k \in 0 .. n : f[k] = g[k]
    BY <1>2, <2>6, ChainsAgree
  <2>8. g[n + 1] = afterAttempt(g[n], g[n], e.ok, e.at)
    BY <2>1, <2>4, <2>5
  <2> QED BY <1>4, <2>3, <2>5, <2>7, <2>8 DEF longer
<1> QED BY <1>5, <1>6, <1>7

(* What an outcome changes of a streak is a matter of the streak.          *)
LEMMA StreakMoves ==
  ASSUME NEW h \in Health, NEW l \in Health, Streak(h) = Streak(l), NEW ok \in BOOLEAN, NEW at \in Nat
  PROVE  Streak(afterAttempt(h, h, ok, at)) = Streak(afterAttempt(l, l, ok, at))
<1>1. /\ h.consecutiveFailures = l.consecutiveFailures
      /\ h.failStreakStartedAt = l.failStreakStartedAt
      /\ h.autoDisabled = l.autoDisabled
  BY DEF Streak
<1>2. CASE ok
  BY <1>1, <1>2 DEF afterAttempt, Succeeded, Streak, Health
<1>3. CASE ~ ok
  BY <1>1, <1>3 DEF afterAttempt, Failed, Streak, Health
<1> QED BY <1>2, <1>3

(* What an owner changes of a health is no part of its streak, or clears   *)
(* the streak.                                                             *)
LEMMA StreakOwned ==
  ASSUME NEW h \in Health
  PROVE  /\ \A on : Streak([h EXCEPT !.enabled = on]) = Streak(h)
         /\ Streak(Reenabled(h)) = Streak(Clean)
BY DEF Streak, Reenabled, Clean, Health, Never

(* An attempt ends, and at most a next one begins.                         *)
Moves(r, m, st) ==
  /\ att'[r][m].st = st
  /\ \A s \in Reqs, n \in Asked : s # r \/ n # m =>
       \/ att'[s][n] = att[s][n]
       \/ att[s][n].st = "none" /\ att'[s][n].st \in {"asking", "cancelled"}

(* What a loss does to the attempts: one is lost, others are asked next or *)
(* given up.                                                               *)
LEMMA RejectMoves ==
  ASSUME ToldInv, NEW r \in Reqs, NEW m \in Asked, Active(att[r][m]),
         NEW st \in {"bad", "cancelled"}, Reject(r, m, st)
  PROVE  Moves(r, m, st)
<1> DEFINE a == att[r]
           b == [a EXCEPT ![m] = Is(st)]
           left == Only(req[r].fallback, {n \in Asked : b[n].st = "none"})
<1>1. a \in [Asked -> Attempt] /\ att \in [Reqs -> [Asked -> Attempt]]
  BY DEF ToldInv, RouterShaped
<1>2. b[m].st = st /\ \A n \in Asked : n # m => b[n] = a[n]
  BY <1>1, AttemptIs
<1>3. left \in Seq(Asked) /\ ToSet(left) \subseteq {n \in Asked : b[n].st = "none"}
  <2>1. req[r].fallback \in Seq(Asked)
    BY DEF ToldInv, RouterShaped, ParseRecord
  <2> QED BY <2>1, OnlyIs, OnlyHas
<1>4. \/ att' = [att EXCEPT ![r] = b]
      \/ left # <<>> /\ att' = [att EXCEPT ![r] = [b EXCEPT ![left[1]] = Is("cancelled")]]
      \/ left # <<>> /\ att' = [att EXCEPT ![r] = AskedIn(b, <<left[1]>>)]
  BY DEF Reject, RejectSeveral, RejectSingle, Then, AskNext
<1> HIDE DEF b, left
<1>5. CASE att' = [att EXCEPT ![r] = b]
  BY <1>1, <1>2, <1>5 DEF Moves
<1>6. ASSUME left # <<>> PROVE left[1] \in Asked /\ b[left[1]].st = "none" /\ left[1] # m
  BY <1>2, <1>3, <1>6, FirstIn
<1>7. CASE left # <<>> /\ att' = [att EXCEPT ![r] = [b EXCEPT ![left[1]] = Is("cancelled")]]
  <2>1. PICK n \in Asked : n = left[1] /\ b[n].st = "none" /\ n # m
    BY <1>6, <1>7
  <2>2. att'[r] = [b EXCEPT ![n] = Is("cancelled")] /\ \A s \in Reqs : s # r => att'[s] = att[s]
    BY <1>1, <1>7, <2>1
  <2>3. b \in [Asked -> Attempt] /\ Is("cancelled").st = "cancelled"
    BY <1>1, AttemptIs DEF b
  <2>4. att'[r][n].st = "cancelled" /\ \A k \in Asked : k # n => att'[r][k] = b[k]
    BY <2>2, <2>3
  <2>5. att'[r][m].st = st
    BY <1>2, <2>1, <2>4
  <2>6. att[r][n].st = "none"
    BY <1>2, <2>1
  <2>7. \A k \in Asked : k # m => att'[r][k] = att[r][k] \/ k = n
    BY <1>2, <2>4
  <2> QED BY <2>2, <2>4, <2>5, <2>6, <2>7 DEF Moves
<1>8. CASE left # <<>> /\ att' = [att EXCEPT ![r] = AskedIn(b, <<left[1]>>)]
  <2>1. att'[r] = AskedIn(b, <<left[1]>>) /\ \A s \in Reqs : s # r => att'[s] = att[s]
    BY <1>1, <1>8
  <2>2. ToSet(<<left[1]>>) = {left[1]}
    BY OneIn
  <2>3. att'[r][left[1]].st = "asking" /\ \A n \in Asked : n # left[1] => att'[r][n] = b[n]
    BY <1>6, <1>8, <2>1, <2>2, AttemptIs DEF AskedIn
  <2> QED BY <1>2, <1>6, <1>8, <2>1, <2>3 DEF Moves
<1> QED BY <1>4, <1>5, <1>7, <1>8

(* What the end of an attempt does to the attempts.                        *)
LEMMA SettleMoves ==
  ASSUME ToldInv, NEW r \in Reqs, NEW m \in Asked, Active(att[r][m]),
         NEW ok \in BOOLEAN, Settle(r, m, ok)
  PROVE  Moves(r, m, IF ok THEN "ok" ELSE "bad")
<1>1. CASE ok /\ Resolve(r, m)
  <2>1. att' = [att EXCEPT ![r] = [att[r] EXCEPT ![m] = Is("ok")]]
    BY <1>1 DEF Resolve
  <2> QED BY <1>1, <2>1, AttemptIs DEF Moves, ToldInv, RouterShaped
<1>2. CASE ~ ok /\ Reject(r, m, "bad")
  BY <1>2, RejectMoves
<1> QED BY <1>1, <1>2 DEF Settle

-----------------------------------------------------------------------------
(* What outcomes recorded one at a time have taught.                       *)

(* The one outcome that is being recorded was counted from the row as it   *)
(* still is.                                                               *)
SeenFresh ==
  alone => \A r, s \in Reqs, m, n \in Asked :
    At(r, m, "noting") =>
      /\ m \in ToSet(list) /\ att[r][m].seen = health[m]
      /\ At(s, n, "noting") => s = r /\ n = m

AllExplained == alone => \A m \in Models : StreakExplained(m)

(* A failure in the log is its parse's own.                                *)
FailuresOwn ==
  \A m \in Models : \A k \in DOMAIN log[m] :
    LET e == log[m][k] IN ~ e.ok /\ e.by # None => att[e.by][m].st = "bad"

TaughtInv == ToldInv /\ log \in [Models -> Seq(Entry)] /\ SeenFresh /\ AllExplained /\ FailuresOwn

(* The stored models are models.                                           *)
LEMMA ListIn ==
  ASSUME ToldInv
  PROVE  ToSet(list) \subseteq Models /\ Models \subseteq Asked
BY FirstIn DEF ToldInv, RouterShaped, Asked

(* A step that records nothing and is no owner's.                          *)
LEMMA UnrecordedKeeps ==
  ASSUME TaughtInv, UNCHANGED <<list, health, log, alone>>,
         \A s \in Reqs, n \in Asked :
           /\ att'[s][n].st = "noting" => att'[s][n] = att[s][n]
           /\ att[s][n].st = "bad" => att'[s][n].st = "bad"
  PROVE  log' \in [Models -> Seq(Entry)] /\ SeenFresh' /\ AllExplained' /\ FailuresOwn'
<1>1. SeenFresh'
  BY DEF TaughtInv, SeenFresh, At
<1>2. AllExplained'
  BY DEF TaughtInv, AllExplained, StreakExplained
<1>3. FailuresOwn'
  <2>1. ASSUME NEW m \in Models, NEW k \in DOMAIN log[m], ~ log[m][k].ok, log[m][k].by # None
        PROVE  att'[log[m][k].by][m].st = "bad"
    <3>1. log[m][k] \in Entry /\ m \in Asked
      BY DEF TaughtInv, Asked
    <3>2. log[m][k].by \in Reqs
      BY <2>1, <3>1 DEF Entry
    <3> QED BY <2>1, <3>1, <3>2 DEF TaughtInv, FailuresOwn
  <2> QED BY <2>1 DEF FailuresOwn
<1> QED BY <1>1, <1>2, <1>3 DEF TaughtInv

(* What an ended attempt moves is no outcome being recorded.               *)
LEMMA MovesQuietly ==
  ASSUME ToldInv, NEW r \in Reqs, NEW m \in Asked, Active(att[r][m]),
         NEW st \in {"ok", "bad", "cancelled"}, Moves(r, m, st)
  PROVE  \A s \in Reqs, n \in Asked :
           /\ att'[s][n].st = "noting" => att'[s][n] = att[s][n] /\ (s # r \/ n # m)
           /\ att[s][n].st = "bad" => att'[s][n].st = "bad"
BY DEF Moves, Active

(* A request records nothing.                                              *)
LEMMA BeginQuietly ==
  ASSUME ToldInv, NEW r \in Reqs, NEW several \in BOOLEAN, Begin(r, several)
  PROVE  \A s \in Reqs, n \in Asked :
           /\ att'[s][n].st = "noting" => att'[s][n] = att[s][n]
           /\ att[s][n].st = "bad" => att'[s][n].st = "bad"
<1>1. \A n \in Asked : att[r][n].st = "none"
  BY DEF Begin, ToldInv, AllTold, Told
<1>2. PICK ms : att' = att \/ att' = [att EXCEPT ![r] = AskedIn(att[r], ms)]
  BY DEF Begin
<1>3. CASE att' = att
  BY <1>3
<1>4. CASE att' = [att EXCEPT ![r] = AskedIn(att[r], ms)]
  <2>1. /\ \A s \in Reqs : s # r => att'[s] = att[s]
        /\ \A n \in Asked : att'[r][n] = IF n \in ToSet(ms) THEN Is("asking") ELSE att[r][n]
    BY <1>4 DEF ToldInv, RouterShaped, AskedIn
  <2> QED BY <1>1, <2>1, AttemptIs
<1> QED BY <1>2, <1>3, <1>4

(* An outcome is noted while none is being recorded.                       *)
LEMMA NoteTaught ==
  ASSUME TaughtInv, UNCHANGED alone, NEW r \in Reqs, NEW m \in Asked, NEW ok \in BOOLEAN, Note(r, m, ok)
  PROVE  log' \in [Models -> Seq(Entry)] /\ SeenFresh' /\ AllExplained' /\ FailuresOwn'
<1> DEFINE x == [st |-> "noting", ok |-> ok, at |-> clock, seen |-> health[m]]
<1>1. /\ att[r][m].st = "asking" /\ Active(att[r][m]) /\ ToldInv
      /\ UNCHANGED <<list, health, log>>
  BY DEF Note, At, Active, TaughtInv
<1>2. CASE Settle(r, m, ok)
  BY <1>1, <1>2, SettleMoves, MovesQuietly, UnrecordedKeeps
<1>3. CASE m \in ToSet(list) /\ att' = [att EXCEPT ![r][m] = x] /\ UNCHANGED req
  <2>1. /\ att'[r][m] = x /\ x.st = "noting" /\ x.seen = health[m]
        /\ \A s \in Reqs, n \in Asked : s # r \/ n # m => att'[s][n] = att[s][n]
    BY <1>1, <1>3 DEF ToldInv, RouterShaped
  <2> HIDE DEF x
  <2>2. SeenFresh'
    <3>1. ASSUME alone PROVE \A s \in Reqs, n \in Asked : ~ At(s, n, "noting")
      BY <3>1 DEF Note, Recording
    <3>2. ASSUME alone, NEW s \in Reqs, NEW n \in Asked, At(s, n, "noting")' PROVE s = r /\ n = m
      BY <2>1, <3>1, <3>2 DEF At
    <3> QED BY <1>1, <1>3, <2>1, <3>2 DEF SeenFresh, At
  <2>3. AllExplained'
    BY <1>1 DEF TaughtInv, AllExplained, StreakExplained
  <2>4. FailuresOwn'
    <3>1. ASSUME NEW n \in Models, NEW k \in DOMAIN log[n], ~ log[n][k].ok, log[n][k].by # None
          PROVE  att'[log[n][k].by][n].st = "bad"
      <4>1. log[n][k] \in Entry /\ n \in Asked
        BY DEF TaughtInv, Asked
      <4>2. log[n][k].by \in Reqs /\ att[log[n][k].by][n].st = "bad"
        BY <3>1, <4>1 DEF Entry, TaughtInv, FailuresOwn
      <4> QED BY <1>1, <2>1, <4>1, <4>2
    <3> QED BY <1>1, <3>1 DEF FailuresOwn
  <2> QED BY <1>1, <2>2, <2>3, <2>4 DEF TaughtInv
<1> QED BY <1>2, <1>3 DEF Note

(* An outcome is recorded: the row and the log learn the same.             *)
LEMMA WriteTaught ==
  ASSUME TaughtInv, UNCHANGED alone, NEW r \in Reqs, NEW m \in Asked, WriteRow(r, m)
  PROVE  log' \in [Models -> Seq(Entry)] /\ SeenFresh' /\ AllExplained' /\ FailuresOwn'
<1> DEFINE a == att[r][m]
           e == [ok |-> a.ok, at |-> a.at, by |-> r]
<1>1. /\ ToldInv /\ a \in Attempt /\ a.st = "noting" /\ At(r, m, "noting") /\ Active(a) /\ Settle(r, m, a.ok)
      /\ list' = list
  BY DEF WriteRow, At, Active, TaughtInv, ToldInv, RouterShaped
<1>2. a.ok \in BOOLEAN /\ a.at \in Nat /\ a.seen \in Health /\ e \in Entry
  BY <1>1 DEF Attempt, Entry
<1>3. Moves(r, m, IF a.ok THEN "ok" ELSE "bad")
  BY <1>1, <1>2, SettleMoves
<1>4. \A s \in Reqs, n \in Asked :
        /\ att'[s][n].st = "noting" => att'[s][n] = att[s][n] /\ (s # r \/ n # m)
        /\ att[s][n].st = "bad" => att'[s][n].st = "bad"
  BY <1>1, <1>3, MovesQuietly
<1>5. CASE m \notin ToSet(list)
  <2>1. UNCHANGED <<list, health, log, alone>>
    BY <1>5 DEF WriteRow
  <2> QED BY <1>4, <2>1, UnrecordedKeeps
<1>6. CASE m \in ToSet(list)
  <2>1. m \in Models
    BY <1>1, <1>6, ListIn
  <2>2. /\ health' = [health EXCEPT ![m] = afterAttempt(health[m], a.seen, a.ok, a.at)]
        /\ log' = [log EXCEPT ![m] = Append(log[m], e)]
    BY <1>6 DEF WriteRow, TaughtInv, ToldInv, RouterShaped
  <2> HIDE DEF e
  <2>3. Append(log[m], e) \in Seq(Entry)
    BY <1>2, <2>1 DEF TaughtInv
  <2>4. /\ log'[m] = Append(log[m], e) /\ \A n \in Models : n # m => log'[n] = log[n]
        /\ log' \in [Models -> Seq(Entry)]
    BY <2>1, <2>2, <2>3 DEF TaughtInv
  <2>5. \A n \in Models : health[n] \in Health /\ n \in Asked
    BY DEF TaughtInv, ToldInv, RouterShaped, Asked
  <2>6. /\ health'[m] = afterAttempt(health[m], a.seen, a.ok, a.at)
        /\ \A n \in Models : n # m => health'[n] = health[n]
    BY <2>2, <2>5 DEF TaughtInv, ToldInv, RouterShaped
  <2>7. SeenFresh'
    <3>1. ASSUME alone, NEW s \in Reqs, NEW n \in Asked, At(s, n, "noting")' PROVE FALSE
      <4>1. att[s][n].st = "noting" /\ (s # r \/ n # m)
        BY <1>4, <3>1 DEF At
      <4> QED BY <1>1, <3>1, <4>1 DEF TaughtInv, SeenFresh, At
    <3> QED BY <3>1 DEF SeenFresh
  <2>8. AllExplained'
    <3>1. ASSUME alone PROVE StreakExplained(m)'
      <4>1. a.seen = health[m] /\ Streak(health[m]) = Streak(Learnt(log[m]))
        BY <1>1, <2>1, <3>1 DEF TaughtInv, SeenFresh, AllExplained, StreakExplained
      <4>2. log[m] \in Seq(Entry) /\ e.ok = a.ok /\ e.at = a.at
        BY <2>1 DEF TaughtInv, e
      <4>3. /\ Learnt(log[m]) \in Health
            /\ Learnt(Append(log[m], e)) = afterAttempt(Learnt(log[m]), Learnt(log[m]), a.ok, a.at)
        BY <1>2, <4>2, LearntIs
      <4>4. Streak(health'[m]) = Streak(Learnt(log'[m]))
        BY <1>2, <2>1, <2>4, <2>5, <2>6, <4>1, <4>3, StreakMoves
      <4> QED BY <4>4 DEF StreakExplained
    <3>2. ASSUME alone, NEW n \in Models, n # m PROVE StreakExplained(n)'
      BY <2>4, <2>6, <3>2 DEF TaughtInv, AllExplained, StreakExplained
    <3> QED BY <3>1, <3>2 DEF AllExplained
  <2>9. FailuresOwn'
    <3>1. ASSUME NEW n \in Models, NEW k \in DOMAIN log[n], ~ log[n][k].ok, log[n][k].by # None
          PROVE  att'[log[n][k].by][n].st = "bad"
      <4>1. log[n][k] \in Entry /\ n \in Asked
        BY DEF TaughtInv, Asked
      <4>2. log[n][k].by \in Reqs /\ att[log[n][k].by][n].st = "bad"
        BY <3>1, <4>1 DEF Entry, TaughtInv, FailuresOwn
      <4> QED BY <1>4, <4>1, <4>2
    <3>2. ASSUME ~ e.ok PROVE att'[e.by][m].st = "bad"
      BY <1>3, <3>2 DEF Moves, e
    <3>3. \A k \in DOMAIN log'[m] : log'[m][k] = e \/ (k \in DOMAIN log[m] /\ log'[m][k] = log[m][k])
      <4>1. log[m] \in Seq(Entry)
        BY <2>1 DEF TaughtInv
      <4> QED BY <1>2, <2>4, <4>1
    <3>4. ASSUME NEW n \in Models, NEW k \in DOMAIN log'[n], ~ log'[n][k].ok, log'[n][k].by # None
          PROVE  att'[log'[n][k].by][n].st = "bad"
      <4>1. CASE n # m
        BY <2>4, <3>1, <3>4, <4>1
      <4>2. CASE n = m /\ k \in DOMAIN log[m] /\ log'[m][k] = log[m][k]
        BY <3>1, <3>4, <4>2
      <4>3. CASE n = m /\ log'[m][k] = e
        BY <3>2, <3>4, <4>3
      <4> QED BY <3>3, <3>4, <4>1, <4>2, <4>3
    <3> QED BY <3>4 DEF FailuresOwn
  <2> QED BY <2>4, <2>7, <2>8, <2>9
<1> QED BY <1>5, <1>6

(* The owner's changes wait for the outcomes.                              *)
LEMMA OwnerTaught ==
  ASSUME TaughtInv, UNCHANGED <<alone, att>>, alone => ~ Recording,
         log' \in [Models -> Seq(Entry)], \A m \in Models : log'[m] \in {log[m], <<>>},
         alone => \A m \in Models :
           \/ log'[m] = log[m] /\ Streak(health'[m]) = Streak(health[m])
           \/ log'[m] = <<>> /\ Streak(health'[m]) = Streak(Clean)
  PROVE  SeenFresh' /\ AllExplained' /\ FailuresOwn'
<1>1. SeenFresh'
  BY DEF SeenFresh, At, Recording
<1>2. AllExplained'
  <2>1. Learnt(<<>>) = Clean
    <3>1. <<>> \in Seq(Entry)
      OBVIOUS
    <3> QED BY <3>1, LearntIs
  <2> QED BY <2>1 DEF TaughtInv, AllExplained, StreakExplained
<1>3. FailuresOwn'
  BY DEF TaughtInv, FailuresOwn
<1> QED BY <1>1, <1>2, <1>3

(* Every step keeps what outcomes have taught: one case per action.        *)
LEMMA TaughtStep == TaughtInv /\ [RouterNext]_routerVars => TaughtInv'
<1> SUFFICES ASSUME TaughtInv, [RouterNext]_routerVars PROVE TaughtInv'
  OBVIOUS
<1> DEFINE Rest == log' \in [Models -> Seq(Entry)] /\ SeenFresh' /\ AllExplained' /\ FailuresOwn'
<1>1. ToldInv /\ ToldInv' /\ alone' = alone
  BY ToldStep DEF TaughtInv, RouterNext, routerVars
<1>2. SUFFICES Rest
  BY <1>1 DEF TaughtInv
<1> HIDE DEF Rest
<1>3. ASSUME UNCHANGED <<list, health, log, att>> PROVE Rest
  BY <1>1, <1>3, UnrecordedKeeps DEF Rest
<1>4. ASSUME NEW r \in Reqs, Leave(r) PROVE Rest
  BY <1>3, <1>4 DEF Leave
<1>5. ASSUME NEW r \in Reqs, NEW several \in BOOLEAN, Begin(r, several) PROVE Rest
  <2>1. UNCHANGED <<list, health, log>>
    BY <1>5 DEF Begin
  <2> QED BY <1>1, <1>5, <2>1, BeginQuietly, UnrecordedKeeps DEF Rest
<1>6. ASSUME NEW r \in Reqs, NEW m \in Asked, NEW ok \in BOOLEAN, Note(r, m, ok) PROVE Rest
  BY <1>1, <1>6, NoteTaught DEF Rest
<1>7. ASSUME NEW r \in Reqs, NEW m \in Asked, CutOff(r, m) PROVE Rest
  <2>1. Active(att[r][m]) /\ Reject(r, m, "cancelled") /\ UNCHANGED <<list, health, log>>
    BY <1>7 DEF CutOff, At, Active
  <2>2. Moves(r, m, "cancelled")
    BY <1>1, <2>1, RejectMoves
  <2> QED BY <1>1, <2>1, <2>2, MovesQuietly, UnrecordedKeeps DEF Rest
<1>8. ASSUME NEW r \in Reqs, NEW m \in Asked, WriteRow(r, m) PROVE Rest
  BY <1>1, <1>8, WriteTaught DEF Rest
<1>9. \A n \in Models : health[n] \in Health /\ n \in Asked
  BY DEF TaughtInv, ToldInv, RouterShaped, Asked
<1>10. ASSUME NEW m \in Models, Reenable(m) PROVE Rest
  <2>1. /\ att' = att /\ (alone => ~ Recording)
        /\ health' = [health EXCEPT ![m] = Reenabled(health[m])] /\ log' = [log EXCEPT ![m] = <<>>]
    BY <1>10 DEF Reenable, TaughtInv, ToldInv, RouterShaped
  <2>2. /\ log' \in [Models -> Seq(Entry)] /\ log'[m] = <<>>
        /\ \A n \in Models : n # m => log'[n] = log[n]
    BY <2>1 DEF TaughtInv
  <2>3. /\ health'[m] = Reenabled(health[m])
        /\ \A n \in Models : n # m => health'[n] = health[n]
    BY <1>9, <2>1 DEF TaughtInv, ToldInv, RouterShaped
  <2>4. \A n \in Models :
          \/ log'[n] = log[n] /\ Streak(health'[n]) = Streak(health[n])
          \/ log'[n] = <<>> /\ Streak(health'[n]) = Streak(Clean)
    BY <1>9, <2>2, <2>3, StreakOwned
  <2> QED BY <1>1, <2>1, <2>2, <2>4, OwnerTaught DEF Rest
<1>11. ASSUME NEW sent \in Sent, WriteRoster(sent) PROVE Rest
  <2> DEFINE new == Only(sent.list, ToSet(list) \cup unborn)
  <2>1. /\ att' = att /\ (alone => ~ Recording)
        /\ health' = [m \in Asked |->
             IF m \in ToSet(new) THEN [health[m] EXCEPT !.enabled = m \in sent.on] ELSE Clean]
        /\ log' = [m \in Models |-> IF m \in ToSet(new) THEN log[m] ELSE <<>>]
    BY <1>11 DEF WriteRoster
  <2> HIDE DEF new
  <2>2. <<>> \in Seq(Entry)
    OBVIOUS
  <2>3. log' \in [Models -> Seq(Entry)] /\ \A n \in Models : log'[n] \in {log[n], <<>>}
    BY <2>1, <2>2 DEF TaughtInv
  <2>4. \A n \in Models :
          \/ log'[n] = log[n] /\ Streak(health'[n]) = Streak(health[n])
          \/ log'[n] = <<>> /\ Streak(health'[n]) = Streak(Clean)
    BY <1>9, <2>1, StreakOwned
  <2> QED BY <1>1, <2>1, <2>3, <2>4, OwnerTaught DEF Rest
<1>12. CASE Tick
  BY <1>3, <1>12 DEF Tick
<1>13. CASE UNCHANGED routerVars
  BY <1>3, <1>13 DEF routerVars
<1> QED BY <1>4, <1>5, <1>6, <1>7, <1>8, <1>10, <1>11, <1>12, <1>13 DEF RouterNext, Progress

(* An entry of a list is one of what the list is made of.                  *)
LEMMA EntryOf == ASSUME NEW S, NEW T, S \subseteq T, NEW s \in Seq(S)
                 PROVE  /\ s \in Seq(T)
                        /\ \A k \in DOMAIN s : s[k] \in S
  OBVIOUS

(* The roster starts with what its entries have been through.              *)
LEMMA RouterStart == RouterInit => TaughtInv
<1> SUFFICES ASSUME RouterInit PROVE TaughtInv
  OBVIOUS
<1>1. PICK past \in Pasts : log = [m \in Models |-> IF m \in ToSet(list) THEN past[m] ELSE <<>>]
  BY DEF RouterInit
<1>2. log \in [Models -> Seq(Entry)]
  <2>1. \A m \in Models : past[m] \in Seq([ok : BOOLEAN, at : Nat, by : {None}])
    BY RouterAssumption
  <2>2. ASSUME NEW m \in Models PROVE past[m] \in Seq(Entry)
    <3>1. past[m] \in Seq([ok : BOOLEAN, at : Nat, by : {None}])
      BY <2>1
    <3>2. [ok : BOOLEAN, at : Nat, by : {None}] \subseteq Entry
      BY DEF Entry
    <3> QED BY <3>1, <3>2, EntryOf
  <2>3. <<>> \in Seq(Entry)
    OBVIOUS
  <2> QED BY <1>1, <2>2, <2>3
<1>3. list \in Seq(Models) /\ ToSet(list) \subseteq Models
  BY RouterAssumption, FirstIn DEF RouterInit
<1>4. health \in [Asked -> Health] /\ \A m \in Models : health[m] = Learnt(log[m])
  <2>1. \A m \in Models : Learnt(log[m]) \in Health /\ m # Env /\ m \in Asked
    BY <1>2, LearntIs, RouterAssumption DEF Asked
  <2> QED BY <2>1, HealthIs DEF RouterInit, Asked
<1>5. req \in [Reqs -> ParseRecord] /\ att \in [Reqs -> [Asked -> Attempt]]
  <2>1. <<>> \in Seq(Asked)
    OBVIOUS
  <2>2. Idle \in ParseRecord
    BY <2>1 DEF Idle, ParseRecord, Stages
  <2>3. NotAsked \in [Asked -> Attempt]
    BY AttemptIs DEF NotAsked
  <2> QED BY <2>2, <2>3 DEF RouterInit
<1>6. \A r \in Reqs, m \in Asked : att[r][m].st = "none"
  BY AttemptIs DEF RouterInit, NotAsked
<1>7. AllTold
  <2>1. Planned(Idle)
    <3>1. <<>> \in Seq(Asked) /\ ToSet(<<>>) = {}
      BY DEF ToSet
    <3> QED BY <3>1 DEF Idle, Planned
  <2>2. ASSUME NEW r \in Reqs PROVE Told(req[r], att[r])
    <3>1. req[r] = Idle
      BY DEF RouterInit
    <3> QED BY <1>6, <2>1, <3>1 DEF Told, Idle
  <2> QED BY <2>2 DEF AllTold
<1>8. SeenFresh
  BY <1>6 DEF SeenFresh, At
<1>9. AllExplained
  BY <1>4 DEF AllExplained, StreakExplained
<1>10. FailuresOwn
  <2>1. ASSUME NEW m \in Models, NEW k \in DOMAIN log[m] PROVE log[m][k].by = None
    <3> DEFINE P == [ok : BOOLEAN, at : Nat, by : {None}]
    <3>1. past[m] \in Seq(P)
      BY RouterAssumption
    <3>2. m \in ToSet(list)
      <4>1. DOMAIN <<>> = {}
        OBVIOUS
      <4>2. m \notin ToSet(list) => log[m] = <<>>
        BY <1>1
      <4> QED BY <4>1, <4>2
    <3>3. log[m] = past[m]
      BY <1>1, <3>2
    <3>4. past[m][k] \in P
      <4>1. k \in DOMAIN past[m]
        BY <3>3
      <4> HIDE DEF P
      <4> QED BY <3>1, <4>1, EntryOf
    <3> QED BY <3>3, <3>4
  <2> QED BY <2>1 DEF FailuresOwn
<1>11. clock \in Nat
  BY DEF RouterInit
<1> QED BY <1>2, <1>3, <1>4, <1>5, <1>7, <1>8, <1>9, <1>10, <1>11 DEF TaughtInv, ToldInv, RouterShaped

-----------------------------------------------------------------------------
(* What a streak says of the outcomes that made it.                        *)

(* The failures it counts are the last of them, and none later than        *)
(* DISABLE_WINDOW after the first.                                         *)
StreakOf(h, past) ==
  LET c == h.consecutiveFailures
      n == Len(past)
  IN /\ c <= n
     /\ c = 0 <=> h.failStreakStartedAt = Never
     /\ c # 0 => /\ past[n - c + 1].at = h.failStreakStartedAt
                 /\ \A k \in (n - c + 1) .. n :
                      ~ past[k].ok /\ past[k].at - h.failStreakStartedAt <= DISABLE_WINDOW

(* Enough failures in a row, soon enough after the first.                  *)
Earned(past) ==
  \E i \in DOMAIN past :
    LET j == i + DISABLE_FAILURES - 1
    IN /\ j \in DOMAIN past
       /\ \A k \in i .. j : ~ past[k].ok
       /\ past[j].at - past[i].at <= DISABLE_WINDOW

StreakFits(past) ==
  StreakOf(Learnt(past), past) /\ (Learnt(past).autoDisabled => Earned(past))

(* One outcome more keeps what is earned.                                  *)
LEMMA EarnedLonger ==
  ASSUME NEW past \in Seq(Entry), NEW e \in Entry, Earned(past)
  PROVE  Earned(Append(past, e))
<1> DEFINE longer == Append(past, e)
<1>1. \A k \in DOMAIN past : k \in DOMAIN longer /\ longer[k] = past[k]
  OBVIOUS
<1>2. DOMAIN past = 1 .. Len(past) /\ Len(past) \in Nat
  OBVIOUS
<1> HIDE DEF longer
<1>3. PICK i \in DOMAIN past :
        /\ i + DISABLE_FAILURES - 1 \in DOMAIN past
        /\ \A k \in i .. (i + DISABLE_FAILURES - 1) : ~ past[k].ok
        /\ past[i + DISABLE_FAILURES - 1].at - past[i].at <= DISABLE_WINDOW
  BY DEF Earned
<1>4. \A k \in i .. (i + DISABLE_FAILURES - 1) : k \in DOMAIN past
  BY <1>2, <1>3, RosterAssumption
<1>5. \A k \in i .. (i + DISABLE_FAILURES - 1) : ~ longer[k].ok
  BY <1>1, <1>3, <1>4
<1>6. Earned(longer)
  BY <1>1, <1>3, <1>5 DEF Earned
<1> QED BY <1>6 DEF longer

(* One outcome more: a success ends the streak, a failure extends it or    *)
(* begins another.                                                         *)
LEMMA StreakFitsLonger ==
  ASSUME NEW past \in Seq(Entry), NEW e \in Entry, StreakFits(past)
  PROVE  StreakFits(Append(past, e))
<1> DEFINE longer == Append(past, e)
           h == Learnt(past)
           g == Learnt(longer)
           n == Len(past)
           c == h.consecutiveFailures
<1>1. h \in Health /\ g = afterAttempt(h, h, e.ok, e.at)
  BY LearntIs
<1>2. /\ longer \in Seq(Entry) /\ Len(longer) = n + 1 /\ longer[n + 1] = e /\ n \in Nat
      /\ \A k \in 1 .. n : longer[k] = past[k]
  OBVIOUS
<1>3. e.ok \in BOOLEAN /\ e.at \in Nat /\ c \in Nat /\ h.failStreakStartedAt \in Nat \cup {-1}
  BY <1>1 DEF Entry, Health, Moment, Never
<1>4. Earned(past) => Earned(longer)
  BY EarnedLonger
<1>5. StreakOf(h, past) /\ (h.autoDisabled => Earned(past))
  BY DEF StreakFits
<1> HIDE DEF longer, g, h
<1>6. CASE e.ok
  <2>1. g.consecutiveFailures = 0 /\ g.failStreakStartedAt = Never /\ g.autoDisabled = h.autoDisabled
    BY <1>1, <1>6 DEF afterAttempt, Succeeded, Health
  <2>2. StreakOf(g, longer)
    BY <1>2, <2>1 DEF StreakOf
  <2> QED BY <1>4, <1>5, <2>1, <2>2 DEF StreakFits, g, longer
<1>7. CASE ~ e.ok
  <2> DEFINE old == h.failStreakStartedAt = Never \/ e.at - h.failStreakStartedAt > DISABLE_WINDOW
  <2>1. /\ g.consecutiveFailures = (IF old THEN 1 ELSE c + 1)
        /\ g.failStreakStartedAt = (IF old THEN e.at ELSE h.failStreakStartedAt)
        /\ g.autoDisabled <=> h.autoDisabled \/ g.consecutiveFailures >= DISABLE_FAILURES
    BY <1>1, <1>7 DEF afterAttempt, Failed, Health
  <2>2. StreakOf(g, longer)
    <3>1. CASE old
      <4>1. g.consecutiveFailures = 1 /\ g.failStreakStartedAt = e.at /\ e.at # Never
        BY <1>3, <2>1, <3>1 DEF Never
      <4>2. \A k \in (n + 1) .. (n + 1) : longer[k] = e
        BY <1>2
      <4>3. e.at - e.at <= DISABLE_WINDOW
        BY <1>3, RosterAssumption
      <4> QED BY <1>2, <1>7, <4>1, <4>2, <4>3 DEF StreakOf
    <3>2. CASE ~ old
      <4>1. /\ h.failStreakStartedAt # Never /\ h.failStreakStartedAt \in Nat
            /\ e.at - h.failStreakStartedAt <= DISABLE_WINDOW
            /\ g.consecutiveFailures = c + 1 /\ g.failStreakStartedAt = h.failStreakStartedAt
        BY <1>3, <2>1, <3>2, RosterAssumption DEF Never
      <4>2. c # 0 /\ c <= n
        BY <1>5, <4>1 DEF StreakOf
      <4>3. n - c + 1 \in 1 .. n /\ (n + 1) - (c + 1) + 1 = n - c + 1
        BY <1>2, <1>3, <4>2
      <4>4. longer[n - c + 1].at = h.failStreakStartedAt
        BY <1>2, <1>5, <4>2, <4>3 DEF StreakOf
      <4>5. ASSUME NEW k \in (n - c + 1) .. (n + 1)
            PROVE  ~ longer[k].ok /\ longer[k].at - h.failStreakStartedAt <= DISABLE_WINDOW
        <5>1. CASE k = n + 1
          BY <1>2, <1>7, <4>1, <5>1
        <5>2. CASE k # n + 1
          <6>1. k \in 1 .. n /\ k \in (n - c + 1) .. n
            BY <1>2, <1>3, <4>3, <5>2
          <6> QED BY <1>2, <1>5, <4>2, <6>1 DEF StreakOf
        <5> QED BY <5>1, <5>2
      <4>6. c + 1 <= n + 1 /\ c + 1 # 0
        BY <1>2, <1>3, <4>2
      <4> QED BY <1>2, <4>1, <4>3, <4>4, <4>5, <4>6 DEF StreakOf
    <3> QED BY <3>1, <3>2
  <2> HIDE DEF old
  <2>3. ASSUME g.consecutiveFailures >= DISABLE_FAILURES PROVE Earned(longer)
    <3> DEFINE d == g.consecutiveFailures
               m == Len(longer)
               i == m - d + 1
               j == i + DISABLE_FAILURES - 1
    <3>1. d \in Nat /\ d # 0 /\ d <= m /\ m \in Nat /\ DISABLE_FAILURES \in Nat \ {0}
      BY <1>2, <1>3, <2>1, <2>2, <2>3, RosterAssumption DEF StreakOf
    <3>2. /\ longer[i].at = g.failStreakStartedAt
          /\ \A k \in i .. m : ~ longer[k].ok /\ longer[k].at - g.failStreakStartedAt <= DISABLE_WINDOW
      BY <2>2, <3>1 DEF StreakOf
    <3>3. i \in 1 .. m /\ j \in i .. m /\ j \in 1 .. m /\ DOMAIN longer = 1 .. m
      BY <1>2, <2>3, <3>1
    <3>4. \A k \in i .. j : k \in i .. m
      BY <3>1, <3>3
    <3> HIDE DEF d, m, i
    <3>5. /\ \A k \in i .. j : ~ longer[k].ok
          /\ longer[j].at - longer[i].at <= DISABLE_WINDOW
      BY <3>2, <3>3, <3>4
    <3> QED BY <3>3, <3>5 DEF Earned
  <2>4. g.autoDisabled => Earned(longer)
    BY <1>4, <1>5, <2>1, <2>3
  <2> QED BY <2>2, <2>4 DEF StreakFits, g, longer
<1> QED BY <1>3, <1>6, <1>7

(* Whatever the outcomes were: by the shortest list of them for which it   *)
(* did not hold.                                                           *)
LEMMA StreakAlwaysFits ==
  ASSUME NEW past \in Seq(Entry)
  PROVE  StreakFits(past)
<1> DEFINE Bad == {Len(p) : p \in {q \in Seq(Entry) : ~ StreakFits(q)}}
<1>1. SUFFICES ASSUME Bad # {} PROVE FALSE
  OBVIOUS
<1>2. PICK least \in Bad : \A n \in Bad : least <= n
  <2>1. Bad \in SUBSET Nat
    OBVIOUS
  <2> HIDE DEF Bad
  <2> QED BY <1>1, <2>1, Least
<1>3. PICK p \in Seq(Entry) : Len(p) = least /\ ~ StreakFits(p)
  BY <1>2
<1>4. CASE p = <<>>
  <2>1. Learnt(p) = Clean /\ Len(p) = 0
    BY <1>4, LearntIs
  <2>2. StreakFits(p)
    BY <2>1 DEF StreakFits, StreakOf, Clean
  <2> QED BY <1>3, <2>2
<1>5. CASE p # <<>>
  <2> DEFINE shorter == [k \in 1 .. Len(p) - 1 |-> p[k]]
             e == p[Len(p)]
  <2>1. /\ Len(p) \in Nat /\ Len(p) > 0 /\ e \in Entry
        /\ shorter \in Seq(Entry) /\ Len(shorter) = Len(p) - 1 /\ p = Append(shorter, e)
    BY <1>5
  <2> HIDE DEF shorter, e
  <2>2. Len(shorter) \notin Bad
    <3>1. Len(shorter) < least /\ Len(shorter) \in Nat /\ least \in Nat
      BY <1>3, <2>1
    <3> HIDE DEF Bad
    <3> QED BY <1>2, <3>1
  <2>3. StreakFits(shorter)
    BY <2>1, <2>2
  <2>4. StreakFits(p)
    BY <2>1, <2>3, StreakFitsLonger
  <2> QED BY <1>3, <2>4
<1> QED BY <1>4, <1>5

-----------------------------------------------------------------------------
(* ModelRouter: what holds in every state.                                 *)

(* What a parse knows of its attempts, and what outcomes recorded one at a *)
(* time have taught, is an inductive invariant.                            *)
THEOREM RouterInvariant == RouterSpec => []TaughtInv
BY RouterStart, TaughtStep, PTL DEF RouterSpec

(* For any models, parses and edits of the roster, a parse fails only when *)
(* every model it may ask has failed or was cut off, or its client left;   *)
(* and its answer is one that a model gave.                                *)
THEOREM AnswerKeptCorrect == RouterSpec => []AnswerKept
<1>1. ASSUME TaughtInv PROVE AnswerKept
  <2>1. ASSUME NEW r \in Reqs
        PROVE  LET q == req[r] IN
               /\ q.stage = "failed" =>
                    /\ \A m \in ToSet(q.first) : Lost(att[r][m])
                    /\ \A m \in ToSet(q.fallback) : Lost(att[r][m]) \/ (q.gone /\ At(r, m, "none"))
               /\ q.stage = "answered" => At(r, q.answer, "ok")
    <3>1. Told(req[r], att[r])
      BY <1>1 DEF TaughtInv, ToldInv, AllTold
    <3> QED BY <3>1 DEF Told, At
  <2> QED BY <2>1 DEF AnswerKept
<1> QED BY <1>1, RouterInvariant, PTL

(* However calls of several parses interleave, as long as their outcomes   *)
(* are recorded one at a time each counts, from the row the one before it  *)
(* left.                                                                   *)
THEOREM EachCountsCorrect == RouterSpec => []EachCounts
<1>1. TaughtInv => EachCounts
  BY ListIn DEF TaughtInv, AllExplained, EachCounts
<1> QED BY <1>1, RouterInvariant, PTL

(* And then a model is switched off only by enough failures of its own, in *)
(* a row and soon enough after the first.                                  *)
THEOREM OffEarnedCorrect == RouterSpec => []OffEarned
<1>1. ASSUME TaughtInv PROVE OffEarned
  <2>1. ASSUME alone, NEW m \in ToSet(list), health[m].autoDisabled
        PROVE  \E i \in DOMAIN log[m] :
                 LET j == i + DISABLE_FAILURES - 1
                 IN /\ j \in DOMAIN log[m]
                    /\ \A k \in i .. j : OwnFailure(m, log[m][k])
                    /\ log[m][j].at - log[m][i].at <= DISABLE_WINDOW
    <3>1. m \in Models /\ log[m] \in Seq(Entry)
      BY <1>1, ListIn DEF TaughtInv
    <3>2. Learnt(log[m]).autoDisabled
      BY <1>1, <2>1, <3>1 DEF TaughtInv, AllExplained, StreakExplained, Streak
    <3>3. Earned(log[m])
      BY <3>1, <3>2, StreakAlwaysFits DEF StreakFits
    <3>4. PICK i \in DOMAIN log[m] :
            /\ i + DISABLE_FAILURES - 1 \in DOMAIN log[m]
            /\ \A k \in i .. (i + DISABLE_FAILURES - 1) : ~ log[m][k].ok
            /\ log[m][i + DISABLE_FAILURES - 1].at - log[m][i].at <= DISABLE_WINDOW
      BY <3>3 DEF Earned
    <3>5. \A k \in i .. (i + DISABLE_FAILURES - 1) : k \in DOMAIN log[m]
      BY <3>1, <3>4, RosterAssumption
    <3>6. ASSUME NEW k \in i .. (i + DISABLE_FAILURES - 1) PROVE OwnFailure(m, log[m][k])
      <4>1. k \in DOMAIN log[m] /\ ~ log[m][k].ok
        BY <3>4, <3>5
      <4>2. log[m][k].by # None => att[log[m][k].by][m].st = "bad"
        BY <1>1, <3>1, <4>1 DEF TaughtInv, FailuresOwn
      <4> QED BY <4>1, <4>2 DEF OwnFailure
    <3> QED BY <3>4, <3>6
  <2> QED BY <2>1 DEF OffEarned
<1> QED BY <1>1, RouterInvariant, PTL

-----------------------------------------------------------------------------
(* Replies: texts.                                                         *)

(* The least of a set of numbers, and the greatest of a bounded one.       *)
LEMMA MinIs ==
  ASSUME NEW T \in SUBSET Nat, T # {}
  PROVE  Min(T) \in T /\ \A n \in T : Min(T) <= n
<1>1. PICK n \in T : \A m \in T : n <= m
  BY Least
<1>2. \E x \in T : \A y \in T : x <= y
  BY <1>1
<1> QED BY <1>2 DEF Min

(* The greatest of a set of numbers that has a bound.                      *)
LEMMA MaxIn ==
  ASSUME NEW n \in Nat, NEW T \in SUBSET (0 .. n), T # {}
  PROVE  Max(T) \in T /\ \A m \in T : m <= Max(T)
<1> DEFINE gaps == {k \in 0 .. n : n - k \in T}
<1>1. gaps \in SUBSET Nat /\ gaps # {}
  <2>1. PICK m \in T : TRUE
    OBVIOUS
  <2>2. n - m \in 0 .. n /\ n - (n - m) = m
    BY <2>1
  <2> QED BY <2>1, <2>2
<1>2. PICK k \in gaps : \A m \in gaps : k <= m
  <2> HIDE DEF gaps
  <2> QED BY <1>1, Least
<1>3. n - k \in T
  BY <1>2
<1>4. \A m \in T : m <= n - k
  <2>1. ASSUME NEW m \in T PROVE m <= n - k
    <3>1. n - m \in 0 .. n /\ n - (n - m) = m
      OBVIOUS
    <3>2. n - m \in gaps
      BY <3>1
    <3>3. k <= n - m /\ k \in 0 .. n
      BY <1>2, <3>2
    <3> QED BY <3>3
  <2> QED BY <2>1
<1>5. \E x \in T : \A y \in T : x >= y
  BY <1>3, <1>4
<1>6. Max(T) \in T /\ \A y \in T : Max(T) >= y
  BY <1>5 DEF Max
<1> QED BY <1>6

(* A part of a text.                                                       *)
LEMMA PartIs ==
  ASSUME NEW S, NEW s \in Seq(S), NEW i \in 1 .. (Len(s) + 1), NEW j \in (i - 1) .. Len(s)
  PROVE  /\ SubSeq(s, i, j) \in Seq(S) /\ Len(SubSeq(s, i, j)) = j - i + 1
         /\ \A k \in 1 .. (j - i + 1) : SubSeq(s, i, j)[k] = s[i + k - 1]
  OBVIOUS

(* All of a text, and nothing of it.                                       *)
LEMMA WholeIs ==
  ASSUME NEW S, NEW s \in Seq(S)
  PROVE  SubSeq(s, 1, Len(s)) = s /\ (\A i \in 1 .. (Len(s) + 1) : SubSeq(s, i, i - 1) = <<>>)
  OBVIOUS

(* A part that is longer by one mark.                                      *)
LEMMA PartLonger ==
  ASSUME NEW S, NEW s \in Seq(S), NEW i \in 1 .. Len(s), NEW j \in i .. Len(s)
  PROVE  SubSeq(s, i, j) = Append(SubSeq(s, i, j - 1), s[j]) /\ s[j] \in S
<1>1. /\ j - 1 \in (i - 1) .. Len(s) /\ j \in (i - 1) .. Len(s) /\ i \in 1 .. (Len(s) + 1) /\ s[j] \in S
  OBVIOUS
<1>2. /\ SubSeq(s, i, j) \in Seq(S) /\ Len(SubSeq(s, i, j)) = j - i + 1
      /\ \A k \in 1 .. (j - i + 1) : SubSeq(s, i, j)[k] = s[i + k - 1]
  BY <1>1, PartIs
<1>3. /\ SubSeq(s, i, j - 1) \in Seq(S) /\ Len(SubSeq(s, i, j - 1)) = j - i
      /\ \A k \in 1 .. (j - i) : SubSeq(s, i, j - 1)[k] = s[i + k - 1]
  <2>1. (j - 1) - i + 1 = j - i
    OBVIOUS
  <2> QED BY <1>1, <2>1, PartIs
<1> DEFINE u == SubSeq(s, i, j)
           v == SubSeq(s, i, j - 1)
<1> HIDE DEF u, v
<1>4. /\ u \in Seq(S) /\ v \in Seq(S) /\ Len(u) = Len(v) + 1 /\ Len(v) = j - i
      /\ \A k \in 1 .. Len(v) : u[k] = v[k]
      /\ u[Len(v) + 1] = s[j]
  <2>1. /\ u \in Seq(S) /\ Len(u) = j - i + 1
        /\ \A k \in 1 .. (j - i + 1) : u[k] = s[i + k - 1]
    BY <1>2 DEF u
  <2>2. /\ v \in Seq(S) /\ Len(v) = j - i
        /\ \A k \in 1 .. (j - i) : v[k] = s[i + k - 1]
    BY <1>3 DEF v
  <2>3. Len(u) = Len(v) + 1 /\ j - i + 1 \in 1 .. (j - i + 1) /\ i + (j - i + 1) - 1 = j
    BY <2>1, <2>2
  <2>4. u[Len(v) + 1] = s[j]
    BY <2>1, <2>2, <2>3
  <2>5. \A k \in 1 .. Len(v) : u[k] = v[k]
    BY <2>1, <2>2
  <2> QED BY <2>1, <2>2, <2>3, <2>4, <2>5
<1>5. u = Append(v, s[j])
  BY <1>1, <1>4
<1> QED BY <1>1, <1>5 DEF u, v

(* A text without the blanks around it.                                    *)
Solid(s, a, b) ==
  /\ a \in DOMAIN s /\ b \in DOMAIN s /\ a <= b
  /\ s[a] \notin Blank /\ s[b] \notin Blank
  /\ \A i \in DOMAIN s : i < a \/ i > b => s[i] \in Blank
  /\ trim(s) = SubSeq(s, a, b)

(* trim: a text is blank, or is cut to what lies between its first and its *)
(* last mark that is not.                                                  *)
LEMMA TrimIs ==
  ASSUME NEW S, NEW s \in Seq(S)
  PROVE  \/ (\A i \in DOMAIN s : s[i] \in Blank) /\ trim(s) = <<>>
         \/ \E a, b \in Nat : Solid(s, a, b)
<1> DEFINE solid == {i \in DOMAIN s : s[i] \notin Blank}
<1>1. DOMAIN s = 1 .. Len(s) /\ Len(s) \in Nat /\ solid \in SUBSET Nat /\ solid \in SUBSET (0 .. Len(s))
  OBVIOUS
<1>2. CASE solid = {}
  BY <1>2 DEF trim
<1>3. CASE solid # {}
  <2>1. trim(s) = SubSeq(s, Min(solid), Max(solid))
    BY <1>3 DEF trim
  <2> DEFINE a == Min(solid)
             b == Max(solid)
  <2>2. a \in solid /\ (\A n \in solid : a <= n) /\ b \in solid /\ \A m \in solid : m <= b
    <3> HIDE DEF solid
    <3> QED BY <1>1, <1>3, MinIs, MaxIn
  <2>3. trim(s) = SubSeq(s, a, b)
    BY <2>1
  <2> HIDE DEF a, b
  <2>4. a \in DOMAIN s /\ b \in DOMAIN s /\ s[a] \notin Blank /\ s[b] \notin Blank /\ a <= b
    BY <2>2
  <2>5. \A i \in DOMAIN s : i < a \/ i > b => s[i] \in Blank
    <3>1. ASSUME NEW i \in DOMAIN s, s[i] \notin Blank PROVE a <= i /\ i <= b
      BY <2>2, <3>1
    <3> QED BY <1>1, <2>4, <3>1
  <2>6. Solid(s, a, b) /\ a \in Nat /\ b \in Nat
    BY <1>1, <2>3, <2>4, <2>5 DEF Solid
  <2> QED BY <2>6
<1> QED BY <1>2, <1>3

(* It is no longer, and nothing exactly when the text is blank.            *)
LEMMA TrimFits ==
  ASSUME NEW S, NEW s \in Seq(S)
  PROVE  /\ trim(s) \in Seq(S) /\ Len(trim(s)) <= Len(s)
         /\ trim(s) = <<>> <=> \A i \in DOMAIN s : s[i] \in Blank
         /\ \A x \in Range(trim(s)) : x \in Range(s)
<1>1. CASE (\A i \in DOMAIN s : s[i] \in Blank) /\ trim(s) = <<>>
  <2>1. <<>> \in Seq(S) /\ Len(<<>>) = 0 /\ Range(<<>>) = {}
    BY DEF Range
  <2> QED BY <1>1, <2>1
<1>2. CASE \E a, b \in Nat : Solid(s, a, b)
  <2>1. PICK a \in Nat, b \in Nat : Solid(s, a, b)
    BY <1>2
  <2>2. /\ DOMAIN s = 1 .. Len(s) /\ Len(s) \in Nat
        /\ a \in 1 .. (Len(s) + 1) /\ b \in (a - 1) .. Len(s)
    BY <2>1 DEF Solid
  <2>3. /\ trim(s) \in Seq(S) /\ Len(trim(s)) = b - a + 1
        /\ \A k \in 1 .. (b - a + 1) : trim(s)[k] = s[a + k - 1]
    BY <2>1, <2>2, PartIs DEF Solid
  <2>4. Len(trim(s)) <= Len(s) /\ Len(trim(s)) # 0
    BY <2>1, <2>2, <2>3 DEF Solid
  <2>5. \A x \in Range(trim(s)) : x \in Range(s)
    <3>1. DOMAIN trim(s) = 1 .. (b - a + 1)
      BY <2>3
    <3>2. \A k \in 1 .. (b - a + 1) : a + k - 1 \in DOMAIN s
      BY <2>2
    <3> QED BY <2>3, <3>1, <3>2 DEF Range
  <2>6. ~ \A i \in DOMAIN s : s[i] \in Blank
    BY <2>1 DEF Solid
  <2>7. trim(s) # <<>>
    BY <2>4
  <2> QED BY <2>3, <2>4, <2>5, <2>6, <2>7
<1> QED BY <1>1, <1>2, TrimIs

(* A longer text is no shorter without its blanks.                         *)
LEMMA TrimLonger ==
  ASSUME NEW S, NEW s \in Seq(S), NEW i \in 0 .. Len(s), NEW j \in i .. Len(s)
  PROVE  Len(trim(SubSeq(s, 1, i))) <= Len(trim(SubSeq(s, 1, j)))
<1> DEFINE u == SubSeq(s, 1, i)
           v == SubSeq(s, 1, j)
<1>1. /\ u \in Seq(S) /\ DOMAIN u = 1 .. i /\ v \in Seq(S) /\ DOMAIN v = 1 .. j
      /\ (\A k \in 1 .. i : u[k] = s[k]) /\ (\A k \in 1 .. j : v[k] = s[k])
      /\ i \in Nat /\ j \in Nat /\ i <= j
  OBVIOUS
<1> HIDE DEF u, v
<1>2. Len(trim(u)) \in Nat /\ Len(trim(v)) \in Nat
  BY <1>1, TrimFits
<1>3. CASE trim(u) = <<>>
  BY <1>2, <1>3 DEF u, v
<1>4. CASE \E a, b \in Nat : Solid(u, a, b)
  <2>1. PICK a \in Nat, b \in Nat : Solid(u, a, b)
    BY <1>4
  <2>2. a \in 1 .. i /\ b \in 1 .. i /\ a <= b /\ v[a] \notin Blank /\ v[b] \notin Blank
    BY <1>1, <2>1 DEF Solid
  <2>3. a \in DOMAIN v /\ b \in DOMAIN v
    BY <1>1, <2>2
  <2>4. PICK c \in Nat, d \in Nat : Solid(v, c, d)
    <3>1. ~ \A k \in DOMAIN v : v[k] \in Blank
      BY <2>2, <2>3
    <3> QED BY <1>1, <3>1, TrimIs
  <2>5. c <= a /\ b <= d
    BY <2>2, <2>3, <2>4 DEF Solid
  <2>6. Len(trim(u)) = b - a + 1
    <3>1. a \in 1 .. (Len(u) + 1) /\ b \in (a - 1) .. Len(u)
      BY <1>1, <2>2
    <3> QED BY <1>1, <2>1, <3>1, PartIs DEF Solid
  <2>7. Len(trim(v)) = d - c + 1
    <3>1. c \in 1 .. (Len(v) + 1) /\ d \in (c - 1) .. Len(v)
      BY <1>1, <2>4 DEF Solid
    <3> QED BY <1>1, <2>4, <3>1, PartIs DEF Solid
  <2> QED BY <2>5, <2>6, <2>7 DEF u, v
<1> QED BY <1>1, <1>3, <1>4, TrimIs

(* The marks that Letters leaves out.                                      *)
Dull == Blank \cup {".", More}

LettersOf(f, s) ==
  f = [n \in 0 .. Len(s) |->
         IF n = 0 THEN <<>>
         ELSE IF s[n] \in Blank \cup {".", More} THEN f[n - 1] ELSE Append(f[n - 1], s[n])]

(* The steps by which Letters reads a text are there.                      *)
LEMMA LettersExist ==
  ASSUME NEW S, NEW s \in Seq(S)
  PROVE  \E f : f \in [0 .. Len(s) -> Seq(S)] /\ LettersOf(f, s)
<1> DEFINE N == Len(s)
           step == [x \in (1 .. N) \X Seq(S) |->
                      IF s[x[1]] \in Blank \cup {".", More} THEN x[2] ELSE Append(x[2], s[x[1]])]
<1>1. step \in [(1 .. N) \X Seq(S) -> Seq(S)]
  <2>1. ASSUME NEW k \in 1 .. N, NEW v \in Seq(S) PROVE s[k] \in S /\ Append(v, s[k]) \in Seq(S)
    OBVIOUS
  <2>2. ASSUME NEW x \in (1 .. N) \X Seq(S)
        PROVE  (IF s[x[1]] \in Blank \cup {".", More} THEN x[2] ELSE Append(x[2], s[x[1]])) \in Seq(S)
    BY <2>1
  <2> QED BY <2>2
<1>2. N \in Nat /\ <<>> \in Seq(S)
  OBVIOUS
<1>3. PICK f \in [0 .. N -> Seq(S)] : Chain(f, <<>>, step, N)
  <2> HIDE DEF step, N
  <2> QED BY <1>1, <1>2, ChainExists
<1>4. ASSUME NEW k \in 1 .. N
      PROVE  f[k] = IF s[k] \in Blank \cup {".", More} THEN f[k - 1] ELSE Append(f[k - 1], s[k])
  <2>1. k - 1 \in 0 .. N
    BY <1>2
  <2>2. <<k, f[k - 1]>> \in (1 .. N) \X Seq(S)
    BY <2>1
  <2>3. step[<<k, f[k - 1]>>] = IF s[k] \in Blank \cup {".", More} THEN f[k - 1] ELSE Append(f[k - 1], s[k])
    BY <2>2
  <2> QED BY <1>3, <2>3 DEF Chain
<1> DEFINE h == [n \in 0 .. Len(s) |->
                   IF n = 0 THEN <<>>
                   ELSE IF s[n] \in Blank \cup {".", More} THEN f[n - 1] ELSE Append(f[n - 1], s[n])]
<1>5. \A n \in 0 .. N : f[n] = h[n]
  <2>1. f[0] = h[0]
    BY <1>2, <1>3 DEF Chain
  <2>2. \A n \in 1 .. N : f[n] = h[n]
    BY <1>2, <1>4
  <2>3. \A n \in 0 .. N : n = 0 \/ n \in 1 .. N
    BY <1>2
  <2> HIDE DEF h
  <2> QED BY <2>1, <2>2, <2>3
<1>6. f = h
  BY <1>5
<1> QED BY <1>6 DEF LettersOf

(* Nothing has no letters, and one mark more adds itself or nothing.       *)
LEMMA LettersIs ==
  ASSUME NEW S, NEW s \in Seq(S)
  PROVE  /\ Letters(s) \in Seq(S)
         /\ s = <<>> => Letters(s) = <<>>
         /\ \A c \in S : Letters(Append(s, c)) = IF c \in Dull THEN Letters(s) ELSE Append(Letters(s), c)
<1>1. \A u : Letters(u) = (CHOOSE f : LettersOf(f, u))[Len(u)]
  BY DEF Letters, LettersOf
<1> DEFINE f == CHOOSE x : LettersOf(x, s)
           NextOf(v, c) == IF c \in Dull THEN v ELSE Append(v, c)
<1>2. LettersOf(f, s) /\ Len(s) \in Nat
  BY LettersExist
<1> HIDE DEF f
<1>3. f[0] = <<>> /\ \A k \in 1 .. Len(s) : f[k] = NextOf(f[k - 1], s[k])
  <2>1. \A k \in 0 .. Len(s) : f[k] = IF k = 0 THEN <<>> ELSE NextOf(f[k - 1], s[k])
    BY <1>2 DEF LettersOf, Dull
  <2>2. 0 \in 0 .. Len(s) /\ \A k \in 1 .. Len(s) : k \in 0 .. Len(s) /\ k # 0
    BY <1>2
  <2> HIDE DEF NextOf
  <2> QED BY <2>1, <2>2
<1>4. Letters(s) = f[Len(s)]
  BY <1>1 DEF f
<1>5. Letters(s) \in Seq(S)
  <2>1. PICK g : g \in [0 .. Len(s) -> Seq(S)] /\ LettersOf(g, s)
    BY LettersExist
  <2>2. \A k \in 0 .. Len(s) : g[k] = IF k = 0 THEN <<>> ELSE NextOf(g[k - 1], s[k])
    BY <2>1 DEF LettersOf, Dull
  <2>3. 0 \in 0 .. Len(s) /\ \A k \in 1 .. Len(s) : k \in 0 .. Len(s) /\ k # 0
    BY <1>2
  <2> HIDE DEF NextOf
  <2>4. f[0] = g[0] /\ \A k \in 1 .. Len(s) : f[k - 1] = g[k - 1] => f[k] = g[k]
    BY <1>3, <2>2, <2>3
  <2>5. \A k \in 0 .. Len(s) : f[k] = g[k]
    BY <1>2, <2>4, ChainsAgree
  <2> QED BY <1>2, <1>4, <2>1, <2>5
<1>6. s = <<>> => Letters(s) = <<>>
  BY <1>3, <1>4
<1>7. ASSUME NEW c \in S PROVE Letters(Append(s, c)) = NextOf(Letters(s), c)
  <2> DEFINE longer == Append(s, c)
             g == CHOOSE x : LettersOf(x, longer)
             n == Len(s)
  <2>1. /\ longer \in Seq(S) /\ Len(longer) = n + 1 /\ longer[n + 1] = c
        /\ \A k \in 1 .. n : longer[k] = s[k]
    OBVIOUS
  <2>2. LettersOf(g, longer)
    BY <2>1, LettersExist
  <2>3. Letters(longer) = g[n + 1]
    BY <1>1, <2>1
  <2> HIDE DEF g, longer
  <2>4. \A k \in 0 .. n + 1 : g[k] = IF k = 0 THEN <<>> ELSE NextOf(g[k - 1], longer[k])
    BY <2>1, <2>2 DEF LettersOf, Dull
  <2>5. /\ 0 \in 0 .. n + 1 /\ n + 1 \in 0 .. n + 1 /\ n + 1 # 0 /\ n + 1 - 1 = n /\ n \in 0 .. n
        /\ \A k \in 1 .. n : k \in 0 .. n + 1 /\ k # 0
    BY <1>2
  <2> HIDE DEF NextOf
  <2>6. f[0] = g[0] /\ \A k \in 1 .. n : f[k - 1] = g[k - 1] => f[k] = g[k]
    BY <1>3, <2>1, <2>4, <2>5
  <2>7. \A k \in 0 .. n : f[k] = g[k]
    BY <1>2, <2>6, ChainsAgree
  <2>8. g[n + 1] = NextOf(g[n], c)
    BY <2>1, <2>4, <2>5
  <2> QED BY <1>4, <2>3, <2>5, <2>7, <2>8 DEF longer
<1> QED BY <1>5, <1>6, <1>7

(* Joining, one mark later.                                                *)
LEMMA AppendLast ==
  ASSUME NEW S, NEW u \in Seq(S), NEW v \in Seq(S), NEW c \in S
  PROVE  u \o Append(v, c) = Append(u \o v, c) /\ u \o v \in Seq(S) /\ u \o <<>> = u /\ <<>> \o u = u
  OBVIOUS

(* The letters of a text are those of its parts, one after the other: by   *)
(* the shortest text of which they were not.                               *)
LEMMA LettersCut ==
  ASSUME NEW S, NEW s \in Seq(S), NEW j \in 0 .. Len(s), NEW m \in j .. Len(s)
  PROVE  Letters(SubSeq(s, 1, m)) = Letters(SubSeq(s, 1, j)) \o Letters(SubSeq(s, j + 1, m))
<1> DEFINE Good(n) == Letters(SubSeq(s, 1, n)) = Letters(SubSeq(s, 1, j)) \o Letters(SubSeq(s, j + 1, n))
           Bad == {n \in j .. Len(s) : ~ Good(n)}
<1>1. SUFFICES ASSUME Bad # {} PROVE FALSE
  OBVIOUS
<1>2. PICK n \in Bad : \A k \in Bad : n <= k
  <2>1. Bad \in SUBSET Nat
    OBVIOUS
  <2> HIDE DEF Bad
  <2> QED BY <1>1, <2>1, Least
<1>3. n \in j .. Len(s) /\ Len(s) \in Nat /\ j \in Nat /\ n \in Nat
  BY <1>2
<1>4. CASE n = j
  <2>1. SubSeq(s, j + 1, j) = <<>>
    <3>1. j + 1 \in 1 .. (Len(s) + 1) /\ (j + 1) - 1 = j
      BY <1>3
    <3> QED BY <3>1, WholeIs
  <2>2. SubSeq(s, 1, j) \in Seq(S) /\ <<>> \in Seq(S)
    BY <1>3
  <2>3. Letters(SubSeq(s, 1, j)) \in Seq(S) /\ Letters(<<>>) = <<>>
    BY <2>2, LettersIs
  <2>4. Letters(SubSeq(s, 1, j)) \o <<>> = Letters(SubSeq(s, 1, j))
    BY <2>3
  <2> QED BY <1>2, <1>4, <2>1, <2>3, <2>4
<1>5. CASE n # j
  <2>1. /\ n - 1 \in j .. Len(s) /\ n - 1 < n /\ n \in 1 .. Len(s) /\ n \in (j + 1) .. Len(s) /\ j + 1 \in 1 .. Len(s)
        /\ n - 1 \in (1 - 1) .. Len(s) /\ n - 1 \in ((j + 1) - 1) .. Len(s) /\ 1 \in 1 .. Len(s)
        /\ j \in (1 - 1) .. Len(s) /\ 1 \in 1 .. (Len(s) + 1) /\ j + 1 \in 1 .. (Len(s) + 1)
    BY <1>3, <1>5
  <2>2. Good(n - 1)
    <3>1. n - 1 \notin Bad
      BY <1>2, <1>3, <2>1
    <3> QED BY <2>1, <3>1
  <2> DEFINE a == SubSeq(s, 1, n - 1)
             b == SubSeq(s, j + 1, n - 1)
             w == SubSeq(s, 1, j)
             c == s[n]
  <2>3. SubSeq(s, 1, n) = Append(a, c) /\ SubSeq(s, j + 1, n) = Append(b, c) /\ c \in S
    BY <2>1, PartLonger
  <2>4. a \in Seq(S) /\ b \in Seq(S) /\ w \in Seq(S)
    BY <2>1, PartIs
  <2>5. Letters(a) = Letters(w) \o Letters(b)
    BY <2>2
  <2> HIDE DEF a, b, w, c
  <2>6. /\ Letters(w) \in Seq(S) /\ Letters(b) \in Seq(S)
        /\ Letters(Append(a, c)) = IF c \in Dull THEN Letters(a) ELSE Append(Letters(a), c)
        /\ Letters(Append(b, c)) = IF c \in Dull THEN Letters(b) ELSE Append(Letters(b), c)
    BY <2>3, <2>4, LettersIs
  <2>7. Letters(w) \o Append(Letters(b), c) = Append(Letters(w) \o Letters(b), c)
    <3>1. PICK u, v : u = Letters(w) /\ v = Letters(b)
      OBVIOUS
    <3>2. u \in Seq(S) /\ v \in Seq(S) /\ c \in S
      BY <2>3, <2>6, <3>1
    <3>3. u \o Append(v, c) = Append(u \o v, c)
      BY <3>2, AppendLast
    <3> QED BY <3>1, <3>3
  <2>8. Letters(Append(a, c)) = Letters(w) \o Letters(Append(b, c))
    BY <2>5, <2>6, <2>7
  <2>9. Good(n)
    BY <2>3, <2>8 DEF w
  <2> QED BY <1>2, <2>9
<1> QED BY <1>4, <1>5

(* A text of dull marks has none.                                          *)
LEMMA LettersNone ==
  ASSUME NEW S, NEW s \in Seq(S), \A i \in DOMAIN s : s[i] \in Dull
  PROVE  Letters(s) = <<>>
<1> DEFINE Bad == {n \in 0 .. Len(s) : Letters(SubSeq(s, 1, n)) # <<>>}
<1>1. Len(s) \in Nat /\ SubSeq(s, 1, Len(s)) = s /\ <<>> \in Seq(S) /\ SubSeq(s, 1, 0) = <<>>
  OBVIOUS
<1>2. SUFFICES ASSUME Bad # {} PROVE FALSE
  <2>1. Len(s) \in Bad \/ Letters(SubSeq(s, 1, Len(s))) = <<>>
    BY <1>1
  <2> HIDE DEF Bad
  <2> QED BY <1>1, <2>1
<1>3. PICK n \in Bad : \A k \in Bad : n <= k
  <2>1. Bad \in SUBSET Nat
    OBVIOUS
  <2> HIDE DEF Bad
  <2> QED BY <1>2, <2>1, Least
<1>4. n # 0
  <2>1. Letters(<<>>) = <<>>
    BY <1>1, LettersIs
  <2> QED BY <1>1, <1>3, <2>1
<1>5. /\ n \in 1 .. Len(s) /\ n - 1 \in 0 .. Len(s) /\ n - 1 < n /\ 1 \in 1 .. Len(s)
      /\ n - 1 \in (1 - 1) .. Len(s) /\ 1 \in 1 .. (Len(s) + 1) /\ n \in DOMAIN s
  BY <1>1, <1>3, <1>4
<1>6. n - 1 \notin Bad
  BY <1>3, <1>5
<1>7. Letters(SubSeq(s, 1, n - 1)) = <<>>
  BY <1>5, <1>6
<1>8. SubSeq(s, 1, n) = Append(SubSeq(s, 1, n - 1), s[n]) /\ s[n] \in S
  BY <1>5, PartLonger
<1>9. SubSeq(s, 1, n - 1) \in Seq(S)
  BY <1>5, PartIs
<1>10. Letters(Append(SubSeq(s, 1, n - 1), s[n])) = Letters(SubSeq(s, 1, n - 1))
  <2> DEFINE a == SubSeq(s, 1, n - 1)
             c == s[n]
  <2>1. a \in Seq(S) /\ c \in S /\ c \in Dull
    BY <1>5, <1>8, <1>9
  <2> HIDE DEF a, c
  <2>2. Letters(Append(a, c)) = Letters(a)
    BY <2>1, LettersIs
  <2> QED BY <2>2 DEF a, c
<1> QED BY <1>3, <1>7, <1>8, <1>10

(* The blanks around it are dull.                                          *)
LEMMA LettersTrim ==
  ASSUME NEW S, NEW s \in Seq(S)
  PROVE  Letters(trim(s)) = Letters(s)
<1>1. CASE (\A i \in DOMAIN s : s[i] \in Blank) /\ trim(s) = <<>>
  <2>1. Letters(s) = <<>>
    <3>1. \A i \in DOMAIN s : s[i] \in Dull
      BY <1>1 DEF Dull
    <3> QED BY <3>1, LettersNone
  <2>2. <<>> \in Seq(S)
    OBVIOUS
  <2> QED BY <1>1, <2>1, <2>2, LettersIs
<1>2. CASE \E a, b \in Nat : Solid(s, a, b)
  <2>1. PICK a \in Nat, b \in Nat : Solid(s, a, b)
    BY <1>2
  <2> DEFINE n == Len(s)
             before == SubSeq(s, 1, a - 1)
             after == SubSeq(s, b + 1, n)
             upTo == SubSeq(s, 1, b)
  <2>2. DOMAIN s = 1 .. n /\ n \in Nat /\ a \in 1 .. n /\ b \in 1 .. n /\ a <= b
    BY <2>1 DEF Solid
  <2>3. /\ a - 1 \in 0 .. n /\ b \in (a - 1) .. n /\ b \in 0 .. n /\ n \in b .. n
        /\ 1 \in 1 .. (n + 1) /\ a - 1 \in (1 - 1) .. n /\ b + 1 \in 1 .. (n + 1) /\ n \in ((b + 1) - 1) .. n
        /\ (a - 1) + 1 = a /\ b \in (1 - 1) .. n /\ a \in 1 .. (n + 1)
    BY <2>2
  <2>4. Letters(SubSeq(s, 1, n)) = Letters(upTo) \o Letters(after)
    BY <2>3, LettersCut
  <2>5. Letters(upTo) = Letters(before) \o Letters(trim(s))
    <3>1. Letters(upTo) = Letters(before) \o Letters(SubSeq(s, (a - 1) + 1, b))
      BY <2>3, LettersCut
    <3> QED BY <2>1, <2>3, <3>1 DEF Solid
  <2>6. Letters(before) = <<>>
    <3>1. before \in Seq(S) /\ DOMAIN before = 1 .. (a - 1) /\ \A k \in 1 .. (a - 1) : before[k] = s[k]
      BY <2>2
    <3>2. \A k \in 1 .. (a - 1) : s[k] \in Dull
      <4>1. \A k \in 1 .. (a - 1) : k \in DOMAIN s /\ k < a
        BY <2>2
      <4> QED BY <2>1, <4>1 DEF Solid, Dull
    <3> HIDE DEF before
    <3> QED BY <3>1, <3>2, LettersNone
  <2>7. Letters(after) = <<>>
    <3>1. /\ after \in Seq(S) /\ DOMAIN after = 1 .. (n - b)
          /\ \A k \in 1 .. (n - b) : after[k] = s[b + k]
      <4>1. /\ after \in Seq(S) /\ Len(after) = n - (b + 1) + 1
            /\ \A k \in 1 .. (n - (b + 1) + 1) : after[k] = s[(b + 1) + k - 1]
        BY <2>3, PartIs
      <4>2. n - (b + 1) + 1 = n - b /\ \A k \in 1 .. (n - b) : (b + 1) + k - 1 = b + k
        BY <2>2
      <4> HIDE DEF after
      <4> QED BY <4>1, <4>2
    <3>2. \A k \in 1 .. (n - b) : s[b + k] \in Dull
      <4>1. \A k \in 1 .. (n - b) : b + k \in DOMAIN s /\ b + k > b
        BY <2>2
      <4> QED BY <2>1, <4>1 DEF Solid, Dull
    <3> HIDE DEF after
    <3> QED BY <3>1, <3>2, LettersNone
  <2>8. trim(s) \in Seq(S)
    BY TrimFits
  <2>9. Letters(trim(s)) \in Seq(S)
    BY <2>8, LettersIs
  <2>10. SubSeq(s, 1, n) = s
    OBVIOUS
  <2> HIDE DEF n, before, after, upTo
  <2>11. Letters(s) = (<<>> \o Letters(trim(s))) \o <<>>
    BY <2>4, <2>5, <2>6, <2>7, <2>10
  <2>12. <<>> \o Letters(trim(s)) = Letters(trim(s)) /\ Letters(trim(s)) \o <<>> = Letters(trim(s))
    BY <2>9, AppendLast
  <2> QED BY <2>11, <2>12
<1> QED BY <1>1, <1>2, TrimIs

(* Without the stops at its end a text is its own beginning.               *)
LEMMA StopsOff ==
  ASSUME NEW S, NEW s \in Seq(S)
  PROVE  \E k \in 0 .. Len(s) : withoutStops(s) = SubSeq(s, 1, k)
<1> DEFINE T == {0} \cup {i \in DOMAIN s : s[i] # "."}
<1>1. T \in SUBSET (0 .. Len(s)) /\ T # {} /\ Len(s) \in Nat
  OBVIOUS
<1>2. Max(T) \in T
  <2> HIDE DEF T
  <2> QED BY <1>1, MaxIn
<1>3. Max(T) \in 0 .. Len(s)
  BY <1>1, <1>2
<1> QED BY <1>3 DEF withoutStops

(* A beginning of a beginning.                                             *)
LEMMA PartOfPart ==
  ASSUME NEW S, NEW s \in Seq(S), NEW j \in 0 .. Len(s), NEW k \in 0 .. j
  PROVE  SubSeq(SubSeq(s, 1, j), 1, k) = SubSeq(s, 1, k)
<1> DEFINE u == SubSeq(s, 1, j)
           v == SubSeq(s, 1, k)
           w == SubSeq(u, 1, k)
<1>1. u \in Seq(S) /\ Len(u) = j /\ (\A i \in 1 .. j : u[i] = s[i]) /\ j \in Nat /\ k \in Nat
  OBVIOUS
<1>2. v \in Seq(S) /\ Len(v) = k /\ (\A i \in 1 .. k : v[i] = s[i])
  BY <1>1
<1> HIDE DEF u, v
<1>3. w \in Seq(S) /\ Len(w) = k /\ (\A i \in 1 .. k : w[i] = u[i])
  BY <1>1
<1> HIDE DEF w
<1>4. \A i \in 1 .. k : w[i] = v[i]
  BY <1>1, <1>2, <1>3
<1>5. w = v
  BY <1>1, <1>2, <1>3, <1>4
<1> QED BY <1>5 DEF u, v, w

(* A sentence ends within the limit, and not before it is long enough.     *)
LEMMA SentenceEnds ==
  ASSUME NEW S, NEW s \in Seq(S)
  PROVE  \/ sentenceEnd(s) = 0
         \/ /\ sentenceEnd(s) \in 1 .. Len(s) /\ sentenceEnd(s) <= Limit
            /\ Len(trim(SubSeq(s, 1, sentenceEnd(s)))) >= MinTitle
<1> DEFINE ends == {e \in DOMAIN s : \/ s[e] = "/"
                                     \/ s[e] = "." /\ e < Len(s) /\ s[e + 1] \in Blank}
           before(e) == IF s[e] = "/" THEN SubSeq(s, 1, e - 1) ELSE withoutStops(SubSeq(s, 1, e))
           long == {e \in ends : Len(trim(before(e))) >= MinTitle}
<1>1. sentenceEnd(s) = IF long = {} \/ Min(long) > Limit THEN 0 ELSE Min(long)
  BY DEF sentenceEnd
<1>2. SUFFICES ASSUME sentenceEnd(s) # 0
               PROVE  /\ sentenceEnd(s) \in 1 .. Len(s) /\ sentenceEnd(s) <= Limit
                      /\ Len(trim(SubSeq(s, 1, sentenceEnd(s)))) >= MinTitle
  OBVIOUS
<1>3. long # {} /\ ~ Min(long) > Limit /\ sentenceEnd(s) = Min(long)
  <2> HIDE DEF long
  <2> QED BY <1>1, <1>2
<1>4. Min(long) \in long
  <2>1. long \in SUBSET Nat
    OBVIOUS
  <2> HIDE DEF long
  <2> QED BY <1>3, <2>1, MinIs
<1> DEFINE e == Min(long)
<1>5. /\ e \in 1 .. Len(s) /\ Len(trim(before(e))) >= MinTitle
      /\ Len(s) \in Nat
  <2>1. e \in DOMAIN s /\ Len(trim(before(e))) >= MinTitle
    BY <1>4
  <2> QED BY <2>1
<1>6. e <= Limit
  BY <1>3, <1>5, RepliesAssumption
<1> HIDE DEF e
<1>7. \E k \in 0 .. e : before(e) = SubSeq(s, 1, k)
  <2>1. CASE s[e] = "/"
    <3>1. e - 1 \in 0 .. e /\ before(e) = SubSeq(s, 1, e - 1)
      BY <1>5, <2>1
    <3> QED BY <3>1
  <2>2. CASE s[e] # "/"
    <3>1. SubSeq(s, 1, e) \in Seq(S) /\ Len(SubSeq(s, 1, e)) = e /\ e \in 0 .. Len(s)
      BY <1>5
    <3>2. PICK k \in 0 .. e : withoutStops(SubSeq(s, 1, e)) = SubSeq(SubSeq(s, 1, e), 1, k)
      BY <3>1, StopsOff
    <3>3. SubSeq(SubSeq(s, 1, e), 1, k) = SubSeq(s, 1, k)
      BY <3>1, PartOfPart
    <3> QED BY <2>2, <3>2, <3>3
  <2> QED BY <2>1, <2>2
<1>8. PICK k \in 0 .. e : before(e) = SubSeq(s, 1, k)
  BY <1>7
<1>9. k \in 0 .. Len(s) /\ e \in k .. Len(s)
  BY <1>5
<1>10. Len(trim(SubSeq(s, 1, k))) <= Len(trim(SubSeq(s, 1, e)))
  BY <1>9, TrimLonger
<1>11. Len(trim(SubSeq(s, 1, k))) \in Nat /\ Len(trim(SubSeq(s, 1, e))) \in Nat
  <2>1. SubSeq(s, 1, k) \in Seq(S) /\ SubSeq(s, 1, e) \in Seq(S)
    BY <1>9
  <2>2. trim(SubSeq(s, 1, k)) \in Seq(S) /\ trim(SubSeq(s, 1, e)) \in Seq(S)
    BY <2>1, TrimFits
  <2> QED BY <2>2
<1>12. Len(trim(SubSeq(s, 1, k))) >= MinTitle
  BY <1>5, <1>8
<1>13. Len(trim(SubSeq(s, 1, e))) >= MinTitle
  BY <1>10, <1>11, <1>12, RepliesAssumption
<1>14. sentenceEnd(s) = e
  BY <1>3 DEF e
<1> QED BY <1>5, <1>6, <1>13, <1>14

(* A stop that is dropped is no letter.                                    *)
LEMMA OneStopIs ==
  ASSUME NEW S, NEW s \in Seq(S)
  PROVE  /\ oneStopLess(s) \in Seq(S) /\ Letters(oneStopLess(s)) = Letters(s)
         /\ Len(oneStopLess(s)) \in (Len(s) - 1) .. Len(s)
<1> DEFINE n == Len(s)
<1>1. n \in Nat
  OBVIOUS
<1>2. CASE n > 0 /\ s[n] = "." /\ oneStopLess(s) = SubSeq(s, 1, n - 1)
  <2>1. /\ n \in 1 .. n /\ 1 \in 1 .. n /\ 1 \in 1 .. (n + 1) /\ n - 1 \in (1 - 1) .. n
        /\ (n - 1) - 1 + 1 = n - 1
    BY <1>1, <1>2
  <2>2. SubSeq(s, 1, n) = Append(SubSeq(s, 1, n - 1), s[n]) /\ s[n] \in S
    BY <2>1, PartLonger
  <2>3. SubSeq(s, 1, n - 1) \in Seq(S) /\ Len(SubSeq(s, 1, n - 1)) = n - 1
    BY <2>1, PartIs
  <2>4. SubSeq(s, 1, n) = s
    OBVIOUS
  <2> DEFINE a == SubSeq(s, 1, n - 1)
             c == s[n]
  <2>5. s = Append(a, c) /\ a \in Seq(S) /\ c \in S /\ c \in Dull /\ Len(a) = n - 1 /\ oneStopLess(s) = a
    BY <1>2, <2>2, <2>3, <2>4 DEF Dull
  <2> HIDE DEF a, c, n
  <2>6. Letters(Append(a, c)) = Letters(a)
    BY <2>5, LettersIs
  <2>7. Len(a) \in (n - 1) .. n
    BY <1>1, <2>5
  <2> QED BY <2>5, <2>6, <2>7 DEF n
<1>3. CASE oneStopLess(s) = s
  BY <1>1, <1>3
<1> QED BY <1>1, <1>2, <1>3 DEF oneStopLess

(* Cut after from - 1, it keeps the letters that the title keeps.          *)
LEMMA SplitAtKeeps ==
  ASSUME NEW S, NEW s \in Seq(S), NEW j \in 0 .. Len(s), NEW from, from = j + 1, NEW title,
         Letters(title) = Letters(SubSeq(s, 1, j))
  PROVE  /\ splitAt(s, title, from).title = title
         /\ splitAt(s, title, from).description \in Seq(S)
         /\ Letters(splitAt(s, title, from).title) \o Letters(splitAt(s, title, from).description) = Letters(s)
<1> DEFINE rest == SubSeq(s, j + 1, Len(s))
<1>1. /\ j + 1 \in 1 .. (Len(s) + 1) /\ Len(s) \in ((j + 1) - 1) .. Len(s) /\ Len(s) \in j .. Len(s)
      /\ SubSeq(s, 1, Len(s)) = s
  OBVIOUS
<1>2. splitAt(s, title, from) = [title |-> title, description |-> trim(rest)]
  BY DEF splitAt
<1>3. rest \in Seq(S)
  BY <1>1, PartIs
<1>4. Letters(SubSeq(s, 1, Len(s))) = Letters(SubSeq(s, 1, j)) \o Letters(rest)
  BY <1>1, LettersCut
<1> HIDE DEF rest
<1>5. trim(rest) \in Seq(S) /\ Letters(trim(rest)) = Letters(rest)
  BY <1>3, TrimFits, LettersTrim
<1>6. Letters(title) \o Letters(trim(rest)) = Letters(s)
  BY <1>1, <1>4, <1>5
<1>7. splitAt(s, title, from).title = title /\ splitAt(s, title, from).description = trim(rest)
  BY <1>2
<1> QED BY <1>5, <1>6, <1>7

(* The split of a text that is not blank.                                  *)
LEMMA SplitIs ==
  ASSUME NEW S, More \in S, NEW text \in Seq(S), trim(text) # <<>>
  PROVE  LET task == splitInboxText(text)
         IN /\ task.title \in Seq(S) /\ task.description \in Seq(S)
            /\ task.title # <<>> /\ Len(task.title) <= Limit + 1
            /\ Letters(task.title) \o Letters(task.description) = Letters(text)
<1> DEFINE s == trim(text)
           end == sentenceEnd(s)
           blanks == {0} \cup {i \in 1 .. (Limit + 1) : s[i] \in Blank}
           last == Max(blanks)
           task == splitInboxText(text)
<1>1. task = IF Len(s) <= Limit THEN [title |-> s, description |-> <<>>]
             ELSE IF end # 0 THEN splitAt(s, oneStopLess(trim(SubSeq(s, 1, end))), end + 1)
             ELSE IF last - 1 >= MinTitle THEN cut(s, last)
             ELSE splitAt(s, SubSeq(s, 1, Limit), Limit + 1)
  BY DEF splitInboxText
<1>2. s \in Seq(S) /\ s # <<>> /\ Letters(s) = Letters(text)
  BY TrimFits, LettersTrim
<1>3. Limit \in Nat /\ MinTitle \in Nat /\ MinTitle >= 2 /\ MinTitle < Limit
  BY RepliesAssumption
<1>4. /\ end = 0 \/ /\ end \in 1 .. Len(s) /\ end <= Limit /\ Len(trim(SubSeq(s, 1, end))) >= MinTitle
      /\ Len(s) \in Nat /\ Len(s) # 0
  <2>1. Len(s) \in Nat /\ Len(s) # 0
    <3> HIDE DEF s
    <3> QED BY <1>2
  <2> QED BY <1>2, <2>1, SentenceEnds
<1>5. last \in 0 .. (Limit + 1)
  <2>1. Limit + 1 \in Nat /\ blanks \in SUBSET (0 .. (Limit + 1)) /\ blanks # {}
    BY <1>3
  <2>2. last \in blanks
    <3> HIDE DEF blanks
    <3> QED BY <2>1, MaxIn
  <2> HIDE DEF last
  <2> QED BY <2>1, <2>2
<1> HIDE DEF s, end, last, task
<1> DEFINE Fine == /\ task.title \in Seq(S) /\ task.description \in Seq(S)
                   /\ task.title # <<>> /\ Len(task.title) <= Limit + 1
                   /\ Letters(task.title) \o Letters(task.description) = Letters(s)
<1>6. ASSUME Len(s) <= Limit PROVE Fine
  <2>1. task.title = s /\ task.description = <<>>
    BY <1>1, <1>6
  <2>2. <<>> \in Seq(S)
    OBVIOUS
  <2>3. Letters(s) \in Seq(S) /\ Letters(<<>>) = <<>>
    BY <1>2, <2>2, LettersIs
  <2>4. Letters(s) \o Letters(<<>>) = Letters(s)
    BY <2>3
  <2>5. Len(s) <= Limit + 1
    BY <1>3, <1>4, <1>6
  <2> QED BY <1>2, <2>1, <2>2, <2>4, <2>5
<1>7. ASSUME ~ Len(s) <= Limit /\ end # 0 PROVE Fine
  <2> DEFINE head == SubSeq(s, 1, end)
             title == oneStopLess(trim(head))
  <2>1. end \in 1 .. Len(s) /\ end <= Limit /\ Len(trim(head)) >= MinTitle
    BY <1>4, <1>7
  <2>2. head \in Seq(S) /\ Len(head) = end
    BY <1>2, <2>1
  <2> HIDE DEF head
  <2>3. trim(head) \in Seq(S) /\ Len(trim(head)) <= Len(head) /\ Letters(trim(head)) = Letters(head)
    BY <2>2, TrimFits, LettersTrim
  <2>4. /\ title \in Seq(S) /\ Letters(title) = Letters(head)
        /\ Len(title) \in (Len(trim(head)) - 1) .. Len(trim(head))
    BY <2>3, OneStopIs
  <2>5. Len(trim(head)) \in Nat
    BY <2>3
  <2> HIDE DEF title
  <2>6. title # <<>> /\ Len(title) <= Limit + 1
    <3>1. Len(title) >= 1 /\ Len(title) <= Limit + 1
      BY <1>3, <1>4, <2>1, <2>2, <2>3, <2>4, <2>5
    <3> QED BY <2>4, <3>1
  <2>7. end \in 0 .. Len(s)
    BY <1>4, <2>1
  <2>8. /\ splitAt(s, title, end + 1).title = title
        /\ splitAt(s, title, end + 1).description \in Seq(S)
        /\ Letters(splitAt(s, title, end + 1).title) \o Letters(splitAt(s, title, end + 1).description) = Letters(s)
    BY <1>2, <2>4, <2>7, SplitAtKeeps DEF head
  <2>9. task = splitAt(s, title, end + 1)
    BY <1>1, <1>7 DEF title, head
  <2> QED BY <2>4, <2>6, <2>8, <2>9
<1>8. ASSUME ~ Len(s) <= Limit /\ end = 0 /\ last - 1 >= MinTitle PROVE Fine
  <2> DEFINE head == SubSeq(s, 1, last - 1)
             title == Append(trim(head), More)
  <2>1. last - 1 \in 0 .. Len(s) /\ last = (last - 1) + 1 /\ last - 1 <= Limit
    BY <1>3, <1>4, <1>5, <1>8
  <2>2. head \in Seq(S) /\ Len(head) = last - 1
    BY <1>2, <2>1
  <2> HIDE DEF head
  <2>3. trim(head) \in Seq(S) /\ Len(trim(head)) <= Len(head) /\ Letters(trim(head)) = Letters(head)
    BY <2>2, TrimFits, LettersTrim
  <2>4. title \in Seq(S) /\ Len(title) = Len(trim(head)) + 1 /\ Len(trim(head)) \in Nat
    BY <2>3
  <2>5. Letters(title) = Letters(head)
    <3>1. More \in Dull
      BY DEF Dull
    <3> QED BY <2>3, <3>1, LettersIs
  <2> HIDE DEF title
  <2>6. title # <<>> /\ Len(title) <= Limit + 1
    <3>1. Len(title) >= 1 /\ Len(title) <= Limit + 1
      BY <1>3, <1>5, <2>1, <2>2, <2>3, <2>4
    <3> QED BY <2>4, <3>1
  <2>7. /\ splitAt(s, title, last).title = title
        /\ splitAt(s, title, last).description \in Seq(S)
        /\ Letters(splitAt(s, title, last).title) \o Letters(splitAt(s, title, last).description) = Letters(s)
    <3>1. Letters(title) = Letters(SubSeq(s, 1, last - 1))
      BY <2>5 DEF head
    <3>2. PICK j \in 0 .. Len(s) : j = last - 1
      BY <2>1
    <3>3. last = j + 1 /\ Letters(title) = Letters(SubSeq(s, 1, j))
      BY <2>1, <3>1, <3>2
    <3>4. PICK from \in Nat : from = last
      BY <1>5
    <3>5. /\ splitAt(s, title, from).title = title
          /\ splitAt(s, title, from).description \in Seq(S)
          /\ Letters(splitAt(s, title, from).title) \o Letters(splitAt(s, title, from).description) = Letters(s)
      <4>1. from = j + 1
        BY <3>3, <3>4
      <4> QED BY <1>2, <3>3, <4>1, SplitAtKeeps
    <3> QED BY <3>4, <3>5
  <2>8. task = splitAt(s, title, last)
    BY <1>1, <1>8 DEF title, head, cut
  <2> QED BY <2>4, <2>6, <2>7, <2>8
<1>9. ASSUME ~ Len(s) <= Limit /\ end = 0 /\ ~ last - 1 >= MinTitle PROVE Fine
  <2> DEFINE title == SubSeq(s, 1, Limit)
  <2>1. Limit \in 0 .. Len(s)
    BY <1>3, <1>4, <1>9
  <2>2. title \in Seq(S) /\ Len(title) = Limit
    BY <1>2, <2>1
  <2>6. Letters(title) = Letters(SubSeq(s, 1, Limit))
    OBVIOUS
  <2>4. task = splitAt(s, title, Limit + 1)
    BY <1>1, <1>9
  <2> HIDE DEF title
  <2>3. /\ splitAt(s, title, Limit + 1).title = title
        /\ splitAt(s, title, Limit + 1).description \in Seq(S)
        /\ Letters(splitAt(s, title, Limit + 1).title) \o Letters(splitAt(s, title, Limit + 1).description) = Letters(s)
    <3>1. PICK from \in Nat : from = Limit + 1
      BY <1>3
    <3>2. PICK j \in 0 .. Len(s) : j = Limit
      BY <2>1
    <3>3. from = j + 1 /\ Letters(title) = Letters(SubSeq(s, 1, j))
      BY <2>6, <3>1, <3>2
    <3>4. /\ splitAt(s, title, from).title = title
          /\ splitAt(s, title, from).description \in Seq(S)
          /\ Letters(splitAt(s, title, from).title) \o Letters(splitAt(s, title, from).description) = Letters(s)
      BY <1>2, <3>3, SplitAtKeeps
    <3> QED BY <3>1, <3>4
  <2>5. title # <<>> /\ Len(title) <= Limit + 1
    BY <1>3, <2>2
  <2> QED BY <2>2, <2>3, <2>4, <2>5
<1>10. Fine
  <2> HIDE DEF Fine
  <2> QED BY <1>6, <1>7, <1>8, <1>9
<1> QED BY <1>2, <1>10 DEF task, s

(* The patterns of the dates among some marks.                             *)
Patterns(marks) == {PatternOf[d] : d \in marks \cap Dates}

(* The dates among some marks that a source does not name.                 *)
Absent(marks, source) == {d \in marks \cap Dates : Range(source) \cap NamedBy[d] = {}}

(* The marks of a text made of two.                                        *)
LEMMA RangeOfTwo ==
  ASSUME NEW S, NEW u \in Seq(S), NEW v \in Seq(S)
  PROVE  u \o v \in Seq(S) /\ Range(u \o v) = Range(u) \cup Range(v) /\ Range(<<>>) = {}
<1>1. /\ u \o v \in Seq(S) /\ Len(u \o v) = Len(u) + Len(v) /\ Len(u) \in Nat /\ Len(v) \in Nat
      /\ \A k \in 1 .. (Len(u) + Len(v)) : (u \o v)[k] = IF k <= Len(u) THEN u[k] ELSE v[k - Len(u)]
      /\ DOMAIN u = 1 .. Len(u) /\ DOMAIN v = 1 .. Len(v) /\ DOMAIN (u \o v) = 1 .. (Len(u) + Len(v))
  OBVIOUS
<1> DEFINE w == u \o v
<1> HIDE DEF w
<1>2. /\ DOMAIN w = 1 .. (Len(u) + Len(v))
      /\ \A k \in 1 .. (Len(u) + Len(v)) : w[k] = IF k <= Len(u) THEN u[k] ELSE v[k - Len(u)]
  BY <1>1 DEF w
<1>3. ASSUME NEW k \in DOMAIN w PROVE w[k] \in Range(u) \cup Range(v)
  <2>1. CASE k <= Len(u)
    <3>1. k \in DOMAIN u /\ w[k] = u[k]
      BY <1>1, <1>2, <2>1
    <3> QED BY <3>1 DEF Range
  <2>2. CASE ~ k <= Len(u)
    <3>1. k - Len(u) \in DOMAIN v /\ w[k] = v[k - Len(u)]
      BY <1>1, <1>2, <2>2
    <3> QED BY <3>1 DEF Range
  <2> QED BY <2>1, <2>2
<1>4. ASSUME NEW k \in DOMAIN u PROVE u[k] \in Range(w)
  <2>1. k \in DOMAIN w /\ w[k] = u[k]
    BY <1>1, <1>2
  <2> QED BY <2>1 DEF Range
<1>5. ASSUME NEW k \in DOMAIN v PROVE v[k] \in Range(w)
  <2>1. Len(u) + k \in DOMAIN w /\ w[Len(u) + k] = v[k]
    <3>1. Len(u) + k \in 1 .. (Len(u) + Len(v)) /\ ~ Len(u) + k <= Len(u) /\ (Len(u) + k) - Len(u) = k
      BY <1>1
    <3> QED BY <1>2, <3>1
  <2> QED BY <2>1 DEF Range
<1>6. Range(w) = Range(u) \cup Range(v)
  BY <1>3, <1>4, <1>5 DEF Range
<1>7. Range(<<>>) = {}
  BY DEF Range
<1> QED BY <1>1, <1>6, <1>7 DEF w

(* What is pointed out: words of the output, and by their patterns all     *)
(* that the source has not.                                                *)
LEMMA InventedIs ==
  ASSUME NEW S, NEW source, NEW output \in Seq(S)
  PROVE  /\ inventedDateTerms(source, output) \subseteq Range(output)
         /\ Patterns(inventedDateTerms(source, output)) = Patterns(Absent(Range(output), source))
<1> DEFINE absent == Absent(Range(output), source)
           first(i) == \A k \in 1 .. (i - 1) :
                         output[k] \in Dates => PatternOf[output[k]] # PatternOf[output[i]]
           places == {k \in DOMAIN output :
                        output[k] \in Dates /\ Range(source) \cap NamedBy[output[k]] = {} /\ first(k)}
           invented == inventedDateTerms(source, output)
<1>1. invented = {output[i] : i \in places}
  BY DEF inventedDateTerms
<1>2. absent \subseteq Range(output) \cap Dates
  BY DEF Absent
<1>3. DOMAIN output = 1 .. Len(output) /\ Len(output) \in Nat
  OBVIOUS
<1> HIDE DEF absent, invented
<1>4. invented \subseteq absent /\ invented \subseteq Range(output)
  BY <1>1 DEF Range, Absent, absent
<1>5. ASSUME NEW q \in Patterns(invented) PROVE q \in Patterns(absent)
  BY <1>4, <1>5 DEF Patterns
<1>6. ASSUME NEW q \in Patterns(absent) PROVE q \in Patterns(invented)
  <2>1. PICK d \in absent : d \in Dates /\ q = PatternOf[d]
    BY <1>6 DEF Patterns
  <2> DEFINE of == {k \in DOMAIN output : output[k] \in Dates /\ PatternOf[output[k]] = q}
  <2>6. of # {}
    <3>1. PICK k \in DOMAIN output : d = output[k]
      BY <1>2, <2>1 DEF Range
    <3> QED BY <2>1, <3>1
  <2>2. PICK i \in of : \A k \in of : i <= k
    <3>1. of \in SUBSET Nat
      BY <1>3
    <3> HIDE DEF of
    <3> QED BY <2>6, <3>1, Least
  <2>3. first(i)
    <3>1. ASSUME NEW k \in 1 .. (i - 1), output[k] \in Dates, PatternOf[output[k]] = q PROVE FALSE
      <4>1. i \in 1 .. Len(output) /\ k \in 1 .. Len(output) /\ k < i
        BY <1>3
      <4>2. k \in of
        BY <1>3, <3>1, <4>1
      <4> QED BY <2>2, <4>1, <4>2
    <3>2. PatternOf[output[i]] = q
      OBVIOUS
    <3> QED BY <3>1, <3>2
  <2>4. i \in places
    <3>1. output[i] \in Dates /\ PatternOf[output[i]] = PatternOf[d]
      BY <2>1
    <3>2. Range(source) \cap NamedBy[d] = {}
      BY <2>1 DEF absent, Absent
    <3>3. NamedBy[output[i]] = NamedBy[d]
      BY <2>1, <3>1, RepliesAssumption
    <3> QED BY <2>3, <3>1, <3>2, <3>3
  <2>5. output[i] \in invented \cap Dates /\ PatternOf[output[i]] = q
    BY <1>1, <2>4
  <2> QED BY <2>5 DEF Patterns
<1>7. Patterns(invented) = Patterns(Absent(Range(output), source))
  BY <1>5, <1>6 DEF absent
<1> QED BY <1>4, <1>7 DEF invented

(* What is left of a text is a text.                                       *)
LEMMA TidyIs ==
  ASSUME NEW S, NEW s \in Seq(S)
  PROVE  /\ trim(s) \in Seq(S) /\ tidyTitle(s) \in Seq(S)
         /\ trim(s) # <<>> => trim(trim(s)) # <<>>
<1>1. trim(s) \in Seq(S)
  BY TrimFits
<1>2. tidyTitle(s) \in Seq(S)
  <2> DEFINE t == trim(s)
  <2> HIDE DEF t
  <2>1. t \in Seq(S)
    BY <1>1 DEF t
  <2>2. PICK k \in 0 .. Len(t) : withoutStops(t) = SubSeq(t, 1, k)
    BY <2>1, StopsOff
  <2>3. SubSeq(t, 1, k) \in Seq(S)
    BY <2>1
  <2> QED BY <2>2, <2>3 DEF tidyTitle, t
<1>3. ASSUME trim(s) # <<>> PROVE trim(trim(s)) # <<>>
  <2>1. PICK a \in Nat, b \in Nat : Solid(s, a, b)
    BY <1>3, TrimIs
  <2>2. /\ DOMAIN s = 1 .. Len(s) /\ Len(s) \in Nat
        /\ a \in 1 .. (Len(s) + 1) /\ b \in (a - 1) .. Len(s) /\ a <= b
    BY <2>1 DEF Solid
  <2>3. /\ Len(trim(s)) = b - a + 1
        /\ \A k \in 1 .. (b - a + 1) : trim(s)[k] = s[a + k - 1]
    BY <2>1, <2>2, PartIs DEF Solid
  <2> DEFINE t == trim(s)
  <2>4. 1 \in DOMAIN t /\ t[1] \notin Blank /\ t \in Seq(S)
    <3>1. 1 \in 1 .. (b - a + 1) /\ a + 1 - 1 = a
      BY <2>2
    <3>2. t[1] = s[a]
      BY <2>3, <3>1
    <3> HIDE DEF t
    <3>3. DOMAIN t = 1 .. Len(t) /\ t \in Seq(S)
      BY <1>1 DEF t
    <3> QED BY <2>1, <2>3, <3>1, <3>2, <3>3 DEF Solid, t
  <2> HIDE DEF t
  <2>5. trim(t) # <<>>
    BY <2>4, TrimFits
  <2> QED BY <2>5 DEF t
<1> QED BY <1>1, <1>2, <1>3

(* The texts of a reply.                                                   *)
LEMMA FieldIs ==
  ASSUME NEW S, NEW field, field \subseteq Seq(S)
  PROVE  /\ textOrNull(field) \in Seq(S)
         /\ tidyTitle(textOrNull(field)) \in Seq(S)
         /\ field # {} => /\ The(field) \in Seq(S) /\ tidyTitle(The(field)) \in Seq(S)
                          /\ textOrNull(field) = trim(The(field))
<1>1. field # {} => The(field) \in Seq(S)
  BY DEF The
<1>2. <<>> \in Seq(S)
  OBVIOUS
<1>3. textOrNull(field) \in Seq(S)
  BY <1>1, <1>2, TidyIs DEF textOrNull
<1> QED BY <1>1, <1>3, TidyIs DEF textOrNull

(* What AnswerSound says of one answer.                                    *)
SoundAnswer(kind, in, a) ==
  LET words == Range(a.text) \cup Range(a.title) \cup Range(a.description)
  IN /\ kind \in {"task", "task_tidy", "sandbox"} => a.title # <<>>
     /\ kind \in {"note", "sandbox"} => a.text # <<>>
     /\ \A d \in a.date : in.today <= d /\ d <= in.today + Ahead
     /\ a.time # {} => a.date # {}
     /\ a.project \subseteq in.projects
     /\ kind = "note" /\ in.titled => a.title = <<>>
     /\ a.warnings \subseteq words
     /\ kind # "task" => Patterns(a.warnings) = Patterns(Absent(words, in.text))

(* The marks of texts.                                                     *)
Mark == STRING \cup {More}

(* What the split needs of an answer's text.                               *)
SplitText(kind, a) == kind = "sandbox" => a.text \in Seq(Mark) /\ trim(a.text) # <<>>

(* The texts of a reply are texts.                                         *)
LEMMA RawIs ==
  ASSUME NEW kind \in Kinds, NEW raw \in Replied[kind]
  PROVE  raw.title \subseteq Seq(Mark) /\ raw.text \subseteq Seq(Mark) /\ raw.description \subseteq Seq(Mark)
<1>1. raw.title \cup raw.text \cup raw.description \subseteq Seq(STRING)
  BY ParsesAssumption
<1>2. ASSUME NEW s \in Seq(STRING) PROVE s \in Seq(Mark)
  BY DEF Mark
<1> QED BY <1>1, <1>2

(* The fields of an answer.                                                *)
LEMMA AnswerIs ==
  ASSUME NEW text, NEW title, NEW description, NEW project, NEW date, NEW time, NEW warnings
  PROVE  LET a == Answer(text, title, description, project, date, time, warnings)
         IN /\ a.ok /\ a.text = text /\ a.title = title /\ a.description = description
            /\ a.project = project /\ a.date = date /\ a.time = time /\ a.warnings = warnings
  BY DEF Answer

(* An answer of the kind "task" is sound.                                  *)
LEMMA TaskSound ==
  ASSUME NEW raw \in Replied["task"], NEW in, interpretModelReply(raw, in).ok
  PROVE  SoundAnswer("task", in, interpretModelReply(raw, in))
<1> DEFINE date == remindDate(raw, in)
           a == interpretModelReply(raw, in)
           title == tidyTitle(The(raw.title))
           description == textOrNull(raw.description)
           time == IF date = {} THEN {} ELSE raw.time
<1>1. title # <<>> /\ a = Answer(<<>>, title, description, {}, date, time, {})
  BY DEF interpretModelReply, Refused
<1>2. \A d \in date : in.today <= d /\ d <= in.today + Ahead
  BY DEF remindDate
<1>3. time # {} => date # {}
  OBVIOUS
<1> HIDE DEF a, title, description, time, date
<1>4. a.title = title /\ a.date = date /\ a.time = time /\ a.project = {} /\ a.warnings = {}
  BY <1>1, AnswerIs
<1>5. SoundAnswer("task", in, a)
  BY <1>1, <1>2, <1>3, <1>4 DEF SoundAnswer
<1> QED BY <1>5 DEF a

(* An answer of the kind "task_tidy" is sound.                             *)
LEMMA TidySound ==
  ASSUME NEW raw \in Replied["task_tidy"], NEW in, interpretTaskTidyReply(raw, in).ok
  PROVE  SoundAnswer("task_tidy", in, interpretTaskTidyReply(raw, in))
<1> DEFINE a == interpretTaskTidyReply(raw, in)
           title == tidyTitle(The(raw.title))
           description == textOrNull(raw.description)
           warnings == inventedDateTerms(in.text, title \o description)
<1>1. raw.title # {} /\ title # <<>> /\ a = Answer(<<>>, title, description, {}, {}, {}, warnings)
  BY DEF interpretTaskTidyReply, Refused
<1>2. raw.title \subseteq Seq(Mark) /\ raw.description \subseteq Seq(Mark)
  BY RawIs DEF Kinds
<1>3. title \in Seq(Mark) /\ description \in Seq(Mark)
  BY <1>1, <1>2, FieldIs
<1> HIDE DEF a, title, description
<1>4. /\ title \o description \in Seq(Mark)
      /\ Range(title \o description) = Range(title) \cup Range(description) /\ Range(<<>>) = {}
  BY <1>3, RangeOfTwo
<1>5. /\ warnings \subseteq Range(title \o description)
      /\ Patterns(warnings) = Patterns(Absent(Range(title \o description), in.text))
  BY <1>4, InventedIs
<1> HIDE DEF warnings
<1>6. /\ a.text = <<>> /\ a.title = title /\ a.description = description /\ a.project = {}
      /\ a.date = {} /\ a.time = {} /\ a.warnings = warnings
  BY <1>1, AnswerIs
<1>7. Range(a.text) \cup Range(a.title) \cup Range(a.description) = Range(title \o description)
  BY <1>4, <1>6
<1>8. SoundAnswer("task_tidy", in, a)
  BY <1>1, <1>5, <1>6, <1>7 DEF SoundAnswer
<1> QED BY <1>8 DEF a

(* An answer of the kind "note" is sound.                                  *)
LEMMA NoteSound ==
  ASSUME NEW raw \in Replied["note"], NEW in, interpretNoteReply(raw, in).ok
  PROVE  SoundAnswer("note", in, interpretNoteReply(raw, in))
<1> DEFINE a == interpretNoteReply(raw, in)
           content == trim(The(raw.text))
           title == IF in.titled THEN <<>> ELSE tidyTitle(textOrNull(raw.title))
           warnings == inventedDateTerms(in.text, title \o content)
<1>1. textOrNull(raw.text) # <<>> /\ a = Answer(content, title, <<>>, {}, {}, {}, warnings)
  BY DEF interpretNoteReply, Refused
<1>2. raw.text \subseteq Seq(Mark) /\ raw.title \subseteq Seq(Mark)
  BY RawIs DEF Kinds
<1>3. content \in Seq(Mark) /\ content # <<>>
  <2>1. raw.text # {}
    BY <1>1 DEF textOrNull
  <2>2. textOrNull(raw.text) = content /\ textOrNull(raw.text) \in Seq(Mark)
    BY <1>2, <2>1, FieldIs
  <2> QED BY <1>1, <2>2
<1>4. title \in Seq(Mark) /\ (in.titled => title = <<>>)
  <2>1. <<>> \in Seq(Mark)
    OBVIOUS
  <2>2. tidyTitle(textOrNull(raw.title)) \in Seq(Mark)
    BY <1>2, FieldIs
  <2> QED BY <2>1, <2>2
<1> HIDE DEF a, title, content
<1>5. /\ title \o content \in Seq(Mark)
      /\ Range(title \o content) = Range(title) \cup Range(content) /\ Range(<<>>) = {}
  BY <1>3, <1>4, RangeOfTwo
<1>6. /\ warnings \subseteq Range(title \o content)
      /\ Patterns(warnings) = Patterns(Absent(Range(title \o content), in.text))
  BY <1>5, InventedIs
<1> HIDE DEF warnings
<1>7. /\ a.text = content /\ a.title = title /\ a.description = <<>> /\ a.project = {}
      /\ a.date = {} /\ a.time = {} /\ a.warnings = warnings
  BY <1>1, AnswerIs
<1>8. Range(a.text) \cup Range(a.title) \cup Range(a.description) = Range(title \o content)
  BY <1>5, <1>7
<1>9. SoundAnswer("note", in, a)
  BY <1>3, <1>4, <1>6, <1>7, <1>8 DEF SoundAnswer
<1> QED BY <1>9 DEF a

(* An answer of the kind "sandbox" is sound, and its text can be split.    *)
LEMMA SandboxSound ==
  ASSUME NEW raw \in Replied["sandbox"], NEW in, interpretSandboxReply(raw, in).ok
  PROVE  /\ SoundAnswer("sandbox", in, interpretSandboxReply(raw, in))
         /\ SplitText("sandbox", interpretSandboxReply(raw, in))
<1> DEFINE a == interpretSandboxReply(raw, in)
           text == trim(The(raw.text))
           title == tidyTitle(textOrNull(raw.title))
           split == splitInboxText(text)
           task == IF title = <<>> THEN split
                   ELSE [title |-> title, description |-> textOrNull(raw.description)]
           warnings == inventedDateTerms(in.text, text \o task.title \o task.description)
           project == raw.project \cap in.projects
<1>1. /\ textOrNull(raw.text) # <<>>
      /\ a = Answer(text, task.title, task.description, project, {}, {}, warnings)
  BY DEF interpretSandboxReply, Refused
<1>2. raw.text \subseteq Seq(Mark) /\ raw.title \subseteq Seq(Mark) /\ raw.description \subseteq Seq(Mark)
  BY RawIs DEF Kinds
<1>3. text \in Seq(Mark) /\ text # <<>> /\ trim(text) # <<>>
  <2>1. raw.text # {}
    BY <1>1 DEF textOrNull
  <2>2. textOrNull(raw.text) = text /\ textOrNull(raw.text) \in Seq(Mark) /\ The(raw.text) \in Seq(Mark)
    BY <1>2, <2>1, FieldIs
  <2>3. text # <<>>
    BY <1>1, <2>2
  <2>4. trim(text) # <<>>
    BY <2>2, <2>3, TidyIs
  <2> QED BY <2>2, <2>3, <2>4
<1>4. title \in Seq(Mark) /\ textOrNull(raw.description) \in Seq(Mark)
  BY <1>2, FieldIs
<1>5. split.title \in Seq(Mark) /\ split.description \in Seq(Mark) /\ split.title # <<>>
  <2>1. More \in Mark
    BY DEF Mark
  <2> HIDE DEF text
  <2> QED BY <1>3, <2>1, SplitIs
<1> HIDE DEF a, text, title, split
<1>6. task.title \in Seq(Mark) /\ task.description \in Seq(Mark) /\ task.title # <<>>
  BY <1>4, <1>5
<1>7. PICK head, rest : head = task.title /\ rest = task.description
  OBVIOUS
<1>8. /\ text \o head \in Seq(Mark) /\ (text \o head) \o rest \in Seq(Mark)
      /\ Range((text \o head) \o rest) = (Range(text) \cup Range(head)) \cup Range(rest)
  <2>1. text \o head \in Seq(Mark) /\ Range(text \o head) = Range(text) \cup Range(head)
    BY <1>3, <1>6, <1>7, RangeOfTwo
  <2>2. /\ (text \o head) \o rest \in Seq(Mark)
        /\ Range((text \o head) \o rest) = Range(text \o head) \cup Range(rest)
    <3>1. PICK both \in Seq(Mark) : both = text \o head
      BY <2>1
    <3>2. rest \in Seq(Mark)
      BY <1>6, <1>7
    <3>3. both \o rest \in Seq(Mark) /\ Range(both \o rest) = Range(both) \cup Range(rest)
      BY <3>2, RangeOfTwo
    <3> QED BY <3>1, <3>3
  <2> QED BY <2>1, <2>2
<1>9. warnings = inventedDateTerms(in.text, (text \o head) \o rest)
  BY <1>7
<1>10. /\ warnings \subseteq Range((text \o head) \o rest)
       /\ Patterns(warnings) = Patterns(Absent(Range((text \o head) \o rest), in.text))
  <2> HIDE DEF warnings
  <2> QED BY <1>8, <1>9, InventedIs
<1>11. a = Answer(text, head, rest, project, {}, {}, warnings)
  BY <1>1, <1>7
<1>12. head # <<>>
  BY <1>6, <1>7
<1>13. project \subseteq in.projects
  OBVIOUS
<1> HIDE DEF warnings, project, task
<1>14. /\ a.text = text /\ a.title = head /\ a.description = rest /\ a.project = project
       /\ a.date = {} /\ a.time = {} /\ a.warnings = warnings
  BY <1>11, AnswerIs
<1>15. Range(a.text) \cup Range(a.title) \cup Range(a.description) = Range((text \o head) \o rest)
  BY <1>8, <1>14
<1>16. SoundAnswer("sandbox", in, a)
  BY <1>3, <1>10, <1>12, <1>13, <1>14, <1>15 DEF SoundAnswer
<1>17. SplitText("sandbox", a)
  BY <1>3, <1>14 DEF SplitText
<1> QED BY <1>16, <1>17 DEF a

(* Whatever was asked and replied, an answer is sound.                     *)
LEMMA InterpretedSound ==
  ASSUME NEW kind \in Kinds, NEW raw \in Replied[kind], NEW in, interpret(kind, raw, in).ok
  PROVE  SoundAnswer(kind, in, interpret(kind, raw, in)) /\ SplitText(kind, interpret(kind, raw, in))
<1>1. CASE kind = "task"
  <2>1. interpret(kind, raw, in) = interpretModelReply(raw, in)
    BY <1>1 DEF interpret
  <2> QED BY <1>1, <2>1, TaskSound DEF SplitText
<1>2. CASE kind = "task_tidy"
  <2>1. interpret(kind, raw, in) = interpretTaskTidyReply(raw, in)
    BY <1>2 DEF interpret
  <2> QED BY <1>2, <2>1, TidySound DEF SplitText
<1>3. CASE kind = "note"
  <2>1. interpret(kind, raw, in) = interpretNoteReply(raw, in)
    BY <1>3 DEF interpret
  <2> QED BY <1>3, <2>1, NoteSound DEF SplitText
<1>4. CASE kind = "sandbox"
  <2>1. interpret(kind, raw, in) = interpretSandboxReply(raw, in)
    BY <1>4 DEF interpret
  <2> QED BY <1>4, <2>1, SandboxSound
<1> QED BY <1>1, <1>2, <1>3, <1>4 DEF Kinds

(* What is known of a parse at each stage: until its model answers, what   *)
(* kind it is of; then, that its answer is what a reply of that kind was   *)
(* turned into, or the refusal.                                            *)
Stands(q) ==
  \/ q = New \/ q = Over
  \/ \E at \in {"waiting", "admitted"}, kind \in Kinds : \E level, input :
       q = [at |-> at, kind |-> kind, level |-> level, input |-> input]
  \/ q.at = "asked" /\ q.kind \in Kinds
  \/ /\ q.at = "replied" /\ q.kind \in Kinds
     /\ \/ q.answer = Refused
        \/ \E raw \in Replied[q.kind] : q.answer = interpret(q.kind, raw, q.input)

AnswerInv ==
  /\ parse = [p \in Parses |-> parse[p]]
  /\ \A p \in Parses : Stands(parse[p])

(* At the start nobody has been answered.                                  *)
LEMMA AnswerInit == ParsesInit => AnswerInv
  BY DEF ParsesInit, AnswerInv, Stands

(* A parse under way is of some kind.                                      *)
LEMMA KindKnown ==
  ASSUME NEW q, Stands(q), q.at # "new", q.at # "over"
  PROVE  q.kind \in Kinds
<1>1. CASE q = New \/ q = Over
  BY <1>1 DEF New, Over
<1>2. CASE \E at \in {"waiting", "admitted"}, kind \in Kinds : \E level, input :
             q = [at |-> at, kind |-> kind, level |-> level, input |-> input]
  <2>1. PICK at, kind, level, input :
          kind \in Kinds /\ q = [at |-> at, kind |-> kind, level |-> level, input |-> input]
    BY <1>2
  <2> QED BY <2>1
<1>3. CASE q.kind \in Kinds
  BY <1>3
<1> QED BY <1>1, <1>2, <1>3 DEF Stands

(* One parse moves.                                                        *)
LEMMA OneMoves ==
  ASSUME AnswerInv, NEW p \in Parses, NEW q, Stands(q), parse' = [parse EXCEPT ![p] = q]
  PROVE  AnswerInv'
<1>1. \A r \in Parses : parse'[r] = IF r = p THEN q ELSE parse[r]
  BY DEF AnswerInv
<1>2. parse' = [r \in Parses |-> parse'[r]]
  BY DEF AnswerInv
<1>3. \A r \in Parses : Stands(parse'[r])
  <2>1. \A r \in Parses : Stands(parse[r])
    BY DEF AnswerInv
  <2> QED BY <1>1, <2>1
<1> QED BY <1>2, <1>3 DEF AnswerInv, Stands

(* The load is settled: those that waited for it go on.                    *)
LEMMA ReleasedStand ==
  ASSUME AnswerInv, parse' = Released
  PROVE  AnswerInv'
<1>1. ASSUME NEW p \in Parses PROVE Stands(Released[p])
  <2> DEFINE q == parse[p]
  <2>1. Stands(q)
    BY DEF AnswerInv
  <2>2. Released[p] = IF q.at = "waiting" THEN [q EXCEPT !.at = "admitted"] ELSE q
    BY DEF Released
  <2> HIDE DEF q
  <2>3. CASE q.at = "waiting"
    <3>1. PICK kind, level, input :
            kind \in Kinds /\ q = [at |-> "waiting", kind |-> kind, level |-> level, input |-> input]
      BY <2>1, <2>3 DEF Stands, New, Over
    <3>2. [q EXCEPT !.at = "admitted"] = [at |-> "admitted", kind |-> kind, level |-> level, input |-> input]
      BY <3>1
    <3>3. \E at \in {"waiting", "admitted"}, k \in Kinds : \E l, i :
             Released[p] = [at |-> at, kind |-> k, level |-> l, input |-> i]
      BY <2>2, <2>3, <3>1, <3>2
    <3> QED BY <3>3 DEF Stands
  <2>4. CASE q.at # "waiting"
    BY <2>1, <2>2, <2>4
  <2> QED BY <2>3, <2>4
<1>2. parse' = [p \in Parses |-> parse'[p]]
  BY DEF Released
<1>3. \A p \in Parses : Stands(parse'[p])
  BY <1>1
<1> QED BY <1>2, <1>3 DEF AnswerInv, Stands

(* A parse advances.                                                       *)
LEMMA AdvanceStands ==
  ASSUME AnswerInv, NEW p \in Parses, Advance(p)
  PROVE  AnswerInv'
<1>1. Stands(parse[p])
  BY DEF AnswerInv
<1>2. Stands(Over)
  BY DEF Stands
<1>3. CASE Build(p)
  <2> DEFINE q == [at |-> "asked", kind |-> parse[p].kind, level |-> parse[p].level,
                   input |-> parse[p].input, blocks |-> mirror]
  <2>1. parse' = [parse EXCEPT ![p] = q] /\ parse[p].at = "admitted"
    BY <1>3 DEF Build
  <2>2. parse[p].kind \in Kinds
    BY <1>1, <2>1, KindKnown
  <2>3. Stands(q)
    BY <2>2 DEF Stands
  <2> HIDE DEF q
  <2> QED BY <2>1, <2>3, OneMoves
<1>4. ASSUME NEW raw \in Replied[parse[p].kind], Reply(p, raw) PROVE AnswerInv'
  <2> DEFINE q == Replying(parse[p], interpret(parse[p].kind, raw, parse[p].input))
  <2>1. parse' = [parse EXCEPT ![p] = q] /\ parse[p].at = "asked"
    BY <1>4 DEF Reply
  <2>2. parse[p].kind \in Kinds
    BY <1>1, <2>1, KindKnown
  <2>3. /\ q.at = "replied" /\ q.kind = parse[p].kind /\ q.input = parse[p].input
        /\ q.answer = interpret(parse[p].kind, raw, parse[p].input)
    BY DEF Replying
  <2> HIDE DEF q
  <2>4. Stands(q)
    BY <1>4, <2>2, <2>3 DEF Stands
  <2> QED BY <2>1, <2>4, OneMoves
<1>5. CASE CallFails(p)
  <2> DEFINE q == Replying(parse[p], Refused)
  <2>1. parse' = [parse EXCEPT ![p] = q] /\ parse[p].at = "asked"
    BY <1>5 DEF CallFails
  <2>2. parse[p].kind \in Kinds
    BY <1>1, <2>1, KindKnown
  <2>3. q.at = "replied" /\ q.kind = parse[p].kind /\ q.answer = Refused
    BY DEF Replying
  <2> HIDE DEF q
  <2>4. Stands(q)
    BY <2>2, <2>3 DEF Stands
  <2> QED BY <2>1, <2>4, OneMoves
<1>6. CASE GiveUp(p) \/ Keep(p) \/ KeepFails(p)
  <2>1. parse' = [parse EXCEPT ![p] = Over]
    BY <1>6 DEF GiveUp, Keep, KeepFails
  <2> QED BY <1>2, <2>1, OneMoves
<1> QED BY <1>3, <1>4, <1>5, <1>6 DEF Advance

(* Every step keeps it.                                                    *)
LEMMA AnswerStep == AnswerInv /\ [ParsesNext]_parsesVars => AnswerInv'
<1> SUFFICES ASSUME AnswerInv, [ParsesNext]_parsesVars PROVE AnswerInv'
  OBVIOUS
<1>1. ASSUME NEW p \in Parses, NEW l \in Levels, NEW k \in Asks[p], NEW i \in Inputs[k], AskParse(p, k, l, i)
      PROVE  AnswerInv'
  <2>1. k \in Kinds
    BY ParsesAssumption
  <2>2. PICK at \in {"waiting", "admitted"} :
          parse' = [parse EXCEPT ![p] = [at |-> at, kind |-> k, level |-> l, input |-> i]]
    BY <1>1 DEF AskParse
  <2>3. Stands([at |-> at, kind |-> k, level |-> l, input |-> i])
    BY <2>1 DEF Stands
  <2> QED BY <2>2, <2>3, OneMoves
<1>2. CASE Restart
  <2>1. parse' = [p \in Parses |-> IF parse[p].at = "new" THEN New ELSE Over]
    BY <1>2 DEF Restart
  <2>2. \A p \in Parses : Stands(parse'[p])
    BY <2>1 DEF Stands
  <2>3. parse' = [p \in Parses |-> parse'[p]]
    BY <2>1
  <2> QED BY <2>2, <2>3 DEF AnswerInv, Stands
<1>3. CASE LoadArrives \/ LoadFails
  <2>1. parse' = Released
    BY <1>3 DEF LoadArrives, LoadFails
  <2> QED BY <2>1, ReleasedStand
<1>4. CASE UNCHANGED parse
  BY <1>4 DEF AnswerInv, Stands
<1>5. CASE FromOutside
  <2>1. ASSUME NEW e \in Edits, NEW l \in Levels, NEW r \in Wordings \cup {Default}, EditRead(e, l, r)
        PROVE  UNCHANGED parse
    BY <2>1 DEF EditRead
  <2>2. Look => UNCHANGED parse
    BY DEF Look
  <2> QED BY <1>1, <1>2, <1>4, <1>5, <2>1, <2>2 DEF FromOutside
<1>6. CASE Loading
  <2>1. LoadRead => UNCHANGED parse
    BY DEF LoadRead
  <2> QED BY <1>3, <1>4, <1>6, <2>1 DEF Loading
<1>7. CASE \E p \in Parses : Advance(p)
  BY <1>7, AdvanceStands
<1>8. CASE \E e \in Edits : EditWrites(e) \/ EditFails(e) \/ EditMirrors(e)
  <2>1. UNCHANGED parse
    BY <1>8 DEF EditWrites, EditFails, EditMirrors
  <2> QED BY <1>4, <2>1
<1>9. CASE UNCHANGED parsesVars
  BY <1>4, <1>9 DEF parsesVars
<1> QED BY <1>5, <1>6, <1>7, <1>8, <1>9 DEF ParsesNext

(* What goes out was made by interpret of a reply of the kind that was     *)
(* asked.                                                                  *)
THEOREM AnswerCorrect == ParsesSpec => []AnswerInv
BY AnswerInit, AnswerStep, PTL DEF ParsesSpec

(* An answer that goes out was made by interpret.                          *)
LEMMA AnswersMade ==
  ASSUME AnswerInv, NEW p \in Parses, parse[p].at = "replied", parse[p].answer.ok
  PROVE  /\ parse[p].kind \in Kinds
         /\ SoundAnswer(parse[p].kind, parse[p].input, parse[p].answer)
         /\ SplitText(parse[p].kind, parse[p].answer)
<1>1. /\ parse[p].kind \in Kinds
      /\ \E raw \in Replied[parse[p].kind] :
           parse[p].answer = interpret(parse[p].kind, raw, parse[p].input)
  <2>1. Stands(parse[p])
    BY DEF AnswerInv
  <2>2. parse[p].answer # Refused
    BY DEF Refused
  <2>3. parse[p].kind \in Kinds
    BY <2>1, KindKnown
  <2>4. ~ (parse[p] = New \/ parse[p] = Over \/ parse[p].at = "asked")
    BY DEF New, Over
  <2>5. ASSUME NEW at \in {"waiting", "admitted"}, NEW kind \in Kinds, NEW level, NEW input,
               parse[p] = [at |-> at, kind |-> kind, level |-> level, input |-> input]
        PROVE  FALSE
    <3>1. parse[p].at = at
      BY <2>5
    <3> QED BY <3>1
  <2> QED BY <2>1, <2>2, <2>3, <2>4, <2>5 DEF Stands
<1> QED BY <1>1, InterpretedSound

(* AnswerSound: every answer that goes out is usable as it is, whatever    *)
(* the model replied.                                                      *)
THEOREM AnswerSoundCorrect == ParsesSpec => []AnswerSound
<1>1. ASSUME AnswerInv PROVE AnswerSound
  <2>1. ASSUME NEW p \in Parses, parse[p].at = "replied", parse[p].answer.ok
        PROVE  SoundAnswer(parse[p].kind, parse[p].input, parse[p].answer)
    BY <1>1, <2>1, AnswersMade
  <2> QED BY <2>1 DEF AnswerSound, SoundAnswer, Patterns, Absent
<1> QED BY <1>1, AnswerCorrect, PTL

(* SplitKeepsAll: the split of a line loses no letter of it, and its title *)
(* fits.                                                                   *)
THEOREM SplitKeepsAllCorrect == ParsesSpec => []SplitKeepsAll
<1>1. ASSUME AnswerInv PROVE SplitKeepsAll
  <2>1. ASSUME NEW p \in Parses, parse[p].at = "replied", parse[p].answer.ok, parse[p].kind = "sandbox"
        PROVE  LET task == splitInboxText(parse[p].answer.text)
               IN /\ Letters(task.title) \o Letters(task.description) = Letters(parse[p].answer.text)
                  /\ task.title # <<>> /\ Len(task.title) <= Limit + 1
    <3>1. parse[p].answer.text \in Seq(Mark) /\ trim(parse[p].answer.text) # <<>>
      BY <1>1, <2>1, AnswersMade DEF SplitText
    <3>2. PICK text \in Seq(Mark) : text = parse[p].answer.text
      BY <3>1
    <3>3. More \in Mark
      BY DEF Mark
    <3>4. LET task == splitInboxText(text)
          IN /\ Letters(task.title) \o Letters(task.description) = Letters(text)
             /\ task.title # <<>> /\ Len(task.title) <= Limit + 1
      BY <3>1, <3>2, <3>3, SplitIs
    <3> QED BY <3>2, <3>4
  <2> QED BY <2>1 DEF SplitKeepsAll
<1> QED BY <1>1, AnswerCorrect, PTL

-----------------------------------------------------------------------------
(* History: what replaying a journal gives.                                *)

Happening == [kind : {"created", "status", "focused", "unfocused"}, to : Status \cup {"none"}, at : Nat]
Replay == [status : Status \cup {"none"}, since : Nat, by : [Status -> Nat]]

(* The larger of nothing and a difference.                                 *)
LEMMA MaxIs == ASSUME NEW x \in Int
               PROVE  Max({0, x}) = IF x >= 0 THEN x ELSE 0
<1> DEFINE m == IF x >= 0 THEN x ELSE 0
<1>1. m \in {0, x} /\ \A y \in {0, x} : m >= y
  OBVIOUS
<1>2. ASSUME NEW z \in {0, x}, \A y \in {0, x} : z >= y PROVE z = m
  BY <1>2
<1> HIDE DEF m
<1>3. Max({0, x}) = m
  BY <1>1, <1>2 DEF Max
<1> QED BY <1>3 DEF m

(* What one event does: one of the focus does nothing, one of the status   *)
(* closes the interval that was open and opens the next.                   *)
LEMMA ReplayedIs ==
  ASSUME NEW replay \in Replay, NEW e \in Happening
  PROVE  /\ Replayed(replay, e) \in Replay
         /\ e.to = "none" => Replayed(replay, e) = replay
         /\ e.kind \in {"created", "status"} /\ e.to # "none" =>
              /\ Replayed(replay, e).status = e.to
              /\ Replayed(replay, e).since = e.at
              /\ replay.status = "none" => Replayed(replay, e).by = replay.by
              /\ replay.status # "none" /\ replay.since <= e.at =>
                   Replayed(replay, e).by = [s \in Status |-> IF s = replay.status
                                                                THEN replay.by[s] + (e.at - replay.since)
                                                                ELSE replay.by[s]]
<1>1. /\ replay.status \in Status \cup {"none"} /\ replay.since \in Nat /\ replay.by \in [Status -> Nat]
      /\ e.to \in Status \cup {"none"} /\ e.at \in Nat
  BY DEF Replay, Happening
<1>2. "none" \notin Status
  BY DEF Status
<1> DEFINE d == Max({0, e.at - replay.since})
<1>3. d \in Nat /\ (replay.since <= e.at => d = e.at - replay.since)
  BY <1>1, MaxIs
<1>4. CASE e.kind \notin {"created", "status"} \/ e.to = "none"
  BY <1>4 DEF Replayed
<1>5. CASE e.kind \in {"created", "status"} /\ e.to # "none"
  <2> DEFINE by == IF replay.status = "none" THEN replay.by
                   ELSE [replay.by EXCEPT ![replay.status] = @ + d]
  <2> HIDE DEF d
  <2>1. Replayed(replay, e) = [status |-> e.to, since |-> e.at, by |-> by]
    BY <1>5 DEF Replayed, d
  <2>2. /\ replay.status = "none" => by = replay.by
        /\ replay.status # "none" =>
             by = [s \in Status |-> IF s = replay.status THEN replay.by[s] + d ELSE replay.by[s]]
    BY <1>1
  <2>3. by \in [Status -> Nat]
    BY <1>1, <1>3, <2>2
  <2> HIDE DEF by
  <2>4. Replayed(replay, e) \in Replay
    BY <1>1, <2>1, <2>3 DEF Replay
  <2> QED BY <1>3, <1>5, <2>1, <2>2, <2>4
<1> QED BY <1>4, <1>5

ReplayedOf(f, past, from) ==
  f = [n \in 0 .. Len(past) |-> IF n = 0 THEN from ELSE Replayed(f[n - 1], past[n])]

(* The steps of a replay are there.                                        *)
LEMMA ReplayExists ==
  ASSUME NEW past \in Seq(Happening), NEW from \in Replay
  PROVE  \E f : f \in [0 .. Len(past) -> Replay] /\ ReplayedOf(f, past, from)
<1> DEFINE step == [x \in (1 .. Len(past)) \X Replay |-> Replayed(x[2], past[x[1]])]
<1>1. step \in [(1 .. Len(past)) \X Replay -> Replay]
  <2>1. ASSUME NEW x \in (1 .. Len(past)) \X Replay PROVE Replayed(x[2], past[x[1]]) \in Replay
    <3>1. x[2] \in Replay /\ x[1] \in 1 .. Len(past) /\ past[x[1]] \in Happening
      OBVIOUS
    <3> QED BY <3>1, ReplayedIs
  <2> QED BY <2>1
<1>2. Len(past) \in Nat
  OBVIOUS
<1>3. PICK f \in [0 .. Len(past) -> Replay] : Chain(f, from, step, Len(past))
  <2> HIDE DEF step
  <2> QED BY <1>1, <1>2, ChainExists
<1>4. ASSUME NEW k \in 1 .. Len(past) PROVE f[k] = Replayed(f[k - 1], past[k])
  <2>1. k - 1 \in 0 .. Len(past)
    BY <1>2
  <2>2. <<k, f[k - 1]>> \in (1 .. Len(past)) \X Replay
    BY <2>1
  <2>3. step[<<k, f[k - 1]>>] = Replayed(f[k - 1], past[k])
    BY <2>2
  <2> QED BY <1>3, <2>3 DEF Chain
<1> DEFINE h == [n \in 0 .. Len(past) |-> IF n = 0 THEN from ELSE Replayed(f[n - 1], past[n])]
<1>5. \A n \in 0 .. Len(past) : f[n] = h[n]
  <2>1. f[0] = h[0]
    BY <1>2, <1>3 DEF Chain
  <2>2. \A n \in 1 .. Len(past) : f[n] = h[n]
    BY <1>2, <1>4
  <2>3. \A n \in 0 .. Len(past) : n = 0 \/ n \in 1 .. Len(past)
    BY <1>2
  <2> HIDE DEF h
  <2> QED BY <2>1, <2>2, <2>3
<1>6. f = h
  BY <1>5
<1> QED BY <1>6 DEF ReplayedOf

(* No event changes nothing, and one more does to a replay what it does.   *)
LEMMA ReplayIs ==
  ASSUME NEW past \in Seq(Happening), NEW from \in Replay
  PROVE  /\ replayOf(past, from) \in Replay
         /\ past = <<>> => replayOf(past, from) = from
         /\ \A e \in Happening :
              replayOf(Append(past, e), from) = Replayed(replayOf(past, from), e)
<1>1. \A s : replayOf(s, from) = (CHOOSE f : ReplayedOf(f, s, from))[Len(s)]
  BY DEF replayOf, ReplayedOf
<1> DEFINE f == CHOOSE x : ReplayedOf(x, past, from)
<1>2. ReplayedOf(f, past, from) /\ Len(past) \in Nat
  BY ReplayExists
<1> HIDE DEF f
<1>3. f[0] = from /\ \A k \in 1 .. Len(past) : f[k] = Replayed(f[k - 1], past[k])
  <2>1. \A k \in 0 .. Len(past) : f[k] = IF k = 0 THEN from ELSE Replayed(f[k - 1], past[k])
    BY <1>2 DEF ReplayedOf
  <2>2. 0 \in 0 .. Len(past) /\ \A k \in 1 .. Len(past) : k \in 0 .. Len(past) /\ k # 0
    BY <1>2
  <2> QED BY <2>1, <2>2
<1>4. replayOf(past, from) = f[Len(past)]
  BY <1>1 DEF f
<1>5. replayOf(past, from) \in Replay
  <2>1. PICK g : g \in [0 .. Len(past) -> Replay] /\ ReplayedOf(g, past, from)
    BY ReplayExists
  <2>2. \A k \in 0 .. Len(past) : g[k] = IF k = 0 THEN from ELSE Replayed(g[k - 1], past[k])
    BY <2>1 DEF ReplayedOf
  <2>3. 0 \in 0 .. Len(past) /\ \A k \in 1 .. Len(past) : k \in 0 .. Len(past) /\ k # 0
    BY <1>2
  <2>4. f[0] = g[0] /\ \A k \in 1 .. Len(past) : f[k - 1] = g[k - 1] => f[k] = g[k]
    BY <1>3, <2>2, <2>3
  <2>5. \A k \in 0 .. Len(past) : f[k] = g[k]
    BY <1>2, <2>4, ChainsAgree
  <2> QED BY <1>2, <1>4, <2>1, <2>5
<1>6. past = <<>> => replayOf(past, from) = from
  BY <1>3, <1>4
<1>7. ASSUME NEW e \in Happening
      PROVE  replayOf(Append(past, e), from) = Replayed(replayOf(past, from), e)
  <2> DEFINE longer == Append(past, e)
             g == CHOOSE x : ReplayedOf(x, longer, from)
             n == Len(past)
  <2>1. /\ longer \in Seq(Happening) /\ Len(longer) = n + 1 /\ longer[n + 1] = e
        /\ \A k \in 1 .. n : longer[k] = past[k]
    OBVIOUS
  <2>2. ReplayedOf(g, longer, from)
    BY <2>1, ReplayExists
  <2>3. replayOf(longer, from) = g[n + 1]
    BY <1>1, <2>1
  <2> HIDE DEF g, longer
  <2>4. \A k \in 0 .. n + 1 : g[k] = IF k = 0 THEN from ELSE Replayed(g[k - 1], longer[k])
    BY <2>1, <2>2 DEF ReplayedOf
  <2>5. /\ 0 \in 0 .. n + 1 /\ n + 1 \in 0 .. n + 1 /\ n + 1 # 0 /\ n + 1 - 1 = n /\ n \in 0 .. n
        /\ \A k \in 1 .. n : k \in 0 .. n + 1 /\ k # 0
    BY <1>2
  <2>6. f[0] = g[0] /\ \A k \in 1 .. n : f[k - 1] = g[k - 1] => f[k] = g[k]
    BY <1>3, <2>1, <2>4, <2>5
  <2>7. \A k \in 0 .. n : f[k] = g[k]
    BY <1>2, <2>6, ChainsAgree
  <2>8. g[n + 1] = Replayed(g[n], e)
    BY <2>1, <2>4, <2>5
  <2> QED BY <1>4, <2>3, <2>5, <2>7, <2>8 DEF longer
<1> QED BY <1>5, <1>6, <1>7

-----------------------------------------------------------------------------
(* History: the time that is accounted for.                                *)

Fresh(t) == [status |-> "none", since |-> taskRow[t].born, by |-> NoTime]
ReplayTo(t) == replayOf(journal[t], Fresh(t))

(* Where a replay ends is where the task is, since its status last         *)
(* changed; what is closed and what is still open make the time spent.     *)
Balanced(t) ==
  /\ ReplayTo(t).status = taskRow[t].status
  /\ ReplayTo(t).since + lasted[t] = moment
  /\ spent[t] = [s \in Status |-> IF s = taskRow[t].status THEN ReplayTo(t).by[s] + lasted[t]
                                                          ELSE ReplayTo(t).by[s]]

TimeInv ==
  /\ HistoryTypeOK
  /\ journal \in [Tasks -> Seq(Happening)]
  /\ spent \in [Tasks -> [Status -> Nat]]
  /\ lasted \in [Tasks -> Nat]
  /\ \A t \in Live : Balanced(t)
  /\ \A t \in Tasks \ Live : spent[t] = NoTime /\ lasted[t] = 0

(* The parts of what is kept, one by one.                                  *)
LEMMA TimeShape ==
  ASSUME TimeInv
  PROVE  /\ moment \in Nat /\ MaxClock \in Nat /\ moment <= MaxClock
         /\ \A t \in Tasks : /\ taskRow[t].status \in Status /\ taskRow[t].live \in BOOLEAN
                             /\ taskRow[t].born \in Nat
                             /\ journal[t] \in Seq(Happening)
                             /\ spent[t] \in [Status -> Nat] /\ lasted[t] \in Nat
                             /\ Fresh(t) \in Replay /\ ReplayTo(t) \in Replay
         /\ NoTime \in [Status -> Nat] /\ "none" \notin Status
<1>1. moment \in Nat /\ MaxClock \in Nat /\ moment <= MaxClock
  BY HistoryAssumption DEF TimeInv, HistoryTypeOK
<1>2. NoTime \in [Status -> Nat] /\ "none" \notin Status
  BY DEF NoTime, Status
<1>3. ASSUME NEW t \in Tasks
      PROVE  /\ taskRow[t].status \in Status /\ taskRow[t].live \in BOOLEAN /\ taskRow[t].born \in Nat
             /\ journal[t] \in Seq(Happening) /\ spent[t] \in [Status -> Nat] /\ lasted[t] \in Nat
  <2>1. taskRow[t] \in [live : BOOLEAN, status : Status, focused : BOOLEAN, born : 0 .. MaxClock]
    BY DEF TimeInv, HistoryTypeOK
  <2> QED BY <1>1, <2>1 DEF TimeInv
<1>4. ASSUME NEW t \in Tasks PROVE Fresh(t) \in Replay /\ ReplayTo(t) \in Replay
  <2>1. Fresh(t) \in Replay
    BY <1>2, <1>3 DEF Fresh, Replay
  <2> QED BY <1>3, <2>1, ReplayIs DEF ReplayTo
<1> QED BY <1>1, <1>2, <1>3, <1>4

(* Nothing that concerns a task changes.                                   *)
Untouched(t) ==
  /\ taskRow'[t] = taskRow[t] /\ journal'[t] = journal[t]
  /\ spent'[t] = spent[t] /\ lasted'[t] = lasted[t]

(* A task that nothing happened to stays accounted for.                    *)
LEMMA UntouchedKeeps ==
  ASSUME NEW t, Untouched(t), Balanced(t), moment' = moment PROVE Balanced(t)'
  BY DEF Untouched, Balanced, ReplayTo, Fresh

(* The time of the others is theirs.                                       *)
LEMMA OthersKeep ==
  ASSUME TimeInv, NEW t \in Tasks, moment' = moment,
         \A u \in Tasks \ {t} : Untouched(u),
         t \in Live' => Balanced(t)',
         t \notin Live' => spent'[t] = NoTime /\ lasted'[t] = 0
  PROVE  /\ \A u \in Live' : Balanced(u)'
         /\ \A u \in Tasks \ Live' : spent'[u] = NoTime /\ lasted'[u] = 0
<1>1. ASSUME NEW u \in Tasks, u # t PROVE /\ u \in Live' <=> u \in Live
                                          /\ u \in Live => Balanced(u)'
                                          /\ u \notin Live => spent'[u] = NoTime /\ lasted'[u] = 0
  <2>1. Untouched(u)
    BY <1>1
  <2>2. u \in Live' <=> u \in Live
    BY <2>1 DEF Untouched, Live
  <2>3. u \in Live => Balanced(u)'
    BY <2>1, UntouchedKeeps DEF TimeInv
  <2>4. u \notin Live => spent'[u] = NoTime /\ lasted'[u] = 0
    BY <2>1 DEF Untouched, TimeInv
  <2> QED BY <2>2, <2>3, <2>4
<1>2. \A u \in Live' : u \in Tasks
  BY DEF Live
<1> QED BY <1>1, <1>2

(* An event of the focus is nothing to the replay.                         *)
LEMMA FocusKeeps ==
  ASSUME TimeInv, NEW t \in Live, NEW e \in Happening, e.to = "none",
         journal'[t] = Append(journal[t], e),
         taskRow'[t].status = taskRow[t].status, taskRow'[t].born = taskRow[t].born,
         UNCHANGED <<moment, spent, lasted>>
  PROVE  Balanced(t)'
<1>1. t \in Tasks
  BY DEF Live
<1>2. journal[t] \in Seq(Happening) /\ Fresh(t) \in Replay /\ ReplayTo(t) \in Replay /\ Balanced(t)
  BY <1>1, TimeShape DEF TimeInv
<1>3. Fresh(t)' = Fresh(t)
  BY DEF Fresh
<1>4. ReplayTo(t)' = Replayed(ReplayTo(t), e)
  BY <1>2, <1>3, ReplayIs DEF ReplayTo
<1>5. ReplayTo(t)' = ReplayTo(t)
  BY <1>2, <1>4, ReplayedIs
<1> QED BY <1>2, <1>5 DEF Balanced

(* A journal longer by some event.                                         *)
LEMMA Longer ==
  ASSUME NEW S, NEW s \in Seq(S), NEW e \in S
  PROVE  /\ s \o <<e>> = Append(s, e) /\ Append(s, e) \in Seq(S)
         /\ s \o <<e>> \o <<>> = Append(s, e)
         /\ \A d \in S : s \o <<e>> \o <<d>> = Append(Append(s, e), d)
  OBVIOUS

(* A row of a task.                                                        *)
RowOf == [live : BOOLEAN, status : Status, focused : BOOLEAN, born : 0 .. MaxClock]

(* What a row may be.                                                      *)
LEMMA RowIs ==
  /\ Nothing \in RowOf /\ ~ Nothing.live
  /\ \A row \in RowOf : /\ row.live \in BOOLEAN /\ row.status \in Status
                        /\ row.focused \in BOOLEAN /\ row.born \in 0 .. MaxClock
  /\ \A l \in BOOLEAN, s \in Status, f \in BOOLEAN, b \in 0 .. MaxClock :
       [live |-> l, status |-> s, focused |-> f, born |-> b] \in RowOf
<1>1. 0 \in 0 .. MaxClock
  BY HistoryAssumption
<1> QED BY <1>1 DEF RowOf, Nothing, Status

(* An event of now.                                                        *)
LEMMA EventIs ==
  ASSUME moment \in Nat, NEW to \in Status \cup {"none"},
         NEW kind \in {"created", "status", "focused", "unfocused"}
  PROVE  /\ Event(kind, to) \in Happening
         /\ Event(kind, to).kind = kind /\ Event(kind, to).to = to /\ Event(kind, to).at = moment
  BY DEF Event, Happening

(* At the start no task is there.                                          *)
LEMMA TimeStart == HistoryInit => TimeInv
<1> SUFFICES ASSUME HistoryInit PROVE TimeInv
  OBVIOUS
<1>1. HistoryTypeOK
  BY RowIs, HistoryAssumption DEF HistoryInit, HistoryTypeOK, RowOf
<1>2. journal \in [Tasks -> Seq(Happening)]
  <2>1. <<>> \in Seq(Happening)
    OBVIOUS
  <2> QED BY <2>1 DEF HistoryInit
<1>3. spent \in [Tasks -> [Status -> Nat]] /\ lasted \in [Tasks -> Nat]
  <2>1. NoTime \in [Status -> Nat]
    BY DEF NoTime
  <2> QED BY <2>1 DEF HistoryInit
<1>4. Live = {}
  BY DEF Live, HistoryInit, Nothing
<1>5. \A t \in Tasks : spent[t] = NoTime /\ lasted[t] = 0
  BY DEF HistoryInit
<1> QED BY <1>1, <1>2, <1>3, <1>4, <1>5 DEF TimeInv

(* A new task has been nowhere yet.                                        *)
LEMMA CreateKeeps ==
  ASSUME TimeInv, NEW t \in Tasks, NEW s \in Status, Create(t, s) PROVE TimeInv'
<1> DEFINE e == Event("created", s)
           row == [live |-> TRUE, status |-> s, focused |-> FALSE, born |-> moment]
<1>1. moment \in Nat /\ moment \in 0 .. MaxClock /\ NoTime \in [Status -> Nat] /\ "none" \notin Status
  BY TimeShape DEF TimeInv, HistoryTypeOK
<1>2. e \in Happening /\ e.kind = "created" /\ e.to = s /\ e.at = moment
  BY <1>1, EventIs
<1>3. row \in RowOf
  BY <1>1, RowIs
<1> HIDE DEF e
<1>4. /\ taskRow \in [Tasks -> RowOf] /\ journal \in [Tasks -> Seq(Happening)]
      /\ spent[t] = NoTime /\ lasted[t] = 0
  <2>1. t \notin Live
    BY DEF Create
  <2> QED BY <2>1 DEF TimeInv, HistoryTypeOK, RowOf
<1>5. /\ taskRow' = [taskRow EXCEPT ![t] = row] /\ journal' = [journal EXCEPT ![t] = <<e>>]
      /\ UNCHANGED <<moment, archived, spent, lasted>>
  BY DEF Create, e
<1>6. taskRow'[t] = row /\ journal'[t] = <<e>>
  BY <1>4, <1>5
<1>7. Balanced(t)'
  <2> DEFINE fresh == [status |-> "none", since |-> moment, by |-> NoTime]
  <2>1. Fresh(t)' = fresh
    BY <1>6 DEF Fresh, NoTime
  <2>2. fresh \in Replay
    BY <1>1 DEF Replay
  <2>3. <<>> \in Seq(Happening) /\ Append(<<>>, e) = <<e>>
    OBVIOUS
  <2>4. fresh.status = "none" /\ fresh.by = NoTime
    OBVIOUS
  <2> HIDE DEF fresh
  <2>5. replayOf(<<e>>, fresh) = Replayed(fresh, e)
    <3>1. replayOf(<<>>, fresh) = fresh
      BY <2>2, <2>3, ReplayIs
    <3>2. replayOf(Append(<<>>, e), fresh) = Replayed(replayOf(<<>>, fresh), e)
      BY <1>2, <2>2, <2>3, ReplayIs
    <3> QED BY <2>3, <3>1, <3>2
  <2>6. ReplayTo(t)' = Replayed(fresh, e)
    BY <1>6, <2>1, <2>5 DEF ReplayTo
  <2>7. ReplayTo(t)'.status = s /\ ReplayTo(t)'.since = moment /\ ReplayTo(t)'.by = NoTime
    BY <1>1, <1>2, <2>2, <2>4, <2>6, ReplayedIs
  <2>8. spent'[t] = [x \in Status |-> IF x = s THEN NoTime[x] + 0 ELSE NoTime[x]]
    BY <1>4, <1>5 DEF NoTime
  <2>9. taskRow'[t].status = s /\ lasted'[t] = 0 /\ moment' = moment /\ moment + 0 = moment
    BY <1>1, <1>4, <1>5, <1>6
  <2> QED BY <2>7, <2>8, <2>9 DEF Balanced
<1>8. \A u \in Tasks \ {t} : Untouched(u)
  BY <1>4, <1>5 DEF Untouched
<1>9. t \in Live'
  BY <1>6 DEF Live
<1>10. /\ \A u \in Live' : Balanced(u)'
       /\ \A u \in Tasks \ Live' : spent'[u] = NoTime /\ lasted'[u] = 0
  BY <1>5, <1>7, <1>8, <1>9, OthersKeep
<1>11. taskRow' \in [Tasks -> RowOf]
  BY <1>3, <1>4, <1>5
<1>12. journal' \in [Tasks -> Seq(Happening)]
  <2>1. <<e>> \in Seq(Happening)
    BY <1>2, OneIn
  <2> QED BY <1>4, <1>5, <2>1
<1>13. HistoryTypeOK'
  BY <1>5, <1>11 DEF TimeInv, HistoryTypeOK, RowOf
<1> QED BY <1>5, <1>10, <1>12, <1>13 DEF TimeInv, NoTime

(* A move closes the interval of the status it leaves.                     *)
LEMMA MoveKeeps ==
  ASSUME TimeInv, NEW t \in Tasks, NEW s \in Status, Move(t, s) PROVE TimeInv'
<1> DEFINE leaves == s = "done" /\ taskRow[t].focused
           e == Event("status", s)
           d == Event("unfocused", "none")
           end == ReplayTo(t)
           old == taskRow[t].status
<1>1. /\ moment \in Nat /\ "none" \notin Status /\ journal[t] \in Seq(Happening)
      /\ Fresh(t) \in Replay /\ end \in Replay /\ lasted[t] \in Nat /\ old \in Status
  BY TimeShape
<1>2. t \in Live /\ Balanced(t)
  BY DEF Move, Room, TimeInv
<1>3. /\ e \in Happening /\ e.kind = "status" /\ e.to = s /\ e.at = moment
      /\ d \in Happening /\ d.to = "none"
  BY <1>1, EventIs
<1>4. /\ taskRow \in [Tasks -> RowOf] /\ journal \in [Tasks -> Seq(Happening)]
      /\ spent \in [Tasks -> [Status -> Nat]] /\ lasted \in [Tasks -> Nat]
  BY DEF TimeInv, HistoryTypeOK, RowOf
<1>5. taskRow[t] \in RowOf
  BY <1>4
<1>6. /\ taskRow'[t].status = s /\ taskRow'[t].born = taskRow[t].born
      /\ taskRow'[t].live = taskRow[t].live /\ taskRow'[t] \in RowOf
      /\ taskRow' \in [Tasks -> RowOf]
      /\ \A u \in Tasks \ {t} : taskRow'[u] = taskRow[u]
  <2> DEFINE f == taskRow[t].focused /\ ~ leaves
  <2>1. f \in BOOLEAN
    OBVIOUS
  <2>2. taskRow' = [taskRow EXCEPT ![t].status = s, ![t].focused = f]
    BY DEF Move
  <2> HIDE DEF f
  <2>3. taskRow'[t] = [live |-> taskRow[t].live, status |-> s, focused |-> f, born |-> taskRow[t].born]
    BY <1>4, <1>5, <2>2 DEF RowOf
  <2>4. taskRow'[t] \in RowOf
    BY <1>5, <2>1, <2>3, RowIs
  <2>5. \A u \in Tasks \ {t} : taskRow'[u] = taskRow[u]
    BY <1>4, <2>2
  <2>6. taskRow' \in [Tasks -> RowOf]
    <3>1. DOMAIN taskRow' = Tasks /\ taskRow' = [u \in Tasks |-> taskRow'[u]]
      BY <1>4, <2>2
    <3> QED BY <1>4, <2>4, <2>5, <3>1
  <2> QED BY <2>3, <2>4, <2>5, <2>6
<1>7. /\ journal'[t] = IF leaves THEN Append(Append(journal[t], e), d) ELSE Append(journal[t], e)
      /\ journal'[t] \in Seq(Happening)
      /\ journal' \in [Tasks -> Seq(Happening)]
      /\ \A u \in Tasks \ {t} : journal'[u] = journal[u]
  <2> DEFINE more == IF leaves THEN <<d>> ELSE <<>>
  <2>1. journal' = [journal EXCEPT ![t] = journal[t] \o <<e>> \o more]
    BY DEF Move
  <2> HIDE DEF e, d
  <2>2. journal[t] \o <<e>> \o more = IF leaves THEN Append(Append(journal[t], e), d) ELSE Append(journal[t], e)
    BY <1>1, <1>3, Longer
  <2>3. Append(journal[t], e) \in Seq(Happening) /\ Append(Append(journal[t], e), d) \in Seq(Happening)
    BY <1>1, <1>3, Longer
  <2> HIDE DEF more, leaves
  <2> QED BY <1>4, <2>1, <2>2, <2>3
<1>8. /\ lasted'[t] = 0 /\ lasted' \in [Tasks -> Nat] /\ UNCHANGED <<moment, archived, spent>>
      /\ \A u \in Tasks \ {t} : lasted'[u] = lasted[u]
  BY <1>4 DEF Move
<1>9. Balanced(t)'
  <2>1. Fresh(t)' = Fresh(t)
    BY <1>6 DEF Fresh
  <2> HIDE DEF e, d, leaves
  <2>2. /\ Append(journal[t], e) \in Seq(Happening)
        /\ replayOf(Append(journal[t], e), Fresh(t)) = Replayed(end, e)
    BY <1>1, <1>3, ReplayIs, Longer DEF ReplayTo
  <2>3. Replayed(end, e) \in Replay
    BY <1>1, <1>3, ReplayedIs
  <2>4. replayOf(Append(Append(journal[t], e), d), Fresh(t)) = Replayed(end, e)
    <3> DEFINE j == Append(journal[t], e)
    <3>1. replayOf(Append(j, d), Fresh(t)) = Replayed(replayOf(j, Fresh(t)), d)
      <4>1. j \in Seq(Happening)
        BY <2>2
      <4> HIDE DEF j
      <4> QED BY <1>1, <1>3, <4>1, ReplayIs
    <3> QED BY <1>3, <2>2, <2>3, <3>1, ReplayedIs
  <2>5. ReplayTo(t)' = Replayed(end, e)
    BY <1>7, <2>1, <2>2, <2>4 DEF ReplayTo
  <2>6. end.status = old /\ end.since + lasted[t] = moment /\ end.since \in Nat
    BY <1>1, <1>2 DEF Balanced, Replay
  <2>7. /\ ReplayTo(t)'.status = s /\ ReplayTo(t)'.since = moment
        /\ ReplayTo(t)'.by = [x \in Status |-> IF x = old THEN end.by[x] + (moment - end.since) ELSE end.by[x]]
    <3>1. end.status # "none" /\ end.since <= e.at /\ e.to # "none"
      BY <1>1, <1>3, <2>6
    <3> HIDE DEF end, old
    <3> QED BY <1>1, <1>3, <2>5, <2>6, <3>1, ReplayedIs
  <2>8. moment - end.since = lasted[t]
    BY <1>1, <2>6
  <2>9. spent[t] = [x \in Status |-> IF x = old THEN end.by[x] + lasted[t] ELSE end.by[x]]
    BY <1>2 DEF Balanced
  <2>10. ReplayTo(t)'.by = spent[t]
    BY <2>7, <2>8, <2>9
  <2>11. spent[t] \in [Status -> Nat]
    BY <1>4
  <2>12. spent'[t] = [x \in Status |-> IF x = s THEN spent[t][x] + 0 ELSE spent[t][x]]
    <3>1. \A x \in Status : spent[t][x] + 0 = spent[t][x]
      BY <2>11
    <3> QED BY <1>8, <2>11, <3>1
  <2>13. moment + 0 = moment
    BY <1>1
  <2> HIDE DEF end, old
  <2> QED BY <1>6, <1>8, <2>7, <2>10, <2>12, <2>13 DEF Balanced
<1>10. \A u \in Tasks \ {t} : Untouched(u)
  BY <1>6, <1>7, <1>8 DEF Untouched
<1>11. t \in Live'
  BY <1>2, <1>6 DEF Live
<1>12. /\ \A u \in Live' : Balanced(u)'
       /\ \A u \in Tasks \ Live' : spent'[u] = NoTime /\ lasted'[u] = 0
  BY <1>8, <1>9, <1>10, <1>11, OthersKeep
<1>13. HistoryTypeOK'
  BY <1>6, <1>8 DEF TimeInv, HistoryTypeOK, RowOf
<1> QED BY <1>4, <1>7, <1>8, <1>12, <1>13 DEF TimeInv, NoTime

(* Taking into the focus and out of it.                                    *)
LEMMA FocusStep ==
  ASSUME TimeInv, NEW t \in Tasks, Focus(t) \/ Unfocus(t) PROVE TimeInv'
<1> DEFINE now == ~ taskRow[t].focused
<1>1. PICK kind \in {"focused", "unfocused"} :
        /\ t \in Live
        /\ taskRow' = [taskRow EXCEPT ![t].focused = now]
        /\ journal' = [journal EXCEPT ![t] = Append(@, Event(kind, "none"))]
        /\ UNCHANGED <<moment, archived, spent, lasted>>
  <2>1. CASE Focus(t)
    <3>1. now = TRUE
      BY <2>1 DEF Focus
    <3> QED BY <2>1, <3>1 DEF Focus, Room
  <2>2. CASE Unfocus(t)
    <3>1. now = FALSE
      BY <2>2 DEF Unfocus
    <3> QED BY <2>2, <3>1 DEF Unfocus, Room
  <2> QED BY <2>1, <2>2
<1> DEFINE e == Event(kind, "none")
<1>2. moment \in Nat /\ journal[t] \in Seq(Happening)
  BY TimeShape
<1>3. e \in Happening /\ e.to = "none"
  BY <1>2, EventIs
<1>4. taskRow \in [Tasks -> RowOf] /\ journal \in [Tasks -> Seq(Happening)]
  BY DEF TimeInv, HistoryTypeOK, RowOf
<1>5. now \in BOOLEAN
  OBVIOUS
<1> HIDE DEF now, e
<1>6. /\ taskRow'[t].status = taskRow[t].status /\ taskRow'[t].born = taskRow[t].born
      /\ taskRow'[t].live = taskRow[t].live
      /\ taskRow' \in [Tasks -> RowOf]
      /\ \A u \in Tasks \ {t} : taskRow'[u] = taskRow[u]
  <2>1. taskRow[t] \in RowOf
    BY <1>4
  <2>2. taskRow'[t] = [live |-> taskRow[t].live, status |-> taskRow[t].status,
                       focused |-> now, born |-> taskRow[t].born]
    BY <1>1, <1>4, <2>1 DEF RowOf
  <2>3. taskRow'[t] \in RowOf
    BY <1>5, <2>1, <2>2, RowIs
  <2>4. \A u \in Tasks \ {t} : taskRow'[u] = taskRow[u]
    BY <1>1, <1>4
  <2>5. taskRow' = [u \in Tasks |-> taskRow'[u]]
    BY <1>1, <1>4
  <2>6. taskRow' \in [Tasks -> RowOf]
    <3>1. \A u \in Tasks : taskRow'[u] \in RowOf
      BY <1>4, <2>3, <2>4
    <3> QED BY <2>5, <3>1
  <2> QED BY <2>2, <2>4, <2>6
<1>7. journal' = [journal EXCEPT ![t] = Append(journal[t], e)]
  BY <1>1 DEF e
<1>8. Append(journal[t], e) \in Seq(Happening)
  BY <1>2, <1>3, Longer
<1>9. journal'[t] = Append(journal[t], e) /\ journal' \in [Tasks -> Seq(Happening)]
  BY <1>4, <1>7, <1>8
<1>10. Balanced(t)'
  BY <1>1, <1>3, <1>6, <1>9, FocusKeeps
<1>11. \A u \in Tasks \ {t} : Untouched(u)
  BY <1>1, <1>4, <1>6, <1>7 DEF Untouched
<1>12. t \in Live'
  BY <1>1, <1>6 DEF Live
<1>13. /\ \A u \in Live' : Balanced(u)'
       /\ \A u \in Tasks \ Live' : spent'[u] = NoTime /\ lasted'[u] = 0
  BY <1>1, <1>10, <1>11, <1>12, OthersKeep
<1>14. HistoryTypeOK'
  BY <1>1, <1>6 DEF TimeInv, HistoryTypeOK, RowOf
<1> QED BY <1>1, <1>9, <1>13, <1>14 DEF TimeInv, NoTime

(* A deleted task has been nowhere.                                        *)
LEMMA DeleteKeeps == ASSUME TimeInv, NEW t \in Tasks, Delete(t) PROVE TimeInv'
<1>1. /\ taskRow \in [Tasks -> RowOf] /\ journal \in [Tasks -> Seq(Happening)]
      /\ spent \in [Tasks -> [Status -> Nat]] /\ lasted \in [Tasks -> Nat]
  BY DEF TimeInv, HistoryTypeOK, RowOf
<1>2. /\ taskRow' = [taskRow EXCEPT ![t] = Nothing] /\ journal' = [journal EXCEPT ![t] = <<>>]
      /\ spent' = [spent EXCEPT ![t] = NoTime] /\ lasted' = [lasted EXCEPT ![t] = 0]
      /\ UNCHANGED <<moment, archived>>
  BY DEF Delete
<1>3. <<>> \in Seq(Happening) /\ NoTime \in [Status -> Nat]
  BY TimeShape
<1>4. \A u \in Tasks \ {t} : Untouched(u)
  BY <1>1, <1>2 DEF Untouched
<1>5. taskRow' \in [Tasks -> RowOf] /\ taskRow'[t] = Nothing
  BY <1>1, <1>2, RowIs
<1>6. t \notin Live' /\ spent'[t] = NoTime /\ lasted'[t] = 0
  BY <1>1, <1>2, <1>5 DEF Live, Nothing
<1>7. /\ \A u \in Live' : Balanced(u)'
      /\ \A u \in Tasks \ Live' : spent'[u] = NoTime /\ lasted'[u] = 0
  BY <1>2, <1>4, <1>6, OthersKeep
<1>8. HistoryTypeOK'
  BY <1>2, <1>5 DEF TimeInv, HistoryTypeOK, RowOf
<1>9. journal' \in [Tasks -> Seq(Happening)] /\ spent' \in [Tasks -> [Status -> Nat]] /\ lasted' \in [Tasks -> Nat]
  BY <1>1, <1>2, <1>3
<1> QED BY <1>7, <1>8, <1>9 DEF TimeInv, NoTime

(* Time passes for the status each task is in.                             *)
LEMMA PassKeeps == ASSUME TimeInv, Pass PROVE TimeInv'
<1>1. /\ moment \in Nat /\ MaxClock \in Nat /\ moment < MaxClock /\ moment' = moment + 1
      /\ UNCHANGED <<taskRow, journal, archived>>
      /\ lasted' = [t \in Tasks |-> IF t \in Live THEN lasted[t] + 1 ELSE lasted[t]]
  BY TimeShape DEF Pass
<1>2. Live' = Live /\ Live \subseteq Tasks
  BY <1>1 DEF Live
<1>3. ASSUME NEW t \in Live PROVE Balanced(t)' /\ spent'[t] \in [Status -> Nat] /\ lasted'[t] \in Nat
  <2> DEFINE old == taskRow[t].status
             by == ReplayTo(t).by
  <2>1. /\ t \in Tasks /\ old \in Status /\ lasted[t] \in Nat /\ spent[t] \in [Status -> Nat]
        /\ ReplayTo(t) \in Replay /\ Balanced(t)
    BY <1>2, TimeShape DEF TimeInv
  <2>2. by \in [Status -> Nat] /\ ReplayTo(t).since \in Nat
    BY <2>1 DEF Replay
  <2>3. spent'[t] = [spent[t] EXCEPT ![old] = spent[t][old] + 1]
    BY <2>1 DEF Pass
  <2>4. ReplayTo(t)' = ReplayTo(t)
    BY <1>1 DEF ReplayTo, Fresh
  <2>5. spent[t] = [s \in Status |-> IF s = old THEN by[s] + lasted[t] ELSE by[s]]
    BY <2>1 DEF Balanced
  <2>6. lasted'[t] = lasted[t] + 1
    BY <1>1, <2>1
  <2>7. taskRow'[t].status = old
    BY <1>1
  <2>8. /\ ReplayTo(t).status = old /\ ReplayTo(t).since + lasted[t] = moment
    BY <2>1 DEF Balanced
  <2> HIDE DEF old, by
  <2>9. spent'[t] = [s \in Status |-> IF s = old THEN by[s] + (lasted[t] + 1) ELSE by[s]]
    <3>1. spent[t][old] + 1 = by[old] + (lasted[t] + 1)
      BY <2>1, <2>2, <2>5
    <3> QED BY <2>1, <2>3, <2>5, <3>1
  <2>10. ReplayTo(t).since + (lasted[t] + 1) = moment + 1
    BY <1>1, <2>1, <2>2, <2>8
  <2>11. Balanced(t)'
    BY <1>1, <2>4, <2>6, <2>7, <2>8, <2>9, <2>10 DEF Balanced, by
  <2>12. spent'[t] \in [Status -> Nat]
    BY <2>1, <2>3
  <2> QED BY <2>1, <2>6, <2>11, <2>12
<1>4. ASSUME NEW t \in Tasks \ Live PROVE spent'[t] = NoTime /\ lasted'[t] = 0
  BY <1>1 DEF Pass, TimeInv
<1>5. spent' \in [Tasks -> [Status -> Nat]] /\ lasted' \in [Tasks -> Nat]
  <2>1. NoTime \in [Status -> Nat] /\ 0 \in Nat
    BY TimeShape
  <2>2. \A t \in Tasks : spent'[t] \in [Status -> Nat] /\ lasted'[t] \in Nat
    BY <1>3, <1>4, <2>1
  <2>3. spent' = [t \in Tasks |-> spent'[t]] /\ lasted' = [t \in Tasks |-> lasted'[t]]
    BY DEF Pass
  <2> QED BY <2>2, <2>3
<1>6. HistoryTypeOK'
  BY <1>1 DEF TimeInv, HistoryTypeOK
<1> QED BY <1>1, <1>2, <1>3, <1>4, <1>5, <1>6 DEF TimeInv, NoTime

(* Nothing of this is about projects.                                      *)
LEMMA AsideKeeps ==
  ASSUME TimeInv, UNCHANGED <<moment, taskRow, journal, spent, lasted>>, archived' \subseteq Projects
  PROVE  TimeInv'
<1>1. HistoryTypeOK'
  BY DEF TimeInv, HistoryTypeOK
<1>2. Live' = Live
  BY DEF Live
<1>3. \A t : Balanced(t) => Balanced(t)'
  BY UntouchedKeeps DEF Untouched
<1> QED BY <1>1, <1>2, <1>3 DEF TimeInv, NoTime

(* What every moment of a history keeps of the time it accounts for.       *)
THEOREM TimeInvariant == HistorySpec => []TimeInv
<1>1. TimeInv /\ [HistoryNext]_historyVars => TimeInv'
  <2> SUFFICES ASSUME TimeInv, [HistoryNext]_historyVars PROVE TimeInv'
    OBVIOUS
  <2>1. ASSUME NEW t \in Tasks, NEW s \in Status, Create(t, s) PROVE TimeInv'
    BY <2>1, CreateKeeps
  <2>2. ASSUME NEW t \in Tasks, NEW s \in Status, Move(t, s) PROVE TimeInv'
    BY <2>2, MoveKeeps
  <2>3. ASSUME NEW t \in Tasks, Focus(t) \/ Unfocus(t) PROVE TimeInv'
    BY <2>3, FocusStep
  <2>4. ASSUME NEW t \in Tasks, Delete(t) PROVE TimeInv'
    BY <2>4, DeleteKeeps
  <2>5. ASSUME NEW p \in Projects, Archive(p) PROVE TimeInv'
    <3>1. archived' \subseteq Projects
      BY <2>5 DEF Archive, TimeInv, HistoryTypeOK
    <3> QED BY <2>5, <3>1, AsideKeeps DEF Archive
  <2>6. ASSUME Pass PROVE TimeInv'
    BY <2>6, PassKeeps
  <2>7. ASSUME UNCHANGED historyVars PROVE TimeInv'
    <3>1. archived' \subseteq Projects
      BY <2>7 DEF historyVars, TimeInv, HistoryTypeOK
    <3> QED BY <2>7, <3>1, AsideKeeps DEF historyVars
  <2> QED BY <2>1, <2>2, <2>3, <2>4, <2>5, <2>6, <2>7 DEF HistoryNext
<1> QED BY <1>1, TimeStart, PTL DEF HistorySpec

(* TimeAccounted: what GET /history says of a task's time in each status,  *)
(* and of when its present one began, is what really happened.             *)
THEOREM TimeAccountedCorrect == HistorySpec => []TimeAccounted
<1>1. TimeInv => TimeAccounted
  <2> SUFFICES ASSUME TimeInv, NEW t \in Live
               PROVE  /\ replayStatusTime(t).byStatus = spent[t]
                      /\ moment - replayStatusTime(t).currentSince = lasted[t]
    BY DEF TimeAccounted
  <2> DEFINE end == ReplayTo(t)
             open == IF end.status = "none" THEN taskRow[t].status ELSE end.status
  <2>1. /\ t \in Tasks /\ moment \in Nat /\ taskRow[t].status \in Status /\ lasted[t] \in Nat
        /\ end \in Replay /\ Balanced(t) /\ "none" \notin Status
    <3>1. t \in Tasks
      BY DEF Live
    <3> QED BY <3>1, TimeShape DEF TimeInv
  <2>2. /\ end.status = taskRow[t].status /\ end.since + lasted[t] = moment
        /\ end.since \in Nat /\ end.by \in [Status -> Nat]
    BY <2>1 DEF Balanced, Replay
  <2>3. /\ replayStatusTime(t).byStatus = [end.by EXCEPT ![open] = @ + Max({0, moment - end.since})]
        /\ replayStatusTime(t).currentSince = end.since
    BY DEF replayStatusTime, ReplayTo, Fresh
  <2>4. open = taskRow[t].status
    BY <2>1, <2>2
  <2>5. spent[t] = [s \in Status |-> IF s = taskRow[t].status THEN end.by[s] + lasted[t] ELSE end.by[s]]
    BY <2>1 DEF Balanced
  <2> HIDE DEF end, open
  <2>6. moment - end.since = lasted[t]
    BY <2>1, <2>2
  <2>7. Max({0, moment - end.since}) = lasted[t]
    <3>1. moment - end.since \in Int /\ moment - end.since >= 0
      BY <2>1, <2>6
    <3> QED BY <2>6, <3>1, MaxIs
  <2>8. replayStatusTime(t).byStatus = spent[t]
    BY <2>1, <2>2, <2>3, <2>4, <2>5, <2>7
  <2> QED BY <2>3, <2>6, <2>8
<1> QED BY <1>1, TimeInvariant, PTL

-----------------------------------------------------------------------------
(* History: what really happened, and what is told of it.                  *)

(* The events of a journal that finish its task.                           *)
Finishings(j) == {i \in DOMAIN j : j[i].kind = "status" /\ j[i].to = "done"}

(* They are the moments of fin, one for one.                               *)
Matched(j, fin) ==
  \E b \in Bijection(Finishings(j), DOMAIN fin) :
    \A i \in Finishings(j) : j[i].at = fin[b[i]]

(* A journal of a task born at some moment, up to another.                 *)
Recorded(j, fin, born, upTo) ==
  /\ j \in Seq(Happening) /\ fin \in Seq(Nat)
  /\ j # <<>> /\ j[1].kind = "created" /\ j[1].at = born
  /\ \A i \in DOMAIN j : j[i].at <= upTo /\ (i # 1 => j[i].kind # "created")
  /\ Matched(j, fin)

(* A new task has been finished never.                                     *)
LEMMA RecordedFirst ==
  ASSUME NEW e \in Happening, e.kind = "created"
  PROVE  Recorded(<<e>>, <<>>, e.at, e.at)
<1>1. /\ <<e>> \in Seq(Happening) /\ <<>> \in Seq(Nat) /\ <<e>> # <<>> /\ <<e>>[1] = e
      /\ DOMAIN <<e>> = {1} /\ DOMAIN <<>> = {}
  OBVIOUS
<1>2. e.at \in Nat
  BY DEF Happening
<1>3. Finishings(<<e>>) = {}
  BY <1>1 DEF Finishings
<1>4. [i \in {} |-> i] \in Bijection({}, {})
  BY DEF Bijection, Injection, Surjection, IsInjective
<1>5. Matched(<<e>>, <<>>)
  BY <1>1, <1>3, <1>4 DEF Matched
<1> QED BY <1>1, <1>2, <1>5 DEF Recorded

(* One event more.                                                         *)
LEMMA RecordedMore ==
  ASSUME NEW j, NEW fin, NEW born, NEW upTo \in Nat, Recorded(j, fin, born, upTo),
         NEW e \in Happening, e.kind # "created", e.at = upTo
  PROVE  Recorded(Append(j, e),
                  IF e.kind = "status" /\ e.to = "done" THEN Append(fin, upTo) ELSE fin, born, upTo)
<1> DEFINE n == Len(j) + 1
           longer == Append(j, e)
           ends == e.kind = "status" /\ e.to = "done"
           more == IF ends THEN Append(fin, upTo) ELSE fin
           k == Len(fin) + 1
<1>1. /\ j \in Seq(Happening) /\ fin \in Seq(Nat)
      /\ j # <<>> /\ j[1].kind = "created" /\ j[1].at = born
      /\ \A i \in DOMAIN j : j[i].at <= upTo /\ (i # 1 => j[i].kind # "created")
  BY DEF Recorded
<1>2. /\ longer \in Seq(Happening) /\ DOMAIN longer = DOMAIN j \cup {n} /\ n \notin DOMAIN j
      /\ longer[n] = e /\ (\A i \in DOMAIN j : longer[i] = j[i]) /\ 1 \in DOMAIN j /\ longer # <<>>
      /\ n # 1
  BY <1>1
<1>3. more \in Seq(Nat) /\ (ends => DOMAIN more = DOMAIN fin \cup {k} /\ k \notin DOMAIN fin
                                    /\ more[k] = upTo /\ \A i \in DOMAIN fin : more[i] = fin[i])
                        /\ (~ ends => more = fin)
  <2>1. /\ Append(fin, upTo) \in Seq(Nat) /\ DOMAIN Append(fin, upTo) = DOMAIN fin \cup {k} /\ k \notin DOMAIN fin
        /\ Append(fin, upTo)[k] = upTo /\ \A i \in DOMAIN fin : Append(fin, upTo)[i] = fin[i]
    BY <1>1
  <2> QED BY <1>1, <2>1
<1> HIDE DEF longer, n, more, k, ends
<1>4. Finishings(longer) = IF ends THEN Finishings(j) \cup {n} ELSE Finishings(j)
  <2>1. ends <=> longer[n].kind = "status" /\ longer[n].to = "done"
    BY <1>2 DEF ends
  <2> QED BY <1>2, <2>1 DEF Finishings
<1>5. PICK b \in Bijection(Finishings(j), DOMAIN fin) : \A i \in Finishings(j) : j[i].at = fin[b[i]]
  BY DEF Recorded, Matched
<1>6. /\ b \in [Finishings(j) -> DOMAIN fin]
      /\ \A x, y \in Finishings(j) : b[x] = b[y] => x = y
      /\ \A y \in DOMAIN fin : \E x \in Finishings(j) : b[x] = y
  BY DEF Bijection, Injection, Surjection, IsInjective
<1>7. Finishings(j) \subseteq DOMAIN j
  BY DEF Finishings
<1>8. Matched(longer, more)
  <2>1. CASE ~ ends
    <3>1. \A i \in Finishings(j) : longer[i].at = fin[b[i]]
      BY <1>2, <1>5, <1>7
    <3> QED BY <1>3, <1>4, <2>1, <3>1 DEF Matched
  <2>2. CASE ends
    <3> DEFINE c == [i \in Finishings(j) \cup {n} |-> IF i = n THEN k ELSE b[i]]
    <3>1. c \in [Finishings(j) \cup {n} -> DOMAIN fin \cup {k}]
      BY <1>6
    <3>2. \A x, y \in Finishings(j) \cup {n} : c[x] = c[y] => x = y
      BY <1>2, <1>3, <1>6, <1>7, <2>2
    <3>3. \A y \in DOMAIN fin \cup {k} : \E x \in Finishings(j) \cup {n} : c[x] = y
      <4>1. c[n] = k
        OBVIOUS
      <4>2. \A x \in Finishings(j) : c[x] = b[x]
        BY <1>2, <1>7
      <4> HIDE DEF c
      <4> QED BY <1>6, <4>1, <4>2
    <3>4. c \in Bijection(Finishings(longer), DOMAIN more)
      <4> HIDE DEF c
      <4>1. c \in Bijection(Finishings(j) \cup {n}, DOMAIN fin \cup {k})
        BY <3>1, <3>2, <3>3 DEF Bijection, Injection, Surjection, IsInjective
      <4> QED BY <1>3, <1>4, <2>2, <4>1
    <3>5. \A i \in Finishings(longer) : longer[i].at = more[c[i]]
      <4>1. ASSUME NEW i \in Finishings(j) PROVE longer[i].at = more[c[i]]
        <5>1. c[i] = b[i] /\ b[i] \in DOMAIN fin
          BY <1>2, <1>6, <1>7
        <5> HIDE DEF c
        <5> QED BY <1>2, <1>3, <1>5, <1>7, <2>2, <5>1
      <4>2. longer[n].at = more[c[n]]
        BY <1>2, <1>3, <2>2
      <4> HIDE DEF c
      <4> QED BY <1>4, <2>2, <4>1, <4>2
    <3> HIDE DEF c
    <3> QED BY <3>4, <3>5 DEF Matched
  <2> QED BY <2>1, <2>2
<1>9. longer[1].kind = "created" /\ longer[1].at = born
  BY <1>1, <1>2
<1>10. \A i \in DOMAIN longer : longer[i].at <= upTo /\ (i # 1 => longer[i].kind # "created")
  BY <1>1, <1>2
<1>11. Recorded(longer, more, born, upTo)
  BY <1>2, <1>3, <1>8, <1>9, <1>10 DEF Recorded
<1> QED BY <1>11 DEF longer, more, ends

(* Time passes.                                                            *)
LEMMA RecordedOn ==
  ASSUME NEW j, NEW fin, NEW born, NEW upTo \in Nat, Recorded(j, fin, born, upTo)
  PROVE  Recorded(j, fin, born, upTo + 1)
<1>1. \A i \in DOMAIN j : j[i].at \in Nat
  <2>1. \A i \in DOMAIN j : j[i] \in Happening
    BY DEF Recorded
  <2> QED BY <2>1 DEF Happening
<1>2. \A i \in DOMAIN j : j[i].at <= upTo + 1
  BY <1>1 DEF Recorded
<1> QED BY <1>2 DEF Recorded

(* The whole of a task's life is in its journal, and its time is its age.  *)
Whole(t) ==
  /\ Recorded(journal[t], finished[t], taskRow[t].born, moment)
  /\ Age(t) + taskRow[t].born = moment

WholeInv ==
  /\ finished = [t \in Tasks |-> finished[t]]
  /\ IsFiniteSet(Live)
  /\ \A t \in Live : Whole(t)
  /\ \A t \in Tasks \ Live : finished[t] = <<>>

(* At the start there is no task.                                          *)
LEMMA WholeStart == HistoryInit => WholeInv
<1> SUFFICES ASSUME HistoryInit PROVE WholeInv
  OBVIOUS
<1>1. Live = {}
  BY DEF Live, HistoryInit, Nothing
<1>2. finished = [t \in Tasks |-> finished[t]] /\ \A t \in Tasks : finished[t] = <<>>
  BY DEF HistoryInit
<1> QED BY <1>1, <1>2, FS_EmptySet DEF WholeInv

(* What happens to one task is nothing to the others.                      *)
LEMMA RestKept ==
  ASSUME WholeInv, NEW t \in Tasks, moment' = moment,
         finished' = [u \in Tasks |-> finished'[u]],
         \A u \in Tasks \ {t} : Untouched(u) /\ finished'[u] = finished[u],
         t \in Live' => Whole(t)', t \notin Live' => finished'[t] = <<>>
  PROVE  WholeInv'
<1>1. Live' \in SUBSET (Live \cup {t})
  BY DEF Live, Untouched
<1>2. IsFiniteSet(Live')
  <2>1. IsFiniteSet(Live \cup {t})
    BY FS_AddElement DEF WholeInv
  <2> QED BY <1>1, <2>1, FS_Subset
<1>3. ASSUME NEW u \in Tasks, u # t
      PROVE  (u \in Live' => Whole(u)') /\ (u \notin Live' => finished'[u] = <<>>)
  <2>1. Untouched(u) /\ finished'[u] = finished[u]
    BY <1>3
  <2>2. u \in Live' <=> u \in Live
    BY <2>1 DEF Live, Untouched
  <2>3. u \in Live => Whole(u)'
    BY <2>1 DEF WholeInv, Whole, Age, Untouched
  <2>4. u \notin Live => finished'[u] = <<>>
    BY <2>1 DEF WholeInv
  <2> QED BY <2>2, <2>3, <2>4
<1>4. \A u \in Live' : u \in Tasks
  BY DEF Live
<1>5. \A u \in Live' : Whole(u)'
  BY <1>3, <1>4
<1>6. \A u \in Tasks \ Live' : finished'[u] = <<>>
  BY <1>3
<1> QED BY <1>2, <1>5, <1>6 DEF WholeInv

(* A new task is of no age and has one event.                              *)
LEMMA CreateKept ==
  ASSUME TimeInv, WholeInv, NEW t \in Tasks, NEW s \in Status, Create(t, s)
  PROVE  WholeInv'
<1> DEFINE e == Event("created", s)
           row == [live |-> TRUE, status |-> s, focused |-> FALSE, born |-> moment]
<1>1. /\ taskRow' = [taskRow EXCEPT ![t] = row] /\ journal' = [journal EXCEPT ![t] = <<e>>]
      /\ UNCHANGED <<moment, spent, lasted, finished>> /\ t \notin Live
  BY DEF Create
<1>2. /\ taskRow \in [Tasks -> RowOf] /\ journal \in [Tasks -> Seq(Happening)] /\ moment \in Nat
      /\ spent[t] = NoTime
  BY <1>1, TimeShape DEF TimeInv, HistoryTypeOK, RowOf
<1>3. e \in Happening /\ e.kind = "created" /\ e.at = moment
  BY <1>2, EventIs
<1>4. row.live /\ row.born = moment
  OBVIOUS
<1> HIDE DEF e, row
<1>5. /\ taskRow'[t] = row /\ journal'[t] = <<e>> /\ finished'[t] = <<>> /\ spent'[t] = NoTime
      /\ \A u \in Tasks \ {t} : Untouched(u) /\ finished'[u] = finished[u]
  <2>1. finished[t] = <<>>
    BY <1>1 DEF WholeInv
  <2> QED BY <1>1, <1>2, <2>1 DEF Untouched
<1>6. Whole(t)'
  <2>1. Recorded(<<e>>, <<>>, moment, moment)
    BY <1>3, RecordedFirst
  <2>2. Age(t)' = 0
    BY <1>5 DEF Age, NoTime, Status
  <2> QED BY <1>1, <1>2, <1>4, <1>5, <2>1, <2>2 DEF Whole
<1>7. t \in Live'
  BY <1>4, <1>5 DEF Live
<1>8. finished' = [u \in Tasks |-> finished'[u]]
  BY <1>1 DEF WholeInv
<1> QED BY <1>1, <1>5, <1>6, <1>7, <1>8, RestKept

(* A move adds one event, or two, and a finishing when it is one.          *)
LEMMA MoveKept ==
  ASSUME TimeInv, WholeInv, NEW t \in Tasks, NEW s \in Status, Move(t, s)
  PROVE  WholeInv'
<1> DEFINE leaves == s = "done" /\ taskRow[t].focused
           e == Event("status", s)
           d == Event("unfocused", "none")
           fin == IF s = "done" THEN Append(finished[t], moment) ELSE finished[t]
<1>1. /\ taskRow \in [Tasks -> RowOf] /\ journal \in [Tasks -> Seq(Happening)] /\ moment \in Nat
      /\ journal[t] \in Seq(Happening)
  BY TimeShape DEF TimeInv, HistoryTypeOK, RowOf
<1>2. /\ e \in Happening /\ e.kind = "status" /\ e.to = s /\ e.at = moment
      /\ d \in Happening /\ d.kind = "unfocused" /\ d.at = moment
  BY <1>1, EventIs
<1>3. t \in Live /\ Whole(t)
  BY DEF Move, Room, WholeInv
<1>4. /\ taskRow'[t].live = taskRow[t].live /\ taskRow'[t].born = taskRow[t].born
      /\ \A u \in Tasks \ {t} : taskRow'[u] = taskRow[u]
  <2> DEFINE f == taskRow[t].focused /\ ~ leaves
  <2>1. taskRow' = [taskRow EXCEPT ![t].status = s, ![t].focused = f]
    BY DEF Move
  <2>2. taskRow[t] \in RowOf
    BY <1>1
  <2> HIDE DEF f
  <2>3. taskRow'[t] = [live |-> taskRow[t].live, status |-> s, focused |-> f, born |-> taskRow[t].born]
    BY <1>1, <2>1, <2>2 DEF RowOf
  <2> QED BY <1>1, <2>1, <2>3
<1>5. /\ journal'[t] = IF leaves THEN Append(Append(journal[t], e), d) ELSE Append(journal[t], e)
      /\ \A u \in Tasks \ {t} : journal'[u] = journal[u]
  <2> DEFINE more == IF leaves THEN <<d>> ELSE <<>>
  <2>1. journal' = [journal EXCEPT ![t] = journal[t] \o <<e>> \o more]
    BY DEF Move
  <2> HIDE DEF e, d
  <2>2. journal[t] \o <<e>> \o more = IF leaves THEN Append(Append(journal[t], e), d) ELSE Append(journal[t], e)
    <3>1. /\ journal[t] \in Seq(Happening) /\ e \in Happening /\ d \in Happening
      BY <1>1, <1>2
    <3>2. /\ journal[t] \o <<e>> \o <<>> = Append(journal[t], e)
          /\ journal[t] \o <<e>> \o <<d>> = Append(Append(journal[t], e), d)
      BY <3>1, Longer
    <3> HIDE DEF leaves
    <3> QED BY <3>2
  <2> HIDE DEF more, leaves
  <2> QED BY <1>1, <2>1, <2>2
<1>6. /\ UNCHANGED <<moment, spent>> /\ finished'[t] = fin
      /\ finished' = [u \in Tasks |-> finished'[u]]
      /\ \A u \in Tasks \ {t} : finished'[u] = finished[u] /\ lasted'[u] = lasted[u]
  <2>1. finished' = [finished EXCEPT ![t] = fin] /\ lasted' = [lasted EXCEPT ![t] = 0]
        /\ UNCHANGED <<moment, spent>>
    BY DEF Move
  <2>2. finished = [u \in Tasks |-> finished[u]] /\ lasted \in [Tasks -> Nat]
    BY DEF WholeInv, TimeInv
  <2> HIDE DEF fin
  <2> QED BY <2>1, <2>2
<1> HIDE DEF e, d, leaves
<1>7. Recorded(Append(journal[t], e), fin, taskRow[t].born, moment)
  BY <1>1, <1>2, <1>3, RecordedMore DEF Whole
<1> HIDE DEF fin
<1>8. Recorded(Append(Append(journal[t], e), d), fin, taskRow[t].born, moment)
  BY <1>1, <1>2, <1>7, RecordedMore
<1>9. Whole(t)'
  BY <1>3, <1>4, <1>5, <1>6, <1>7, <1>8 DEF Whole, Age
<1>10. \A u \in Tasks \ {t} : Untouched(u)
  BY <1>4, <1>5, <1>6 DEF Untouched
<1>11. t \in Live'
  BY <1>3, <1>4 DEF Live
<1> QED BY <1>6, <1>9, <1>10, <1>11, RestKept

(* An event of the focus finishes nothing.                                 *)
LEMMA FocusKept ==
  ASSUME TimeInv, WholeInv, NEW t \in Tasks, Focus(t) \/ Unfocus(t)
  PROVE  WholeInv'
<1> DEFINE now == ~ taskRow[t].focused
<1>1. PICK kind \in {"focused", "unfocused"} :
        /\ t \in Live
        /\ taskRow' = [taskRow EXCEPT ![t].focused = now]
        /\ journal' = [journal EXCEPT ![t] = Append(@, Event(kind, "none"))]
        /\ UNCHANGED <<moment, archived, spent, lasted, finished>>
  <2>1. CASE Focus(t)
    <3>1. now = TRUE
      BY <2>1 DEF Focus
    <3> QED BY <2>1, <3>1 DEF Focus, Room
  <2>2. CASE Unfocus(t)
    <3>1. now = FALSE
      BY <2>2 DEF Unfocus
    <3> QED BY <2>2, <3>1 DEF Unfocus, Room
  <2> QED BY <2>1, <2>2
<1> DEFINE e == Event(kind, "none")
<1>2. /\ taskRow \in [Tasks -> RowOf] /\ journal \in [Tasks -> Seq(Happening)] /\ moment \in Nat
  BY TimeShape DEF TimeInv, HistoryTypeOK, RowOf
<1>3. e \in Happening /\ e.kind # "created" /\ e.kind # "status" /\ e.at = moment
  BY <1>2, EventIs
<1> HIDE DEF now
<1>4. /\ taskRow'[t].live = taskRow[t].live /\ taskRow'[t].born = taskRow[t].born
      /\ \A u \in Tasks \ {t} : taskRow'[u] = taskRow[u]
  <2>1. taskRow[t] \in RowOf
    BY <1>2
  <2>2. taskRow'[t] = [live |-> taskRow[t].live, status |-> taskRow[t].status,
                       focused |-> now, born |-> taskRow[t].born]
    BY <1>1, <1>2, <2>1 DEF RowOf
  <2> QED BY <1>1, <1>2, <2>2
<1>5. /\ journal'[t] = Append(journal[t], e) /\ \A u \in Tasks \ {t} : journal'[u] = journal[u]
  BY <1>1, <1>2
<1> HIDE DEF e
<1>6. Whole(t)'
  <2>1. Whole(t)
    BY <1>1 DEF WholeInv
  <2>2. Recorded(Append(journal[t], e), finished[t], taskRow[t].born, moment)
    BY <1>2, <1>3, <2>1, RecordedMore DEF Whole
  <2> QED BY <1>1, <1>4, <1>5, <2>1, <2>2 DEF Whole, Age
<1>7. \A u \in Tasks \ {t} : Untouched(u) /\ finished'[u] = finished[u]
  BY <1>1, <1>4, <1>5 DEF Untouched
<1>8. t \in Live'
  BY <1>1, <1>4 DEF Live
<1>9. finished' = [u \in Tasks |-> finished'[u]]
  BY <1>1 DEF WholeInv
<1> QED BY <1>1, <1>6, <1>7, <1>8, <1>9, RestKept

(* With the task goes what happened to it.                                 *)
LEMMA DeleteKept ==
  ASSUME TimeInv, WholeInv, NEW t \in Tasks, Delete(t)
  PROVE  WholeInv'
<1>1. /\ taskRow \in [Tasks -> RowOf] /\ journal \in [Tasks -> Seq(Happening)]
      /\ spent \in [Tasks -> [Status -> Nat]] /\ lasted \in [Tasks -> Nat]
      /\ finished = [u \in Tasks |-> finished[u]]
  BY DEF TimeInv, WholeInv, HistoryTypeOK, RowOf
<1>2. /\ taskRow' = [taskRow EXCEPT ![t] = Nothing] /\ journal' = [journal EXCEPT ![t] = <<>>]
      /\ spent' = [spent EXCEPT ![t] = NoTime] /\ lasted' = [lasted EXCEPT ![t] = 0]
      /\ finished' = [finished EXCEPT ![t] = <<>>] /\ moment' = moment
  BY DEF Delete
<1>3. \A u \in Tasks \ {t} : Untouched(u) /\ finished'[u] = finished[u]
  BY <1>1, <1>2 DEF Untouched
<1>4. finished'[t] = <<>> /\ finished' = [u \in Tasks |-> finished'[u]]
  BY <1>1, <1>2
<1>5. t \notin Live'
  BY <1>1, <1>2 DEF Live, Nothing
<1> QED BY <1>2, <1>3, <1>4, <1>5, RestKept

(* Every task grows older by one.                                          *)
LEMMA PassKept ==
  ASSUME TimeInv, WholeInv, Pass
  PROVE  WholeInv'
<1>1. /\ moment \in Nat /\ moment' = moment + 1 /\ UNCHANGED <<taskRow, journal, finished>>
  BY TimeShape DEF Pass
<1>2. Live' = Live /\ Live \subseteq Tasks
  BY <1>1 DEF Live
<1>3. ASSUME NEW t \in Live PROVE Whole(t)'
  <2> DEFINE old == taskRow[t].status
  <2>1. Whole(t) /\ t \in Tasks /\ spent[t] \in [Status -> Nat] /\ old \in Status /\ taskRow[t].born \in Nat
    BY <1>2, TimeShape DEF WholeInv
  <2>2. spent'[t] = [spent[t] EXCEPT ![old] = spent[t][old] + 1]
    BY <2>1 DEF Pass
  <2>3. /\ spent[t]["pending"] \in Nat /\ spent[t]["done"] \in Nat /\ spent[t]["blocked"] \in Nat
        /\ old \in {"pending", "done", "blocked"}
    BY <2>1 DEF Status
  <2> HIDE DEF old
  <2>4. \A s \in Status : spent'[t][s] = IF s = old THEN spent[t][s] + 1 ELSE spent[t][s]
    BY <2>1, <2>2
  <2>5. Age(t)' = Age(t) + 1
    <3>1. Age(t)' = spent'[t]["pending"] + spent'[t]["done"] + spent'[t]["blocked"]
      BY DEF Age
    <3>2. Age(t) = spent[t]["pending"] + spent[t]["done"] + spent[t]["blocked"]
      BY DEF Age
    <3>3. CASE old = "pending"
      BY <2>3, <2>4, <3>1, <3>2, <3>3 DEF Status
    <3>4. CASE old = "done"
      BY <2>3, <2>4, <3>1, <3>2, <3>4 DEF Status
    <3>5. CASE old = "blocked"
      BY <2>3, <2>4, <3>1, <3>2, <3>5 DEF Status
    <3> QED BY <2>3, <3>3, <3>4, <3>5
  <2>6. Recorded(journal[t], finished[t], taskRow[t].born, moment + 1)
    BY <1>1, <2>1, RecordedOn DEF Whole
  <2>7. Age(t) \in Nat
    BY <2>3 DEF Age
  <2>8. (Age(t) + 1) + taskRow[t].born = moment + 1
    <3>1. PICK a \in Nat, b \in Nat : a = Age(t) /\ b = taskRow[t].born
      BY <2>1, <2>7
    <3>2. a + b = moment
      BY <2>1, <3>1 DEF Whole
    <3> QED BY <1>1, <3>1, <3>2
  <2> QED BY <1>1, <2>5, <2>6, <2>8 DEF Whole
<1>4. \A t \in Tasks \ Live' : finished'[t] = <<>>
  BY <1>1, <1>2 DEF WholeInv
<1> QED BY <1>1, <1>2, <1>3, <1>4 DEF WholeInv

(* Nothing of this is about projects.                                      *)
LEMMA AsideKept ==
  ASSUME WholeInv, UNCHANGED <<moment, taskRow, journal, spent, lasted, finished>>
  PROVE  WholeInv'
<1>1. Live' = Live
  BY DEF Live
<1>2. \A t \in Live : Whole(t)'
  BY DEF WholeInv, Whole, Age
<1> QED BY <1>1, <1>2 DEF WholeInv

(* What every moment of a history keeps of what happened.                  *)
THEOREM WholeInvariant == HistorySpec => []WholeInv
<1>1. TimeInv /\ WholeInv /\ [HistoryNext]_historyVars => WholeInv'
  <2> SUFFICES ASSUME TimeInv, WholeInv, [HistoryNext]_historyVars PROVE WholeInv'
    OBVIOUS
  <2>1. ASSUME NEW t \in Tasks, NEW s \in Status, Create(t, s) PROVE WholeInv'
    BY <2>1, CreateKept
  <2>2. ASSUME NEW t \in Tasks, NEW s \in Status, Move(t, s) PROVE WholeInv'
    BY <2>2, MoveKept
  <2>3. ASSUME NEW t \in Tasks, Focus(t) \/ Unfocus(t) PROVE WholeInv'
    BY <2>3, FocusKept
  <2>4. ASSUME NEW t \in Tasks, Delete(t) PROVE WholeInv'
    BY <2>4, DeleteKept
  <2>5. ASSUME NEW p \in Projects, Archive(p) PROVE WholeInv'
    BY <2>5, AsideKept DEF Archive
  <2>6. ASSUME Pass PROVE WholeInv'
    BY <2>6, PassKept
  <2>7. ASSUME UNCHANGED historyVars PROVE WholeInv'
    BY <2>7, AsideKept DEF historyVars
  <2> QED BY <2>1, <2>2, <2>3, <2>4, <2>5, <2>6, <2>7 DEF HistoryNext
<1> QED BY <1>1, WholeStart, TimeInvariant, PTL DEF HistorySpec

(* As many, one for one.                                                   *)
LEMMA OneForOne ==
  ASSUME NEW S, NEW T, IsFiniteSet(S), NEW g \in [S -> T],
         \A x, y \in S : g[x] = g[y] => x = y,
         \A y \in T : \E x \in S : g[x] = y
  PROVE  Cardinality(T) = Cardinality(S)
<1>1. g \in Bijection(S, T)
  BY DEF Bijection, Injection, Surjection, IsInjective
<1> QED BY <1>1, FS_Bijection DEF ExistsBijection

(* The events of some tasks, and those of them that finished it in some    *)
(* time.                                                                   *)
ToldOf(ts) == UNION {{t} \X DOMAIN journal[t] : t \in Live \cap ts}
ToldFinished(ts, times) ==
  {m \in ToldOf(ts) : m[2] \in Finishings(journal[m[1]]) /\ journal[m[1]][m[2]].at \in times}

(* The places of events, one by one.                                       *)
LEMMA ToldIs ==
  ASSUME NEW ts
  PROVE  /\ \A m \in ToldOf(ts) : /\ m[1] \in Live \cap ts /\ m[2] \in DOMAIN journal[m[1]]
                                  /\ m = <<m[1], m[2]>>
         /\ \A t \in Live \cap ts : \A i \in DOMAIN journal[t] : <<t, i>> \in ToldOf(ts)
<1>1. ASSUME NEW m \in ToldOf(ts)
      PROVE  m[1] \in Live \cap ts /\ m[2] \in DOMAIN journal[m[1]] /\ m = <<m[1], m[2]>>
  <2>1. PICK t \in Live \cap ts : m \in {t} \X DOMAIN journal[t]
    BY DEF ToldOf
  <2>2. m[1] = t /\ m[2] \in DOMAIN journal[t] /\ m = <<m[1], m[2]>>
    BY <2>1
  <2> QED BY <2>2
<1>2. ASSUME NEW t \in Live \cap ts, NEW i \in DOMAIN journal[t] PROVE <<t, i>> \in ToldOf(ts)
  <2>1. <<t, i>> \in {t} \X DOMAIN journal[t]
    OBVIOUS
  <2> QED BY <2>1 DEF ToldOf
<1> QED BY <1>1, <1>2

(* There are finitely many.                                                *)
LEMMA ToldFinite ==
  ASSUME WholeInv, NEW ts
  PROVE  IsFiniteSet(ToldOf(ts))
<1> DEFINE of == [t \in Live \cap ts |-> {t} \X DOMAIN journal[t]]
           sets == {{t} \X DOMAIN journal[t] : t \in Live \cap ts}
<1>1. IsFiniteSet(Live \cap ts)
  <2>1. Live \cap ts \in SUBSET Live
    OBVIOUS
  <2> QED BY <2>1, FS_Subset DEF WholeInv
<1>2. of \in Surjection(Live \cap ts, sets)
  BY DEF Surjection
<1>3. IsFiniteSet(sets)
  <2> HIDE DEF of, sets
  <2> QED BY <1>1, <1>2, FS_Surjection
<1>4. ASSUME NEW T \in sets PROVE IsFiniteSet(T)
  <2>1. PICK t \in Live \cap ts : T = {t} \X DOMAIN journal[t]
    OBVIOUS
  <2>2. journal[t] \in Seq(Happening)
    BY DEF WholeInv, Whole, Recorded
  <2>3. IsFiniteSet(DOMAIN journal[t])
    <3>1. PICK n \in Nat : DOMAIN journal[t] = 1 .. n
      BY <2>2
    <3> QED BY <3>1, FS_Interval
  <2>4. IsFiniteSet({t})
    BY FS_Singleton
  <2> QED BY <2>1, <2>3, <2>4, FS_Product
<1> HIDE DEF sets
<1>5. IsFiniteSet(UNION sets)
  BY <1>3, <1>4, FS_UNION
<1> QED BY <1>5 DEF ToldOf, sets

(* The journals tell of as many finishings as there really were.           *)
LEMMA AsManyTold ==
  ASSUME WholeInv, NEW ts, NEW times
  PROVE  /\ Cardinality(ToldFinished(ts, times)) = ReallyFinished(ts, times)
         /\ IsFiniteSet(ToldFinished(ts, times))
<1> DEFINE B(t) == CHOOSE b \in Bijection(Finishings(journal[t]), DOMAIN finished[t]) :
                     \A i \in Finishings(journal[t]) : journal[t][i].at = finished[t][b[i]]
           really == {f \in UNION {{t} \X DOMAIN finished[t] : t \in Live \cap ts} :
                        finished[f[1]][f[2]] \in times}
           told == ToldFinished(ts, times)
           g == [m \in told |-> <<m[1], B(m[1])[m[2]]>>]
<1>1. IsFiniteSet(told)
  <2>1. told \in SUBSET ToldOf(ts)
    BY DEF ToldFinished
  <2> QED BY <2>1, ToldFinite, FS_Subset
<1>2. ASSUME NEW t \in Live
      PROVE  /\ B(t) \in [Finishings(journal[t]) -> DOMAIN finished[t]]
             /\ \A x, y \in Finishings(journal[t]) : B(t)[x] = B(t)[y] => x = y
             /\ \A y \in DOMAIN finished[t] : \E x \in Finishings(journal[t]) : B(t)[x] = y
             /\ \A i \in Finishings(journal[t]) : journal[t][i].at = finished[t][B(t)[i]]
             /\ Finishings(journal[t]) \subseteq DOMAIN journal[t]
  <2>1. Matched(journal[t], finished[t])
    BY DEF WholeInv, Whole, Recorded
  <2>2. /\ B(t) \in Bijection(Finishings(journal[t]), DOMAIN finished[t])
        /\ \A i \in Finishings(journal[t]) : journal[t][i].at = finished[t][B(t)[i]]
    BY <2>1 DEF Matched
  <2> HIDE DEF B
  <2>3. Finishings(journal[t]) \subseteq DOMAIN journal[t]
    BY DEF Finishings
  <2> QED BY <2>2, <2>3 DEF Bijection, Injection, Surjection, IsInjective
<1> HIDE DEF B
<1>3. ASSUME NEW m \in told
      PROVE  /\ m[1] \in Live \cap ts /\ m[2] \in Finishings(journal[m[1]]) /\ m = <<m[1], m[2]>>
             /\ journal[m[1]][m[2]].at \in times
  BY ToldIs DEF ToldFinished
<1>4. ASSUME NEW t \in Live \cap ts, NEW i \in Finishings(journal[t]), journal[t][i].at \in times
      PROVE  <<t, i>> \in told
  <2>1. <<t, i>> \in ToldOf(ts)
    BY <1>2, ToldIs
  <2>2. <<t, i>>[1] = t /\ <<t, i>>[2] = i
    OBVIOUS
  <2> QED BY <1>4, <2>1, <2>2 DEF ToldFinished
<1>5. \A f \in really : /\ f[1] \in Live \cap ts /\ f[2] \in DOMAIN finished[f[1]] /\ f = <<f[1], f[2]>>
                        /\ finished[f[1]][f[2]] \in times
  <2>1. ASSUME NEW f \in really
        PROVE  /\ f[1] \in Live \cap ts /\ f[2] \in DOMAIN finished[f[1]] /\ f = <<f[1], f[2]>>
               /\ finished[f[1]][f[2]] \in times
    <3>1. PICK t \in Live \cap ts : f \in {t} \X DOMAIN finished[t]
      OBVIOUS
    <3>2. f[1] = t /\ f[2] \in DOMAIN finished[t] /\ f = <<f[1], f[2]>> /\ finished[f[1]][f[2]] \in times
      BY <3>1
    <3> QED BY <3>2
  <2> QED BY <2>1
<1>6. ASSUME NEW t \in Live \cap ts, NEW k \in DOMAIN finished[t], finished[t][k] \in times
      PROVE  <<t, k>> \in really
  <2>1. <<t, k>> \in {t} \X DOMAIN finished[t] /\ <<t, k>>[1] = t /\ <<t, k>>[2] = k
    OBVIOUS
  <2> QED BY <1>6, <2>1
<1> HIDE DEF told, really
<1>7. ASSUME NEW m \in told PROVE g[m] \in really
  <2>1. PICK t, i : /\ t \in Live \cap ts /\ i \in Finishings(journal[t])
                    /\ m = <<t, i>> /\ journal[t][i].at \in times
    BY <1>3
  <2>2. B(t)[i] \in DOMAIN finished[t] /\ finished[t][B(t)[i]] \in times
    BY <1>2, <2>1
  <2>3. g[m] = <<t, B(t)[i]>>
    BY <2>1
  <2>4. <<t, B(t)[i]>> \in really
    BY <1>6, <2>1, <2>2
  <2> QED BY <2>3, <2>4
<1>8. g \in [told -> really]
  BY <1>7
<1>9. ASSUME NEW x \in told, NEW y \in told, g[x] = g[y] PROVE x = y
  <2>1. <<x[1], B(x[1])[x[2]]>> = <<y[1], B(y[1])[y[2]]>>
    BY <1>9
  <2>2. x[1] = y[1] /\ B(x[1])[x[2]] = B(x[1])[y[2]]
    BY <2>1
  <2>3. /\ x[1] \in Live /\ x[2] \in Finishings(journal[x[1]]) /\ x = <<x[1], x[2]>>
        /\ y[2] \in Finishings(journal[x[1]]) /\ y = <<x[1], y[2]>>
    BY <1>3, <2>2
  <2>4. x[2] = y[2]
    BY <1>2, <2>2, <2>3
  <2> QED BY <2>3, <2>4
<1>10. ASSUME NEW f \in really PROVE \E m \in told : g[m] = f
  <2>1. PICK t, k : /\ t \in Live \cap ts /\ k \in DOMAIN finished[t]
                    /\ f = <<t, k>> /\ finished[t][k] \in times
    BY <1>5
  <2>2. PICK i \in Finishings(journal[t]) : B(t)[i] = k
    BY <1>2, <2>1
  <2>3. <<t, i>> \in told
    <3>1. journal[t][i].at \in times
      BY <1>2, <2>1, <2>2
    <3> QED BY <1>4, <2>1, <3>1
  <2>4. g[<<t, i>>] = <<t, k>>
    <3>1. g[<<t, i>>] = <<t, B(t)[i]>>
      BY <2>3
    <3> QED BY <2>2, <3>1
  <2> QED BY <2>1, <2>3, <2>4
<1> HIDE DEF g
<1>11. Cardinality(really) = Cardinality(told)
  BY <1>1, <1>8, <1>9, <1>10, OneForOne
<1> QED BY <1>1, <1>11 DEF ReallyFinished, told, really

(* Whole days.                                                             *)
LEMMA DaysAre ==
  ASSUME NEW k \in Int, NEW x \in Int
  PROVE  /\ (k * Day) \div Day = k /\ x \div Day \in Int
         /\ x >= k * Day <=> x \div Day >= k
<1>1. Day \in Nat \ {0}
  BY HistoryAssumption
<1> DEFINE q == x \div Day
<1>2. (k * Day) \div Day = k
  BY <1>1
<1>3. q \in Int /\ q * Day <= x /\ x < q * Day + Day
  BY <1>1
<1> HIDE DEF q
<1>4. x >= k * Day <=> q >= k
  <2>1. ASSUME q >= k PROVE x >= k * Day
    <3>1. q * Day >= k * Day
      BY <1>1, <1>3, <2>1
    <3> QED BY <1>1, <1>3, <3>1
  <2>2. ASSUME x >= k * Day PROVE q >= k
    <3>1. k * Day < q * Day + Day
      BY <1>1, <1>3, <2>2
    <3> QED BY <1>1, <1>3, <3>1
  <2> QED BY <2>1, <2>2
<1> QED BY <1>2, <1>3, <1>4 DEF q

(* A range begins with a day of the caller's calendar.                     *)
LEMMA RangeIs ==
  ASSUME moment \in Nat, NEW days \in WindowDays \cup {0}, NEW tz \in Offsets
  PROVE  LET today == (moment + tz) \div Day
         IN /\ today \in Int /\ days \in Nat /\ dayIndex(moment, tz) = today
            /\ dayIndex(historyRangeStart(days, tz), tz) = today - days + 1
            /\ \A at \in 0 .. moment :
                 /\ InRange(at, days, tz) <=> at \in Covered(days, tz)
                 /\ at \in Covered(days, tz) <=> days = 0 \/ dayIndex(at, tz) > today - days
                 /\ dayIndex(at, tz) \in Int
<1> DEFINE today == (moment + tz) \div Day
           k == today - (days - 1)
<1>1. tz \in Int /\ days \in Nat /\ Day \in Nat \ {0} /\ moment + tz \in Int
  <2>1. Offsets \subseteq -Day .. Day /\ Day \in Nat \ {0} /\ WindowDays \subseteq Nat \ {0}
    BY HistoryAssumption
  <2> QED BY <2>1
<1>2. today \in Int
  BY <1>1, DaysAre
<1>3. dayIndex(moment, tz) = today
  BY DEF dayIndex
<1>4. historyRangeStart(days, tz) = k * Day - tz
  BY <1>3 DEF historyRangeStart
<1> HIDE DEF today
<1>5. k \in Int /\ k = today - days + 1
  BY <1>1, <1>2
<1> HIDE DEF k
<1>6. dayIndex(historyRangeStart(days, tz), tz) = k
  <2>1. (k * Day - tz) + tz = k * Day
    BY <1>1, <1>5
  <2> QED BY <1>4, <1>5, <2>1, DaysAre DEF dayIndex
<1>7. ASSUME NEW at \in 0 .. moment
      PROVE  /\ InRange(at, days, tz) <=> at \in Covered(days, tz)
             /\ at \in Covered(days, tz) <=> days = 0 \/ dayIndex(at, tz) > today - days
             /\ dayIndex(at, tz) \in Int
  <2>1. at \in Int /\ at + tz \in Int
    BY <1>1
  <2>2. dayIndex(at, tz) = (at + tz) \div Day
    BY DEF dayIndex
  <2>3. PICK d : d = (at + tz) \div Day
    OBVIOUS
  <2>4. d \in Int /\ (at + tz >= k * Day <=> d >= k)
    BY <1>5, <2>1, <2>3, DaysAre
  <2>5. at >= k * Day - tz <=> at + tz >= k * Day
    <3>1. PICK a \in Int : a = k * Day
      BY <1>1, <1>5
    <3>2. at >= a - tz <=> at + tz >= a
      BY <1>1, <2>1, <3>1
    <3> QED BY <3>1, <3>2
  <2>6. d >= k <=> d > today - days
    BY <1>1, <1>2, <1>5, <2>4
  <2>7. InRange(at, days, tz) <=> days = 0 \/ at >= k * Day - tz
    BY <1>4 DEF InRange
  <2>8. at \in Covered(days, tz) <=> days = 0 \/ d > today - days
    BY <2>3 DEF Covered, today
  <2> QED BY <2>2, <2>3, <2>4, <2>5, <2>6, <2>7, <2>8
<1> QED BY <1>1, <1>2, <1>3, <1>5, <1>6, <1>7 DEF today

(* The events of a live task's journal.                                    *)
LEMMA JournalIs ==
  ASSUME TimeInv, WholeInv, NEW t \in Live, NEW i \in DOMAIN journal[t]
  PROVE  /\ journal[t][i].at \in 0 .. moment
         /\ journal[t][i].kind = "created" <=> i = 1
         /\ 1 \in DOMAIN journal[t] /\ journal[t][1].at = taskRow[t].born
<1>1. Recorded(journal[t], finished[t], taskRow[t].born, moment)
  BY DEF WholeInv, Whole
<1>2. journal[t] \in Seq(Happening) /\ journal[t] # <<>> /\ moment \in Nat
  BY <1>1, TimeShape DEF Recorded
<1>3. journal[t][i] \in Happening /\ 1 \in DOMAIN journal[t]
  BY <1>2
<1>4. journal[t][i].at \in Nat
  BY <1>3 DEF Happening
<1> QED BY <1>1, <1>2, <1>3, <1>4 DEF Recorded

(* The rows of the query: the openings and the finishings that it covers.  *)
LEMMA MovementsAre ==
  ASSUME TimeInv, WholeInv, NEW days \in WindowDays \cup {0}, NEW tz \in Offsets
  PROVE  /\ Movements(days, tz) =
              {m \in ToldOf(Tasks) : /\ m[2] = 1 \/ m[2] \in Finishings(journal[m[1]])
                                     /\ journal[m[1]][m[2]].at \in Covered(days, tz)}
         /\ Closings(Movements(days, tz)) = ToldFinished(Tasks, Covered(days, tz))
<1>1. Live \cap Tasks = Live /\ moment \in Nat
  BY TimeShape DEF Live
<1>2. UNION {{t} \X DOMAIN journal[t] : t \in Live} = ToldOf(Tasks)
  BY <1>1 DEF ToldOf
<1>3. ASSUME NEW m \in ToldOf(Tasks)
      PROVE  /\ m[1] \in Live /\ m[2] \in DOMAIN journal[m[1]]
             /\ journal[m[1]][m[2]].at \in 0 .. moment
             /\ journal[m[1]][m[2]].kind = "created" <=> m[2] = 1
             /\ m[2] \in Finishings(journal[m[1]]) <=>
                  journal[m[1]][m[2]].kind = "status" /\ journal[m[1]][m[2]].to = "done"
             /\ InRange(journal[m[1]][m[2]].at, days, tz) <=> journal[m[1]][m[2]].at \in Covered(days, tz)
  <2>1. m[1] \in Live /\ m[2] \in DOMAIN journal[m[1]]
    BY <1>1, ToldIs
  <2>2. /\ journal[m[1]][m[2]].at \in 0 .. moment
        /\ journal[m[1]][m[2]].kind = "created" <=> m[2] = 1
    BY <2>1, JournalIs
  <2>3. PICK at \in 0 .. moment : at = journal[m[1]][m[2]].at
    BY <2>2
  <2>4. InRange(at, days, tz) <=> at \in Covered(days, tz)
    BY <1>1, RangeIs
  <2>5. m[2] \in Finishings(journal[m[1]]) <=>
          journal[m[1]][m[2]].kind = "status" /\ journal[m[1]][m[2]].to = "done"
    BY <2>1 DEF Finishings
  <2> QED BY <2>1, <2>2, <2>3, <2>4, <2>5
<1>4. Movements(days, tz) =
        {m \in ToldOf(Tasks) : /\ m[2] = 1 \/ m[2] \in Finishings(journal[m[1]])
                               /\ journal[m[1]][m[2]].at \in Covered(days, tz)}
  <2>1. Movements(days, tz) =
          {m \in ToldOf(Tasks) :
             /\ \/ journal[m[1]][m[2]].kind = "created"
                \/ journal[m[1]][m[2]].kind = "status" /\ journal[m[1]][m[2]].to = "done"
             /\ InRange(journal[m[1]][m[2]].at, days, tz)}
    BY <1>2 DEF Movements
  <2> QED BY <1>3, <2>1
<1>5. Closings(Movements(days, tz)) = ToldFinished(Tasks, Covered(days, tz))
  <2>1. \A m \in ToldOf(Tasks) : m[2] \in Finishings(journal[m[1]]) => journal[m[1]][m[2]].kind # "created"
    BY <1>3
  <2> QED BY <1>3, <1>4, <2>1 DEF Closings, ToldFinished
<1> QED BY <1>4, <1>5

(* The bars.                                                               *)
LEMMA BarsTrue ==
  ASSUME TimeInv, WholeInv, NEW days \in WindowDays \cup {0}, NEW tz \in Offsets
  PROVE  LET today == (moment + tz) \div Day
             bars == countByDay(Closings(Movements(days, tz)), days, tz)
         IN /\ days # 0 => DOMAIN bars = (today - days + 1) .. today
            /\ \A d \in DOMAIN bars :
                 bars[d] = ReallyFinished(Tasks, {at \in 0 .. moment : (at + tz) \div Day = d})
<1> DEFINE today == (moment + tz) \div Day
           closings == ToldFinished(Tasks, Covered(days, tz))
           dayOf(m) == dayIndex(journal[m[1]][m[2]].at, tz)
           axis == IF days = 0 THEN {dayOf(m) : m \in closings}
                   ELSE dayIndex(historyRangeStart(days, tz), tz) .. dayIndex(moment, tz)
           bars == countByDay(closings, days, tz)
<1>1. Closings(Movements(days, tz)) = closings
  BY MovementsAre
<1>2. bars = [d \in axis |-> Cardinality({m \in closings : dayOf(m) = d})]
  BY DEF countByDay
<1>3. moment \in Nat
  BY TimeShape
<1>4. /\ today \in Int /\ days \in Nat /\ dayIndex(moment, tz) = today
      /\ dayIndex(historyRangeStart(days, tz), tz) = today - days + 1
      /\ \A at \in 0 .. moment :
           /\ at \in Covered(days, tz) <=> days = 0 \/ dayIndex(at, tz) > today - days
           /\ dayIndex(at, tz) \in Int
  BY <1>3, RangeIs
<1> HIDE DEF today, bars
<1>5. days # 0 => axis = (today - days + 1) .. today
  BY <1>4
<1>6. ASSUME NEW d \in axis
      PROVE  bars[d] = ReallyFinished(Tasks, {at \in 0 .. moment : (at + tz) \div Day = d})
  <2> DEFINE times == {at \in 0 .. moment : (at + tz) \div Day = d}
  <2>1. \A at \in 0 .. moment : at \in times <=> dayIndex(at, tz) = d
    BY DEF dayIndex
  <2>2. times \subseteq 0 .. moment
    OBVIOUS
  <2>3. \A at \in 0 .. moment : at \in Covered(days, tz) /\ dayIndex(at, tz) = d <=> at \in times
    <3>1. CASE days = 0
      BY <1>4, <2>1, <3>1
    <3>2. CASE days # 0
      <4>1. d > today - days
        BY <1>4, <1>5, <3>2
      <4> QED BY <1>4, <2>1, <4>1
    <3> QED BY <3>1, <3>2
  <2> HIDE DEF times
  <2>4. \A m \in ToldOf(Tasks) : journal[m[1]][m[2]].at \in 0 .. moment
    <3>1. ASSUME NEW m \in ToldOf(Tasks) PROVE journal[m[1]][m[2]].at \in 0 .. moment
      <4>1. m[1] \in Live /\ m[2] \in DOMAIN journal[m[1]]
        BY ToldIs
      <4> QED BY <4>1, JournalIs
    <3> QED BY <3>1
  <2>5. {m \in closings : dayOf(m) = d} = ToldFinished(Tasks, times)
    BY <2>3, <2>4 DEF ToldFinished
  <2>6. Cardinality(ToldFinished(Tasks, times)) = ReallyFinished(Tasks, times)
    BY AsManyTold
  <2> QED BY <1>2, <2>5, <2>6 DEF times
<1>7. DOMAIN bars = axis
  BY <1>2
<1> HIDE DEF axis
<1> QED BY <1>1, <1>5, <1>6, <1>7 DEF today, bars

(* The block of projects.                                                  *)
LEMMA ProjectsTrue ==
  ASSUME TimeInv, WholeInv, NEW days \in WindowDays \cup {0}, NEW tz \in Offsets, NEW p \in Projects
  PROVE  LET moved == byProject(Movements(days, tz))
             ofP == {t \in Tasks : HomeOf[t] = p}
             born == {t \in ofP \cap Live : taskRow[t].born \in Covered(days, tz)}
             closed == ReallyFinished(ofP, Covered(days, tz))
         IN IF p \in DOMAIN moved
            THEN moved[p] = [opened |-> Cardinality(born), closed |-> closed]
            ELSE born = {} /\ closed = 0
<1> DEFINE movements == Movements(days, tz)
           covered == Covered(days, tz)
           moved == byProject(movements)
           ofP == {t \in Tasks : HomeOf[t] = p}
           born == {t \in ofP \cap Live : taskRow[t].born \in covered}
           closed == ReallyFinished(ofP, covered)
           here == {m \in movements : HomeOf[m[1]] = p}
           opened == here \ Closings(here)
<1>1. /\ movements = {m \in ToldOf(Tasks) : /\ m[2] = 1 \/ m[2] \in Finishings(journal[m[1]])
                                           /\ journal[m[1]][m[2]].at \in covered}
      /\ Closings(movements) = ToldFinished(Tasks, covered)
  BY MovementsAre
<1>2. /\ p \in DOMAIN moved <=> here # {}
      /\ p \in DOMAIN moved => moved[p] = [opened |-> Cardinality(opened), closed |-> Cardinality(Closings(here))]
  <2>1. moved = [q \in {HomeOf[m[1]] : m \in movements} |->
                   [opened |-> Cardinality({m \in movements : HomeOf[m[1]] = q}
                                             \ Closings({m \in movements : HomeOf[m[1]] = q})),
                    closed |-> Cardinality(Closings({m \in movements : HomeOf[m[1]] = q}))]]
    BY DEF byProject
  <2> HIDE DEF movements, moved
  <2>2. DOMAIN moved = {HomeOf[m[1]] : m \in movements}
    BY <2>1
  <2>3. p \in DOMAIN moved <=> here # {}
    BY <2>2
  <2> QED BY <2>1, <2>2, <2>3
<1> HIDE DEF movements, covered, moved
<1>3. Live \subseteq Tasks /\ ofP \subseteq Tasks
  BY DEF Live
<1>4. Closings(here) = ToldFinished(ofP, covered)
  <2>1. Closings(here) = {m \in Closings(movements) : HomeOf[m[1]] = p}
    BY DEF Closings
  <2>2. \A m \in ToldFinished(Tasks, covered) : HomeOf[m[1]] = p => m \in ToldFinished(ofP, covered)
    <3>1. ASSUME NEW m \in ToldFinished(Tasks, covered), HomeOf[m[1]] = p
          PROVE  m \in ToldFinished(ofP, covered)
      <4>1. m \in ToldOf(Tasks) /\ m[2] \in Finishings(journal[m[1]]) /\ journal[m[1]][m[2]].at \in covered
        BY DEF ToldFinished
      <4>2. m[1] \in Live \cap ofP /\ m[2] \in DOMAIN journal[m[1]] /\ m = <<m[1], m[2]>>
        BY <1>3, <3>1, <4>1, ToldIs
      <4>3. m \in ToldOf(ofP)
        <5>1. PICK t, i : t = m[1] /\ i = m[2]
          OBVIOUS
        <5>2. <<t, i>> \in ToldOf(ofP)
          BY <4>2, <5>1, ToldIs
        <5> QED BY <4>2, <5>1, <5>2
      <4> QED BY <4>1, <4>3 DEF ToldFinished
    <3> QED BY <3>1
  <2>3. \A m \in ToldFinished(ofP, covered) : m \in ToldFinished(Tasks, covered) /\ HomeOf[m[1]] = p
    <3>1. ASSUME NEW m \in ToldFinished(ofP, covered)
          PROVE  m \in ToldFinished(Tasks, covered) /\ HomeOf[m[1]] = p
      <4>1. m \in ToldOf(ofP) /\ m[2] \in Finishings(journal[m[1]]) /\ journal[m[1]][m[2]].at \in covered
        BY DEF ToldFinished
      <4>2. m[1] \in Live \cap ofP /\ m[2] \in DOMAIN journal[m[1]] /\ m = <<m[1], m[2]>>
        BY <4>1, ToldIs
      <4>3. m \in ToldOf(Tasks)
        <5>1. PICK t, i : t = m[1] /\ i = m[2]
          OBVIOUS
        <5>2. <<t, i>> \in ToldOf(Tasks)
          BY <1>3, <4>2, <5>1, ToldIs
        <5> QED BY <4>2, <5>1, <5>2
      <4> QED BY <4>1, <4>2, <4>3 DEF ToldFinished
    <3> QED BY <3>1
  <2> QED BY <1>1, <2>1, <2>2, <2>3
<1>5. Cardinality(Closings(here)) = closed
  BY <1>4, AsManyTold
<1>6. ASSUME NEW m \in opened
      PROVE  m[2] = 1 /\ m[1] \in born /\ m = <<m[1], 1>>
  <2>1. /\ m \in ToldOf(Tasks) /\ HomeOf[m[1]] = p /\ journal[m[1]][m[2]].at \in covered
        /\ m[2] = 1 \/ m[2] \in Finishings(journal[m[1]])
    BY <1>1
  <2>2. journal[m[1]][m[2]].kind = "created"
    BY DEF Closings
  <2>3. m[1] \in Live /\ m[2] \in DOMAIN journal[m[1]] /\ m = <<m[1], m[2]>>
    BY <1>3, <2>1, ToldIs
  <2>4. m[2] = 1 /\ journal[m[1]][1].at = taskRow[m[1]].born
    BY <2>2, <2>3, JournalIs
  <2> QED BY <1>3, <2>1, <2>3, <2>4
<1>7. ASSUME NEW t \in born PROVE <<t, 1>> \in opened
  <2>1. t \in Live /\ t \in Tasks /\ HomeOf[t] = p /\ taskRow[t].born \in covered
    OBVIOUS
  <2>2. 1 \in DOMAIN journal[t] /\ journal[t][1].at = taskRow[t].born /\ journal[t][1].kind = "created"
    <3>1. Recorded(journal[t], finished[t], taskRow[t].born, moment)
      BY <2>1 DEF WholeInv, Whole
    <3>2. journal[t] \in Seq(Happening) /\ journal[t] # <<>>
      BY <3>1 DEF Recorded
    <3> QED BY <3>1, <3>2 DEF Recorded
  <2>3. <<t, 1>> \in ToldOf(Tasks) /\ <<t, 1>>[1] = t /\ <<t, 1>>[2] = 1
    <3>1. t \in Live \cap Tasks
      BY <2>1
    <3> QED BY <2>2, <3>1, ToldIs
  <2>4. <<t, 1>> \in here
    BY <1>1, <2>1, <2>2, <2>3
  <2>5. <<t, 1>> \notin Closings(here)
    BY <2>2, <2>3 DEF Closings
  <2> QED BY <2>4, <2>5
<1>8. Cardinality(opened) = Cardinality(born)
  <2> DEFINE g == [t \in born |-> <<t, 1>>]
  <2>1. IsFiniteSet(born)
    <3>1. born \in SUBSET Live
      OBVIOUS
    <3> QED BY <3>1, FS_Subset DEF WholeInv
  <2> HIDE DEF born, opened
  <2>2. g \in [born -> opened]
    BY <1>7
  <2>3. \A x, y \in born : g[x] = g[y] => x = y
    OBVIOUS
  <2>4. ASSUME NEW m \in opened PROVE \E t \in born : g[t] = m
    <3>1. m[1] \in born /\ m = <<m[1], 1>>
      BY <1>6
    <3>2. PICK t \in born : m = <<t, 1>>
      BY <3>1
    <3> QED BY <3>2
  <2> HIDE DEF g
  <2> QED BY <2>1, <2>2, <2>3, <2>4, OneForOne
<1>9. here = {} => born = {} /\ closed = 0
  <2>1. ASSUME here = {} PROVE opened = {} /\ Closings(here) = {}
    BY <2>1 DEF Closings
  <2>2. ASSUME here = {} PROVE born = {}
    <3>1. \A t \in born : FALSE
      BY <1>7, <2>1, <2>2
    <3> QED BY <3>1
  <2>3. Cardinality({}) = 0
    BY FS_EmptySet
  <2> QED BY <1>5, <2>1, <2>2, <2>3
<1> HIDE DEF here, opened, born, closed
<1>10. IF p \in DOMAIN moved
       THEN moved[p] = [opened |-> Cardinality(born), closed |-> closed]
       ELSE born = {} /\ closed = 0
  BY <1>2, <1>5, <1>8, <1>9
<1> QED BY <1>10 DEF moved, movements, covered, born, ofP, closed

(* BarsAddUp, by its two parts.                                            *)
LEMMA BarsAddUpHolds == TimeInv /\ WholeInv => BarsAddUp
<1> SUFFICES ASSUME TimeInv, WholeInv, NEW days \in WindowDays \cup {0}, NEW tz \in Offsets
             PROVE  LET today == (moment + tz) \div Day
                        moved == byProject(Movements(days, tz))
                        bars == countByDay(Closings(Movements(days, tz)), days, tz)
                    IN /\ days # 0 => DOMAIN bars = (today - days + 1) .. today
                       /\ \A d \in DOMAIN bars :
                            bars[d] = ReallyFinished(Tasks, {at \in 0 .. moment : (at + tz) \div Day = d})
                       /\ \A p \in Projects :
                            LET ofP == {t \in Tasks : HomeOf[t] = p}
                                born == {t \in ofP \cap Live : taskRow[t].born \in Covered(days, tz)}
                                closed == ReallyFinished(ofP, Covered(days, tz))
                            IN IF p \in DOMAIN moved
                               THEN moved[p] = [opened |-> Cardinality(born), closed |-> closed]
                               ELSE born = {} /\ closed = 0
  BY DEF BarsAddUp
<1> QED BY BarsTrue, ProjectsTrue

(* An order of a set, the largest first.                                   *)
LargestFirst(s, T, size) ==
  /\ s \in [1 .. Cardinality(T) -> T] /\ {s[i] : i \in DOMAIN s} = T
  /\ \A i, k \in DOMAIN s : i < k => size[s[i]] >= size[s[k]]

(* Every finite set has one: by the smallest that had none, whose smallest *)
(* member goes last.                                                       *)
LEMMA OrderExists ==
  ASSUME NEW U, NEW size \in [U -> Nat], NEW T \in SUBSET U, IsFiniteSet(T)
  PROVE  \E s : LargestFirst(s, T, size)
<1> DEFINE NoOrder(V, n) == IsFiniteSet(V) /\ Cardinality(V) = n /\ ~ \E s : LargestFirst(s, V, size)
           Bad == {n \in Nat : \E V \in SUBSET U : NoOrder(V, n)}
<1>1. SUFFICES ASSUME ~ \E s : LargestFirst(s, T, size) PROVE FALSE
  OBVIOUS
<1>2. Bad # {} /\ Bad \in SUBSET Nat
  <2>1. Cardinality(T) \in Nat
    BY FS_CardinalityType
  <2>2. NoOrder(T, Cardinality(T))
    BY <1>1
  <2>3. Cardinality(T) \in Bad
    BY <2>1, <2>2
  <2> QED BY <2>3
<1>3. PICK n \in Bad : \A k \in Bad : n <= k
  <2> HIDE DEF Bad
  <2> QED BY <1>2, Least
<1>4. PICK V \in SUBSET U : NoOrder(V, n)
  OBVIOUS
<1>5. IsFiniteSet(V) /\ Cardinality(V) = n /\ n \in Nat /\ ~ \E s : LargestFirst(s, V, size)
  BY <1>4
<1>6. CASE V = {}
  <2> DEFINE s == [i \in 1 .. 0 |-> 0]
  <2>1. Cardinality(V) = 0
    BY <1>6, FS_EmptySet
  <2>2. DOMAIN s = {} /\ s \in [1 .. 0 -> V]
    OBVIOUS
  <2> HIDE DEF s
  <2>3. LargestFirst(s, V, size)
    BY <1>6, <2>1, <2>2 DEF LargestFirst
  <2> QED BY <1>5, <2>3
<1>7. CASE V # {}
  <2>1. PICK x \in V : \A y \in V : size[x] <= size[y]
    <3> DEFINE sizes == {size[y] : y \in V}
    <3>1. sizes \in SUBSET Nat /\ sizes # {}
      BY <1>7
    <3>2. PICK m \in sizes : \A k \in sizes : m <= k
      <4> HIDE DEF sizes
      <4> QED BY <3>1, Least
    <3> QED BY <3>2
  <2> DEFINE W == V \ {x}
  <2>2. IsFiniteSet(W) /\ Cardinality(W) = n - 1 /\ W \in SUBSET U
    BY <1>5, <2>1, FS_RemoveElement
  <2>3. n - 1 \in Nat
    <3>1. Cardinality(W) \in Nat
      BY <2>2, FS_CardinalityType
    <3> QED BY <2>2, <3>1
  <2>4. PICK r : LargestFirst(r, W, size)
    <3>1. n - 1 \notin Bad
      BY <1>3, <1>5, <2>3
    <3>2. ~ NoOrder(W, n - 1)
      <4> HIDE DEF W, NoOrder
      <4> QED BY <2>2, <2>3, <3>1
    <3> QED BY <2>2, <3>2
  <2>5. /\ r \in [1 .. n - 1 -> W] /\ {r[i] : i \in DOMAIN r} = W
        /\ \A i, k \in 1 .. n - 1 : i < k => size[r[i]] >= size[r[k]]
    BY <2>2, <2>4 DEF LargestFirst
  <2> DEFINE s == [i \in 1 .. n |-> IF i = n THEN x ELSE r[i]]
  <2>6. 1 .. n = (1 .. n - 1) \cup {n} /\ n \notin 1 .. n - 1
    BY <2>3
  <2>7. s[n] = x /\ \A i \in 1 .. n - 1 : s[i] = r[i] /\ r[i] \in W
    BY <2>5, <2>6
  <2>8. DOMAIN s = 1 .. n
    OBVIOUS
  <2>9. s \in [1 .. n -> V]
    BY <2>1, <2>5, <2>6
  <2> HIDE DEF s
  <2>10. {s[i] : i \in DOMAIN s} = V
    <3>1. ASSUME NEW y \in V PROVE \E i \in 1 .. n : s[i] = y
      <4>1. CASE y = x
        BY <2>6, <2>7, <4>1
      <4>2. CASE y # x
        <5>1. PICK i \in DOMAIN r : r[i] = y
          BY <2>5, <4>2
        <5> QED BY <2>5, <2>6, <2>7, <5>1
      <4> QED BY <4>1, <4>2
    <3> QED BY <2>8, <2>9, <3>1
  <2>11. \A i, k \in 1 .. n : i < k => size[s[i]] >= size[s[k]]
    <3>1. ASSUME NEW i \in 1 .. n, NEW k \in 1 .. n, i < k PROVE size[s[i]] >= size[s[k]]
      <4>1. i \in 1 .. n - 1 /\ i # n
        BY <2>3, <3>1
      <4>2. CASE k = n
        <5>1. s[k] = x /\ s[i] \in V /\ size[x] \in Nat /\ size[s[i]] \in Nat
          BY <2>1, <2>7, <2>9, <4>2
        <5> QED BY <2>1, <5>1
      <4>3. CASE k # n
        <5>1. k \in 1 .. n - 1
          BY <2>6, <4>3
        <5> QED BY <2>5, <2>7, <3>1, <4>1, <5>1
      <4> QED BY <4>2, <4>3
    <3> QED BY <3>1
  <2>12. LargestFirst(s, V, size)
    BY <1>5, <2>8, <2>9, <2>10, <2>11 DEF LargestFirst
  <2> QED BY <1>5, <2>12
<1> QED BY <1>6, <1>7

(* What hangs longest.                                                     *)
LEMMA LongestHangingHolds == TimeInv /\ WholeInv => LongestHanging
<1> SUFFICES ASSUME TimeInv, WholeInv PROVE LongestHanging
  OBVIOUS
<1>1. \A t \in Live : Age(t) \in Nat /\ ageMs(t) = Age(t)
  <2>1. ASSUME NEW t \in Live PROVE Age(t) \in Nat /\ ageMs(t) = Age(t)
    <3>1. t \in Tasks
      BY DEF Live
    <3>2. spent[t] \in [Status -> Nat] /\ taskRow[t].born \in Nat /\ moment \in Nat
      BY <3>1, TimeShape
    <3>3. Age(t) \in Nat
      BY <3>2 DEF Age, Status
    <3>4. PICK a \in Nat : a = Age(t)
      BY <3>3
    <3>5. a + taskRow[t].born = moment
      BY <3>4 DEF WholeInv, Whole
    <3>6. moment - taskRow[t].born = a /\ moment - taskRow[t].born >= 0 /\ moment - taskRow[t].born \in Int
      BY <3>2, <3>5
    <3>7. Max({0, moment - taskRow[t].born}) = a
      BY <3>6, MaxIs
    <3> QED BY <3>3, <3>4, <3>7 DEF ageMs
  <2> QED BY <2>1
<1>2. Open \in SUBSET Live /\ IsFiniteSet(Open)
  <2>1. Open \in SUBSET Live
    BY DEF Open
  <2> QED BY <2>1, FS_Subset DEF WholeInv
<1>3. \A t \in Live : t \in Open <=> taskRow[t].status # "done" /\ HomeOf[t] \notin archived
  BY DEF Open
<1> DEFINE n == Cardinality(Open)
           Sorted(s) == /\ Range(s) = Open
                        /\ \A i, k \in DOMAIN s : i < k => ageMs(s[i]) >= ageMs(s[k])
           sorted == CHOOSE s \in [1 .. n -> Open] : Sorted(s)
           size == [t \in Live |-> Age(t)]
<1>4. \E s \in [1 .. n -> Open] : Sorted(s)
  <2>1. size \in [Live -> Nat]
    BY <1>1
  <2> HIDE DEF size
  <2>2. PICK s : LargestFirst(s, Open, size)
    BY <1>2, <2>1, OrderExists
  <2>3. s \in [1 .. n -> Open] /\ Range(s) = Open
    BY <2>2 DEF LargestFirst, Range
  <2>4. \A t \in Open : size[t] = ageMs(t)
    BY <1>1, <1>2 DEF size
  <2>5. \A i \in DOMAIN s : s[i] \in Open
    BY <2>3
  <2>6. \A i, k \in DOMAIN s : i < k => ageMs(s[i]) >= ageMs(s[k])
    BY <2>2, <2>4, <2>5 DEF LargestFirst
  <2> QED BY <2>3, <2>6
<1>5. sorted \in [1 .. n -> Open] /\ Sorted(sorted)
  BY <1>4
<1>6. n \in Nat
  BY <1>2, FS_CardinalityType
<1> DEFINE m == Min({StaleLimit, Len(sorted)})
<1>7. stale = SubSeq(sorted, 1, m)
  BY DEF stale
<1> HIDE DEF n, sorted
<1>8. sorted \in Seq(Open) /\ Len(sorted) = n /\ DOMAIN sorted = 1 .. n
  BY <1>5, <1>6
<1>9. m \in 0 .. n /\ (m < n => m = StaleLimit)
  <2>1. StaleLimit \in Nat
    BY HistoryAssumption
  <2>2. {StaleLimit, Len(sorted)} \in SUBSET Nat /\ {StaleLimit, Len(sorted)} # {}
    BY <1>6, <1>8, <2>1
  <2>3. PICK pair : pair = {StaleLimit, Len(sorted)}
    OBVIOUS
  <2>4. Min(pair) \in pair /\ \A k \in pair : Min(pair) <= k
    BY <2>2, <2>3, MinIs
  <2>5. m = Min(pair)
    BY <2>3
  <2> HIDE DEF m
  <2> QED BY <1>6, <1>8, <2>1, <2>3, <2>4, <2>5
<1> HIDE DEF m
<1>10. stale \in Seq(Open) /\ Len(stale) = m /\ DOMAIN stale = 1 .. m /\ \A i \in 1 .. m : stale[i] = sorted[i]
  BY <1>6, <1>7, <1>8, <1>9
<1>11. \A t \in Range(stale) : t \in Open
  BY <1>10 DEF Range
<1>12. ASSUME NEW t \in Open, t \notin Range(stale)
       PROVE  Len(stale) = StaleLimit /\ \A u \in Range(stale) : Age(u) >= Age(t)
  <2>1. PICK k \in 1 .. n : sorted[k] = t
    BY <1>5, <1>8 DEF Range
  <2>2. k \notin 1 .. m
    BY <1>10, <1>12, <2>1 DEF Range
  <2>3. m < k /\ m < n
    BY <1>6, <1>9, <2>2
  <2>4. ASSUME NEW u \in Range(stale) PROVE Age(u) >= Age(t)
    <3>1. PICK i \in 1 .. m : u = sorted[i]
      BY <1>10 DEF Range
    <3>2. i \in 1 .. n /\ i < k
      BY <1>6, <1>9, <2>3
    <3>3. ageMs(sorted[i]) >= ageMs(sorted[k])
      BY <1>5, <1>8, <3>2
    <3>4. u \in Live /\ t \in Live
      BY <1>2, <1>11
    <3> QED BY <1>1, <2>1, <3>1, <3>3, <3>4
  <2> QED BY <1>9, <1>10, <2>3, <2>4
<1> HIDE DEF Sorted
<1> QED BY <1>2, <1>3, <1>11, <1>12 DEF LongestHanging

(* AnswerTrue: what GET /history answers is what happened.                 *)
THEOREM AnswerTrueCorrect == HistorySpec => []AnswerTrue
<1>1. TimeInv /\ WholeInv => AnswerTrue
  BY BarsAddUpHolds, LongestHangingHolds DEF AnswerTrue
<1> QED BY <1>1, TimeInvariant, WholeInvariant, PTL
=============================================================================
