----------------------------- MODULE OpaqueProofs -----------------------------
(***************************************************************************)
(* The login's bookkeeping, for any number of accounts, requests and       *)
(* attempts: one setup, login states that die with their attempt, and one  *)
(* token for a login; and the rate limit, for any window and any number of *)
(* hits.                                                                   *)
(***************************************************************************)
EXTENDS Opaque, SequenceTheorems, FiniteSetTheorems, WellFoundedInduction, TLAPS

USE OpaqueConstants DEF OpaqueConstants

State == Row \cup {NoState}
Point == {"idle", "setup", "make", "store", "register", "start", "load",
          "save", "find", "finish", "mint", "drop"}

\* The types of everything but the clock and the rate limit.
FlightType ==
    /\ setup \in Req \cup {None}
    /\ pc \in [Req -> Point]
    /\ user \in [Req -> User \cup {None}]
    /\ using \in [Req -> Req \cup {None}]
    /\ attempt \in [Req -> Attempt \cup {0}]
    /\ held \in [Req -> State]
    /\ now \in Nat

TableType ==
    /\ loginState \in [User -> State]
    /\ granted \subseteq Attempt
    /\ attempts \in Attempt \cup {0}
    /\ sent \subseteq User \X Attempt
    /\ ended \subseteq Attempt
    /\ successes \in [Attempt -> Nat]

\* Whoever works with a setup works with the stored one.
SetupInv ==
    /\ \A r \in Req : pc[r] = "store" => using[r] = r
    /\ \A r \in Req : pc[r] \in {"register", "start", "load", "save"} =>
         using[r] = setup /\ setup # None
    /\ OneSetup

\* The user a request is about, and what it has in hand.
Placed == \A r \in Req :
    /\ pc[r] \in {"start", "load", "save", "find", "finish", "mint", "drop"} => user[r] \in User
    /\ pc[r] \in {"load", "save"} => attempt[r] \in 1 .. attempts
    /\ pc[r] \in {"idle", "find"} => held[r] = NoState
    /\ pc[r] \in {"finish", "mint"} => held[r] # NoState
    /\ pc[r] \in {"finish", "mint", "drop"} /\ held[r] # NoState =>
         <<user[r], held[r].attempt>> \in sent

\* An attempt belongs to one request until its response is sent, then to one user.
Owned ==
    /\ \A r \in Req, u \in User : pc[r] \in {"load", "save"} => <<u, attempt[r]>> \notin sent
    /\ \A r, o \in Req : /\ pc[r] \in {"load", "save"} /\ pc[o] \in {"load", "save"}
                         /\ attempt[r] = attempt[o]
                         => r = o
    /\ \A u, v \in User, a \in Attempt : <<u, a>> \in sent /\ <<v, a>> \in sent => u = v
    /\ \A u \in User, a \in Attempt : <<u, a>> \in sent => a <= attempts

\* A state in the table is that of an attempt whose response was sent to its
\* user, and so is what was ever answered.
Traced ==
    /\ \A u \in User : loginState[u] # NoState => <<u, loginState[u].attempt>> \in sent
    /\ \A a \in ended : \E u \in User : <<u, a>> \in sent

\* The stored tokens are the successes.
Counted == \A a \in Attempt : successes[a] = IF a \in granted THEN 1 ELSE 0

IInv ==
    /\ FlightType /\ TableType /\ SetupInv
    /\ Placed /\ Owned /\ Traced /\ Counted /\ EndedIsGone

\* Records of states.
LEMMA StateFacts ==
  /\ NoState \in State /\ NoState.attempt = 0 /\ NoState.attempt \notin Attempt
  /\ \A x \in State : x # NoState => x.attempt \in Attempt
  /\ \A a \in Attempt, e \in Nat :
       /\ [attempt |-> a, expires |-> e] \in State
       /\ [attempt |-> a, expires |-> e] # NoState
       /\ [attempt |-> a, expires |-> e].attempt = a
  BY DEF State, Row, NoState, Attempt

LEMMA InitInv == Init => IInv
  <1> SUFFICES ASSUME Init PROVE IInv
    OBVIOUS
  <1>1. FlightType /\ TableType
    BY StateFacts DEF Init, FlightType, TableType, Point
  <1>2. SetupInv /\ Placed /\ Owned
    BY DEF Init, SetupInv, OneSetup, Placed, Owned
  <1>3. Traced /\ Counted /\ EndedIsGone
    BY DEF Init, Traced, Counted, EndedIsGone
  <1> QED
    BY <1>1, <1>2, <1>3 DEF IInv

-----------------------------------------------------------------------------
(* Types.                                                                  *)

\* A request that is done has nothing in hand.
LEMMA DoneFlight ==
  ASSUME FlightType, NEW r \in Req, Done(r), setup' = setup, now' = now
  PROVE  FlightType' /\ pc'[r] = "idle" /\ held'[r] = NoState /\ \A o \in Req \ {r} :
           /\ pc'[o] = pc[o] /\ user'[o] = user[o] /\ using'[o] = using[o]
           /\ attempt'[o] = attempt[o] /\ held'[o] = held[o]
  BY StateFacts DEF FlightType, Done, Goto, Point

LEMMA NextFlight == FlightType /\ TableType /\ Placed /\ [Next]_vars => FlightType'
  <1> SUFFICES ASSUME FlightType, TableType, Placed, [Next]_vars PROVE FlightType'
    OBVIOUS
  <1> USE DEF setups, logins, rate, flight
  <1>1. ASSUME NEW r \in Req, Done(r), setup' = setup, now' = now PROVE FlightType'
    BY <1>1, DoneFlight
  <1>2. ASSUME NEW r \in Req, RegisterStart(r) \/ \E u \in User : LoginStart(r, u)
        PROVE FlightType'
    BY <1>2 DEF RegisterStart, LoginStart, FlightType, Goto, Point
  <1>3. ASSUME NEW r \in Req, NEW u \in User, NEW a \in Attempt, LoginFinish(r, u, a)
        PROVE FlightType'
    BY <1>3 DEF LoginFinish, FlightType, Goto, Point
  <1>4. ASSUME NEW r \in Req, Setting(r) PROVE FlightType'
    <2>1. CASE GetSetup(r)
      BY <2>1 DEF GetSetup, FlightType, Goto, Point, Onward
    <2>2. CASE SetupMade(r)
      BY <2>2 DEF SetupMade, FlightType, Goto, Point
    <2>3. CASE SetupStored(r)
      BY <2>3 DEF SetupStored, FlightType, Goto, Point, Onward
    <2>4. CASE RegisterAnswered(r)
      BY <2>4, <1>1 DEF RegisterAnswered
    <2> QED
      BY <1>4, <2>1, <2>2, <2>3, <2>4 DEF Setting
  <1>5. ASSUME NEW r \in Req, Starting(r) PROVE FlightType'
    <2>1. CASE StartMade(r)
      BY <2>1 DEF StartMade, FlightType, TableType, Goto, Point, Attempt
    <2>2. CASE StartLoad(r)
      BY <2>2 DEF StartLoad, FlightType, TableType, Placed, Goto, Point
    <2>3. CASE StartSave(r)
      BY <2>3, <1>1 DEF StartSave
    <2> QED
      BY <1>5, <2>1, <2>2, <2>3 DEF Starting
  <1>6. ASSUME NEW r \in Req, Finishing(r) PROVE FlightType'
    <2>1. CASE FinishNoState(r) \/ FinishDropped(r) \/ FinishMinted(r)
      BY <2>1, <1>1 DEF FinishNoState, FinishDropped, FinishMinted
    <2>2. CASE FinishFound(r)
      BY <2>2 DEF FinishFound, FlightType, TableType, Placed, Goto, Point
    <2>3. CASE FinishExpired(r) \/ FinishAccepted(r) \/ FinishRejected(r)
      BY <2>3 DEF FinishExpired, FinishAccepted, FinishRejected, FlightType, Goto, Point
    <2> QED
      BY <1>6, <2>1, <2>2, <2>3 DEF Finishing
  <1>7. ASSUME NEW r \in Req, Fail(r) PROVE FlightType'
    BY <1>7, <1>1 DEF Fail
  <1>8. CASE Refuse
    BY <1>8 DEF Refuse, FlightType
  <1>9. CASE Restart
    BY <1>9, StateFacts DEF Restart, FlightType, Point
  <1>10. CASE Tick
    BY <1>10 DEF Tick, FlightType
  <1>11. CASE UNCHANGED vars
    BY <1>11 DEF vars, FlightType
  <1> QED
    BY <1>2, <1>3, <1>4, <1>5, <1>6, <1>7, <1>8, <1>9, <1>10, <1>11 DEF Next

\* The steps that write no table and send no response.
LEMMA Quiet ==
  ASSUME NEW r \in Req,
         \/ RegisterStart(r) \/ \E u \in User : LoginStart(r, u)
         \/ \E u \in User : \E a \in Attempt : LoginFinish(r, u, a)
         \/ GetSetup(r) \/ SetupMade(r) \/ SetupStored(r) \/ RegisterAnswered(r)
         \/ StartLoad(r) \/ FinishNoState(r) \/ FinishExpired(r) \/ FinishFound(r)
         \/ FinishAccepted(r) \/ FinishRejected(r) \/ Fail(r)
  PROVE  UNCHANGED logins
  BY DEF RegisterStart, LoginStart, LoginFinish, GetSetup, SetupMade, SetupStored,
     RegisterAnswered, StartLoad, FinishNoState, FinishExpired, FinishFound,
     FinishAccepted, FinishRejected, Fail, setups, logins, rate

LEMMA NextTable == FlightType /\ TableType /\ Placed /\ [Next]_vars => TableType'
  <1> SUFFICES ASSUME FlightType, TableType, Placed, [Next]_vars PROVE TableType'
    OBVIOUS
  <1>1. ASSUME UNCHANGED logins PROVE TableType'
    BY <1>1 DEF logins, TableType
  <1>2. ASSUME NEW r \in Req, StartMade(r) PROVE TableType'
    BY <1>2 DEF StartMade, TableType, Attempt
  <1>3. ASSUME NEW r \in Req, StartSave(r) PROVE TableType'
    <2>1. user[r] \in User /\ attempt[r] \in Attempt
      <3>1. user[r] \in User /\ attempt[r] \in 1 .. attempts
        BY <1>3 DEF StartSave, Placed
      <3>2. attempts \in Nat /\ attempts <= MaxAttempt
        BY DEF TableType, Attempt
      <3> QED
        BY <3>1, <3>2 DEF Attempt
    <2>3. Expiry \in Nat
      BY DEF FlightType, Expiry
    <2>2. [attempt |-> attempt[r], expires |-> Expiry] \in State
      BY <2>1, <2>3, StateFacts
    <2>4. loginState' \in [User -> State]
      BY <1>3, <2>1, <2>2 DEF StartSave, TableType
    <2>5. sent' \subseteq User \X Attempt
      BY <1>3, <2>1 DEF StartSave, TableType
    <2> QED
      BY <1>3, <2>4, <2>5 DEF StartSave, TableType
  <1>4. ASSUME NEW r \in Req, FinishDropped(r) PROVE TableType'
    <2>1. user[r] \in User /\ (held[r] # NoState => held[r].attempt \in Attempt)
      BY <1>4, StateFacts DEF FinishDropped, FlightType, Placed
    <2> QED
      BY <1>4, <2>1, StateFacts DEF FinishDropped, TableType
  <1>5. ASSUME NEW r \in Req, FinishMinted(r) PROVE TableType'
    <2>1. user[r] \in User /\ held[r].attempt \in Attempt
      BY <1>5, StateFacts DEF FinishMinted, FlightType, Placed
    <2> QED
      BY <1>5, <2>1, StateFacts DEF FinishMinted, TableType
  <1>6. CASE Refuse \/ Restart \/ Tick \/ UNCHANGED vars
    BY <1>6, <1>1 DEF Refuse, Restart, Tick, vars, logins
  <1> QED
    BY <1>1, <1>2, <1>3, <1>4, <1>5, <1>6, Quiet DEF Next, Setting, Starting, Finishing

-----------------------------------------------------------------------------
(* The setup.                                                              *)

\* The row is written once, while nobody works with a setup.
LEMMA NextSetup == IInv /\ [Next]_vars => SetupInv'
  <1> SUFFICES ASSUME IInv, [Next]_vars PROVE SetupInv'
    OBVIOUS
  <1> USE DEF IInv, FlightType, SetupInv, OneSetup, Goto, Point, setups, flight
  <1>1. ASSUME NEW r \in Req, Done(r), UNCHANGED setups PROVE SetupInv'
    BY <1>1 DEF Done
  <1>2. ASSUME NEW r \in Req, RegisterStart(r) \/ \E u \in User : LoginStart(r, u)
        PROVE SetupInv'
    BY <1>2 DEF RegisterStart, LoginStart
  <1>3. ASSUME NEW r \in Req, NEW u \in User, NEW a \in Attempt, LoginFinish(r, u, a)
        PROVE SetupInv'
    BY <1>3 DEF LoginFinish
  <1>4. ASSUME NEW r \in Req, Setting(r) PROVE SetupInv'
    <2>1. CASE GetSetup(r)
      BY <2>1 DEF GetSetup, Onward
    <2>2. CASE SetupMade(r)
      BY <2>2 DEF SetupMade
    <2>3. CASE SetupStored(r)
      BY <2>3 DEF SetupStored, Onward
    <2>4. CASE RegisterAnswered(r)
      BY <2>4 DEF RegisterAnswered, Done
    <2> QED
      BY <1>4, <2>1, <2>2, <2>3, <2>4 DEF Setting
  <1>5. ASSUME NEW r \in Req, Starting(r) PROVE SetupInv'
    <2>1. CASE StartMade(r) \/ StartLoad(r)
      BY <2>1 DEF StartMade, StartLoad
    <2>2. CASE StartSave(r)
      BY <2>2 DEF StartSave, Done
    <2> QED
      BY <1>5, <2>1, <2>2 DEF Starting
  <1>6. ASSUME NEW r \in Req, Finishing(r) PROVE SetupInv'
    <2>1. CASE FinishNoState(r) \/ FinishDropped(r) \/ FinishMinted(r)
      BY <2>1, <1>1 DEF FinishNoState, FinishDropped, FinishMinted
    <2>2. CASE FinishFound(r) \/ FinishExpired(r) \/ FinishAccepted(r) \/ FinishRejected(r)
      BY <2>2 DEF FinishFound, FinishExpired, FinishAccepted, FinishRejected
    <2> QED
      BY <1>6, <2>1, <2>2 DEF Finishing
  <1>7. ASSUME NEW r \in Req, Fail(r) PROVE SetupInv'
    BY <1>7, <1>1 DEF Fail
  <1>8. CASE Refuse \/ Restart \/ Tick
    BY <1>8 DEF Refuse, Restart, Tick
  <1>9. CASE UNCHANGED vars
    BY <1>9 DEF vars
  <1> QED
    BY <1>2, <1>3, <1>4, <1>5, <1>6, <1>7, <1>8, <1>9 DEF Next

-----------------------------------------------------------------------------
(* The login states.                                                       *)

Logged == Placed /\ Owned /\ Traced /\ Counted /\ EndedIsGone

\* A request that is done holds nothing, and the others hold what they held.
LEMMA DoneLogged ==
  ASSUME IInv, NEW r \in Req, Done(r), UNCHANGED logins
  PROVE  Logged'
  BY DEF IInv, Logged, FlightType, Done, Goto, logins, Placed, Owned, Traced, Counted,
     EndedIsGone

\* The rows and what was answered are as they were.
LEMMA SameTables ==
  ASSUME Traced, Counted, EndedIsGone, UNCHANGED logins
  PROVE  Traced' /\ Counted' /\ EndedIsGone'
  BY DEF Traced, Counted, EndedIsGone, logins

\* An attempt is made, and belongs to its request.
LEMMA MadeLogged ==
  ASSUME IInv, NEW r \in Req, StartMade(r)
  PROVE  Logged'
  <1>1. attempts \in Nat /\ attempts + 1 \in Attempt
    BY DEF IInv, TableType, StartMade, Attempt
  <1>2. /\ attempts' = attempts + 1 /\ UNCHANGED <<sent, user, held>>
        /\ attempt'[r] = attempts + 1 /\ pc[r] = "start" /\ pc'[r] = "load"
        /\ \A o \in Req \ {r} : pc'[o] = pc[o] /\ attempt'[o] = attempt[o]
    BY DEF IInv, FlightType, StartMade, Goto
  <1>3. Placed /\ Owned
    BY DEF IInv
  <1>4. \A n \in 1 .. attempts : n \in 1 .. attempts + 1 /\ n # attempts + 1
    BY <1>1
  <1>5. \A o \in Req : pc[o] \in {"load", "save"} =>
          attempt[o] \in 1 .. attempts + 1 /\ attempt[o] # attempts + 1
    BY <1>3, <1>4 DEF Placed
  <1>6. \A o \in Req : pc'[o] = pc[o] \/ (pc'[o] = "load" /\ pc[o] = "start")
    BY <1>2
  <1>7. \A o \in Req : pc'[o] \in {"load", "save"} => attempt'[o] \in 1 .. attempts'
    BY <1>1, <1>2, <1>5
  <1>8. Placed'
    BY <1>2, <1>3, <1>6, <1>7 DEF Placed
  <1>9. \A a \in Attempt : a <= attempts => a <= attempts + 1 /\ a # attempts + 1
    BY <1>1 DEF Attempt
  <1>10. \A u \in User : <<u, attempts + 1>> \notin sent
    BY <1>1, <1>3, <1>9 DEF Owned
  <1>11. Owned'
    BY <1>2, <1>3, <1>5, <1>9, <1>10 DEF Owned
  <1>12. Traced' /\ Counted' /\ EndedIsGone'
    BY DEF IInv, StartMade, Traced, Counted, EndedIsGone
  <1> QED
    BY <1>8, <1>11, <1>12 DEF Logged

\* Its response is sent, and its state takes the place of the user's last one.
LEMMA SavedLogged ==
  ASSUME IInv, NEW r \in Req, StartSave(r)
  PROVE  Logged'
  <1> USE DEF IInv
  <1>1. /\ user[r] \in User /\ attempt[r] \in Attempt /\ attempt[r] <= attempts
        /\ \A u \in User : <<u, attempt[r]>> \notin sent
    <2>1. attempts \in Nat /\ attempts <= MaxAttempt
      BY DEF TableType, Attempt
    <2>2. user[r] \in User /\ attempt[r] \in 1 .. attempts
      BY DEF StartSave, Placed
    <2>3. \A u \in User : <<u, attempt[r]>> \notin sent
      BY DEF StartSave, Owned
    <2> QED
      BY <2>1, <2>2, <2>3 DEF Attempt
  <1>2. sent' = sent \cup {<<user[r], attempt[r]>>} /\ UNCHANGED <<attempts, ended, granted, successes>>
    BY DEF StartSave
  <1>3. pc'[r] = "idle" /\ held'[r] = NoState /\ \A o \in Req \ {r} :
          pc'[o] = pc[o] /\ user'[o] = user[o] /\ attempt'[o] = attempt[o] /\ held'[o] = held[o]
    BY DoneFlight DEF StartSave, Done, Goto, FlightType
  <1>4. Placed'
    BY <1>2, <1>3 DEF Placed
  <1>5. Owned'
    <2>1. \A o \in Req \ {r} : pc[o] \in {"load", "save"} => attempt[o] # attempt[r]
      BY DEF Owned, StartSave
    <2>2. \A u, v \in User, a \in Attempt : <<u, a>> \in sent' /\ <<v, a>> \in sent' => u = v
      BY <1>1, <1>2 DEF Owned
    <2>3. \A u \in User, a \in Attempt : <<u, a>> \in sent' => a <= attempts'
      BY <1>1, <1>2 DEF Owned
    <2>4. \A o \in Req, u \in User : pc'[o] \in {"load", "save"} => <<u, attempt'[o]>> \notin sent'
      BY <1>1, <1>2, <1>3, <2>1 DEF Owned
    <2>5. \A p, o \in Req : /\ pc'[p] \in {"load", "save"} /\ pc'[o] \in {"load", "save"}
                            /\ attempt'[p] = attempt'[o]
                            => p = o
      BY <1>3 DEF Owned
    <2> QED
      BY <2>2, <2>3, <2>4, <2>5 DEF Owned
  <1>6. /\ loginState'[user[r]] # NoState /\ loginState'[user[r]].attempt = attempt[r]
        /\ \A u \in User \ {user[r]} : loginState'[u] = loginState[u]
    <2>1. Expiry \in Nat
      BY DEF FlightType, Expiry
    <2> QED
      BY <1>1, <2>1, StateFacts DEF StartSave, TableType
  <1>7. attempt[r] \notin ended
    BY <1>1 DEF Traced
  <1>8. Traced'
    BY <1>1, <1>2, <1>6 DEF Traced
  <1>9. EndedIsGone'
    BY <1>2, <1>6, <1>7 DEF EndedIsGone
  <1>10. Counted'
    BY <1>2 DEF Counted
  <1> QED
    BY <1>4, <1>5, <1>8, <1>9, <1>10 DEF Logged

\* A finish is answered: the user's state goes, and no other user has a state
\* of the attempt that the finish had in hand.
LEMMA EndedLogged ==
  ASSUME IInv, NEW r \in Req, FinishDropped(r) \/ FinishMinted(r)
  PROVE  Logged'
  <1> USE DEF IInv
  <1>1. /\ user[r] \in User
        /\ held[r] # NoState => held[r].attempt \in Attempt /\ <<user[r], held[r].attempt>> \in sent
    BY StateFacts DEF FinishDropped, FinishMinted, Placed, FlightType
  <1>2. UNCHANGED <<attempts, sent>>
    BY DEF FinishDropped, FinishMinted
  <1>3. pc'[r] = "idle" /\ held'[r] = NoState /\ \A o \in Req \ {r} :
          pc'[o] = pc[o] /\ user'[o] = user[o] /\ attempt'[o] = attempt[o] /\ held'[o] = held[o]
    BY DEF FinishDropped, FinishMinted, Done, Goto, FlightType
  <1>4. Placed'
    BY <1>2, <1>3 DEF Placed
  <1>5. Owned'
    BY <1>2, <1>3 DEF Owned
  <1>6. /\ loginState'[user[r]] = NoState
        /\ \A u \in User \ {user[r]} : loginState'[u] = loginState[u]
    BY <1>1 DEF FinishDropped, FinishMinted, TableType
  <1>7. \/ ended' = ended
        \/ held[r] # NoState /\ ended' = ended \cup {held[r].attempt}
    <2>1. CASE FinishDropped(r)
      BY <2>1 DEF FinishDropped
    <2>2. CASE FinishMinted(r)
      BY <2>2 DEF FinishMinted, Placed
    <2> QED
      BY <2>1, <2>2
  <1>8. Traced'
    BY <1>1, <1>2, <1>6, <1>7 DEF Traced
  <1>9. EndedIsGone'
    <2> SUFFICES ASSUME NEW u \in User PROVE loginState'[u].attempt \notin ended'
      BY DEF EndedIsGone
    <2>1. CASE u = user[r]
      BY <2>1, <1>1, <1>6, <1>7, StateFacts DEF TableType
    <2>2. CASE u # user[r] /\ loginState[u] = NoState
      BY <2>2, <1>1, <1>6, <1>7, StateFacts DEF TableType
    <2>3. CASE u # user[r] /\ loginState[u] # NoState
      <3>1. loginState[u].attempt \in Attempt /\ <<u, loginState[u].attempt>> \in sent
        BY <2>3, StateFacts DEF TableType, Traced
      <3>2. held[r] # NoState => held[r].attempt # loginState[u].attempt
        BY <1>1, <2>3, <3>1 DEF Owned
      <3> QED
        BY <2>3, <1>6, <1>7, <3>2 DEF EndedIsGone
    <2> QED
      BY <2>1, <2>2, <2>3
  <1>10. Counted'
    <2>1. CASE FinishDropped(r)
      BY <2>1 DEF FinishDropped, Counted
    <2>2. CASE FinishMinted(r)
      <3>1. held[r].attempt \in Attempt /\ held[r].attempt \notin granted
        BY <1>1, <2>2 DEF FinishMinted, NewToken, Placed
      <3> QED
        BY <2>2, <3>1 DEF FinishMinted, Counted, TableType
    <2> QED
      BY <2>1, <2>2
  <1> QED
    BY <1>4, <1>5, <1>8, <1>9, <1>10 DEF Logged

LEMMA NextLogged == IInv /\ [Next]_vars => Logged'
  <1> SUFFICES ASSUME IInv, [Next]_vars PROVE Logged'
    OBVIOUS
  <1> USE DEF setups, logins, flight, Goto
  <1>0. Placed /\ Owned /\ Traced /\ Counted /\ EndedIsGone /\ FlightType /\ TableType
    BY DEF IInv
  <1>11. ASSUME UNCHANGED logins, Placed', Owned' PROVE Logged'
    BY <1>0, <1>11, SameTables DEF Logged
  <1>1. ASSUME NEW r \in Req, Fail(r) \/ FinishNoState(r) \/ RegisterAnswered(r) PROVE Logged'
    BY <1>1, DoneLogged DEF Fail, FinishNoState, RegisterAnswered
  <1>2. ASSUME NEW r \in Req, RegisterStart(r) \/ \E u \in User : LoginStart(r, u)
        PROVE Logged'
    BY <1>0, <1>2, <1>11 DEF RegisterStart, LoginStart, Placed, Owned, FlightType
  <1>3. ASSUME NEW r \in Req, NEW u \in User, NEW a \in Attempt, LoginFinish(r, u, a)
        PROVE Logged'
    BY <1>0, <1>3, <1>11 DEF LoginFinish, Placed, Owned, FlightType
  <1>4. ASSUME NEW r \in Req, GetSetup(r) \/ SetupMade(r) \/ SetupStored(r) PROVE Logged'
    BY <1>0, <1>4, <1>11 DEF GetSetup, SetupMade, SetupStored, Onward, Placed, Owned, FlightType
  <1>5. ASSUME NEW r \in Req, StartLoad(r) PROVE Logged'
    BY <1>0, <1>5, <1>11 DEF StartLoad, Placed, Owned, FlightType
  <1>6. ASSUME NEW r \in Req, FinishFound(r) PROVE Logged'
    <2>1. <<user[r], loginState[user[r]].attempt>> \in sent
      BY <1>0, <1>6 DEF FinishFound, Placed, Traced
    <2> QED
      BY <1>0, <1>6, <2>1, <1>11 DEF FinishFound, Placed, Owned, FlightType
  <1>7. ASSUME NEW r \in Req, FinishExpired(r) \/ FinishAccepted(r) \/ FinishRejected(r)
        PROVE Logged'
    BY <1>0, <1>7, <1>11 DEF FinishExpired, FinishAccepted, FinishRejected, Placed, Owned,
       FlightType
  <1>8. CASE Refuse \/ Tick
    BY <1>0, <1>8, <1>11 DEF Refuse, Tick, Placed, Owned
  <1>9. CASE Restart
    BY <1>0, <1>9, <1>11 DEF Restart, Placed, Owned
  <1>10. CASE UNCHANGED vars
    BY <1>0, <1>10, <1>11 DEF vars, Placed, Owned
  <1> QED
    BY <1>1, <1>2, <1>3, <1>4, <1>5, <1>6, <1>7, <1>8, <1>9, <1>10, MadeLogged, SavedLogged,
       EndedLogged
    DEF Next, Setting, Starting, Finishing

LEMMA NextInv == IInv /\ [Next]_vars => IInv'
  BY NextFlight, NextTable, NextSetup, NextLogged DEF IInv, Logged

\* However many requests race to make the first setup, responses are made with
\* the stored one only.
THEOREM SetupIsOne == Spec => []OneSetup
  <1>1. IInv => OneSetup
    BY DEF IInv, SetupInv
  <1> QED
    BY InitInv, NextInv, <1>1, PTL DEF Spec

\* The login state of an answered attempt never comes back.
THEOREM AnsweredIsGone == Spec => []EndedIsGone
  <1>1. IInv => EndedIsGone
    BY DEF IInv
  <1> QED
    BY InitInv, NextInv, <1>1, PTL DEF Spec

\* No attempt earns two tokens, however its finishes overlap.
THEOREM OneToken == Spec => []OneTokenPerLogin
  <1>1. IInv => OneTokenPerLogin
    BY DEF IInv, Counted, OneTokenPerLogin
  <1> QED
    BY InitInv, NextInv, <1>1, PTL DEF Spec

-----------------------------------------------------------------------------
(* The rate limit.                                                         *)

Time == 0 .. MaxTime

RateType ==
    /\ now \in Time
    /\ hits \in Seq(Time)
    /\ admitted \in Seq(Time)

\* How many of the admitted hits have left the bucket.
Gone == Len(admitted) - Len(hits)

\* The bucket is the end of the history, and what has left it is old.
Bucket ==
    /\ Len(hits) <= MaxHits /\ Len(hits) <= Len(admitted)
    /\ \A i \in 1 .. Len(hits) : hits[i] = admitted[Gone + i]
    /\ \A i \in 1 .. Len(admitted) : i <= Gone => now - admitted[i] > Window

\* The history is in order, and MaxHits logins on, more than a window has passed.
Spaced ==
    /\ \A i \in 1 .. Len(admitted) : admitted[i] <= now
    /\ \A i, j \in 1 .. Len(admitted) : i + MaxHits <= j => admitted[j] - admitted[i] > Window

RateInv == RateType /\ Bucket /\ Spaced

\* A set of numbers has a least one.
LEMMA Least ==
  ASSUME NEW T, T \subseteq Nat, T # {}
  PROVE  \E x \in T : \A y \in T : x <= y
  <1> DEFINE R == OpToRel(<, Nat)
  <1>1. IsWellFoundedOn(R, Nat)
    BY NatLessThanWellFounded
  <1>2. ASSUME NEW x \in Nat, NEW y \in Nat, <<y, x>> \notin R PROVE ~ (y < x)
    BY <1>2 DEF OpToRel
  <1> HIDE DEF R
  <1>3. PICK x \in T : \A y \in T : <<y, x>> \notin R
    BY <1>1, WFMin
  <1>4. ASSUME NEW y \in T PROVE x <= y
    <2>1. x \in Nat /\ y \in Nat
      OBVIOUS
    <2>2. ~ (y < x)
      BY <2>1, <1>2, <1>3
    <2> QED
      BY <2>1, <2>2
  <1> QED
    BY <1>4

\* What the loop leaves is an end of the bucket, and what it takes is old.
LEMMA Popped ==
  ASSUME RateType
  PROVE  \E k \in 1 .. Len(hits) + 1 :
           /\ Recent \in Seq(Time) /\ Len(Recent) = Len(hits) + 1 - k
           /\ \A i \in 1 .. Len(hits) + 1 - k : Recent[i] = hits[k + i - 1]
           /\ \A i \in 1 .. k - 1 : now - hits[i] > Window
  <1> DEFINE Young == {k \in 1 .. Len(hits) : now - hits[k] <= Window}
             Fits(k) == /\ \A i \in 1 .. k - 1 : now - hits[i] > Window
                        /\ k <= Len(hits) => now - hits[k] <= Window
             first == CHOOSE k \in 1 .. Len(hits) + 1 : Fits(k)
  <1>1. /\ Len(hits) \in Nat /\ now \in Nat
        /\ \A i \in 1 .. Len(hits) : hits[i] \in Time /\ hits[i] \in Nat
    BY DEF RateType, Time
  <1>2. \E k \in 1 .. Len(hits) + 1 : Fits(k)
    <2>1. CASE Young = {}
      <3>1. Fits(Len(hits) + 1)
        BY <1>1, <2>1
      <3> QED
        BY <1>1, <3>1
    <2>2. CASE Young # {}
      <3>1. PICK k \in Young : \A y \in Young : k <= y
        <4>1. Young \subseteq Nat
          OBVIOUS
        <4> HIDE DEF Young
        <4> QED
          BY <2>2, <4>1, Least
      <3>2. Fits(k)
        BY <1>1, <3>1
      <3> QED
        BY <1>1, <3>2
    <2> QED
      BY <2>1, <2>2
  <1>3. first \in 1 .. Len(hits) + 1 /\ Fits(first)
    BY <1>2
  <1>4. Recent = SubSeq(hits, first, Len(hits))
    BY DEF Recent
  <1> HIDE DEF first
  <1>5. \A i \in first .. Len(hits) : hits[i] \in Time
    BY <1>1, <1>3
  <1>6. /\ SubSeq(hits, first, Len(hits)) \in Seq(Time)
        /\ Len(SubSeq(hits, first, Len(hits))) = IF first <= Len(hits) THEN Len(hits) - first + 1 ELSE 0
        /\ \A i \in 1 .. Len(hits) - first + 1 :
             SubSeq(hits, first, Len(hits))[i] = hits[first + i - 1]
    BY <1>1, <1>3, <1>5, SubSeqProperties
  <1>7. Len(Recent) = Len(hits) + 1 - first
    BY <1>1, <1>3, <1>4, <1>6
  <1>8. \A i \in 1 .. Len(hits) + 1 - first : Recent[i] = hits[first + i - 1]
    BY <1>1, <1>3, <1>4, <1>6
  <1> QED
    BY <1>3, <1>4, <1>6, <1>7, <1>8

\* So it is the end of the history, too.
LEMMA RecentBucket ==
  ASSUME RateInv
  PROVE  /\ Recent \in Seq(Time) /\ Len(Recent) \in Nat
         /\ Len(Recent) <= MaxHits /\ Len(Recent) <= Len(admitted)
         /\ \A i \in 1 .. Len(Recent) : Recent[i] = admitted[Len(admitted) - Len(Recent) + i]
         /\ \A i \in 1 .. Len(admitted) : i <= Len(admitted) - Len(Recent) =>
              now - admitted[i] > Window
  <1>1. /\ Len(hits) \in Nat /\ Len(admitted) \in Nat /\ now \in Nat
        /\ \A i \in 1 .. Len(admitted) : admitted[i] \in Nat
    BY DEF RateInv, RateType, Time
  <1>2. PICK k \in 1 .. Len(hits) + 1 :
          /\ Recent \in Seq(Time) /\ Len(Recent) = Len(hits) + 1 - k
          /\ \A i \in 1 .. Len(hits) + 1 - k : Recent[i] = hits[k + i - 1]
          /\ \A i \in 1 .. k - 1 : now - hits[i] > Window
    BY Popped DEF RateInv
  <1>3. ASSUME NEW i \in 1 .. Len(Recent)
        PROVE  Recent[i] = admitted[Len(admitted) - Len(Recent) + i]
    <2>1. k + i - 1 \in 1 .. Len(hits) /\ Recent[i] = hits[k + i - 1]
      BY <1>1, <1>2
    <2>2. hits[k + i - 1] = admitted[Len(admitted) - Len(hits) + (k + i - 1)]
      BY <2>1 DEF RateInv, Bucket, Gone
    <2>3. Len(admitted) - Len(hits) + (k + i - 1) = Len(admitted) - Len(Recent) + i
      BY <1>1, <1>2
    <2> QED
      BY <2>1, <2>2, <2>3
  <1>4. ASSUME NEW i \in 1 .. Len(admitted), i <= Len(admitted) - Len(Recent)
        PROVE  now - admitted[i] > Window
    <2>1. CASE i <= Gone
      BY <2>1 DEF RateInv, Bucket
    <2>2. CASE i > Gone
      <3> DEFINE n == i - Gone
      <3>1. n \in 1 .. k - 1 /\ n \in 1 .. Len(hits) /\ Gone + n = i
        BY <1>1, <1>2, <1>4, <2>2 DEF Gone
      <3>2. hits[n] = admitted[i]
        BY <3>1 DEF RateInv, Bucket
      <3>3. now - hits[n] > Window
        BY <1>2, <3>1
      <3> QED
        BY <3>2, <3>3
    <2> QED
      BY <1>1, <2>1, <2>2 DEF Gone
  <1>5. Len(Recent) \in Nat /\ Len(Recent) <= MaxHits /\ Len(Recent) <= Len(admitted)
    BY <1>1, <1>2 DEF RateInv, Bucket
  <1> QED
    BY <1>2, <1>3, <1>4, <1>5

\* A login passes: the one that MaxHits logins earlier passed has left.
LEMMA AdmitRate ==
  ASSUME RateInv, Admit, now' = now
  PROVE  RateInv'
  <1> DEFINE m == Len(Recent)
             n == Len(admitted)
  <1>1. /\ Recent \in Seq(Time) /\ m \in Nat /\ m < MaxHits /\ m <= n
        /\ \A i \in 1 .. m : Recent[i] = admitted[n - m + i]
        /\ \A i \in 1 .. n : i <= n - m => now - admitted[i] > Window
    BY RecentBucket DEF Admit
  <1>2. /\ admitted \in Seq(Time) /\ now \in Time /\ now \in Nat /\ n \in Nat
        /\ \A i \in 1 .. n : admitted[i] \in Nat
    BY DEF RateInv, RateType, Time
  <1>3. /\ hits' \in Seq(Time) /\ Len(hits') = m + 1 /\ hits'[m + 1] = now
        /\ \A i \in 1 .. m : hits'[i] = Recent[i]
    BY <1>1, <1>2, AppendProperties DEF Admit
  <1>4. /\ admitted' \in Seq(Time) /\ Len(admitted') = n + 1 /\ admitted'[n + 1] = now
        /\ \A i \in 1 .. n : admitted'[i] = admitted[i]
    BY <1>2, AppendProperties DEF Admit
  <1> HIDE DEF m, n
  <1>5. Gone' = n - m
    BY <1>1, <1>2, <1>3, <1>4 DEF Gone
  <1>6. \A i \in 1 .. m + 1 : hits'[i] = admitted'[n - m + i]
    <2> SUFFICES ASSUME NEW i \in 1 .. m + 1 PROVE hits'[i] = admitted'[n - m + i]
      OBVIOUS
    <2>1. CASE i = m + 1
      <3>1. n - m + i = n + 1
        BY <1>1, <1>2, <2>1
      <3> QED
        BY <1>3, <1>4, <2>1, <3>1
    <2>2. CASE i # m + 1
      <3>1. i \in 1 .. m /\ n - m + i \in 1 .. n
        BY <1>1, <1>2, <2>2
      <3> QED
        BY <1>1, <1>3, <1>4, <3>1
    <2> QED
      BY <2>1, <2>2
  <1>7. ASSUME NEW i \in 1 .. n + 1, i <= n - m PROVE now - admitted'[i] > Window
    <2>1. i \in 1 .. n
      BY <1>1, <1>2, <1>7
    <2> QED
      BY <1>1, <1>4, <1>7, <2>1
  <1>8. m + 1 <= MaxHits /\ m + 1 <= n + 1
    BY <1>1, <1>2
  <1>9. Bucket'
    BY <1>3, <1>4, <1>5, <1>6, <1>7, <1>8 DEF Bucket
  <1>10. \A i \in 1 .. n + 1 : admitted'[i] <= now
    <2>1. \A i \in 1 .. n : admitted[i] <= now
      BY DEF RateInv, Spaced, n
    <2> QED
      BY <1>2, <1>4, <2>1
  <1>11. ASSUME NEW i \in 1 .. n + 1, NEW j \in 1 .. n + 1, i + MaxHits <= j
         PROVE  admitted'[j] - admitted'[i] > Window
    <2>1. CASE j = n + 1
      <3>1. i \in 1 .. n /\ i <= n - m
        BY <1>1, <1>2, <1>11, <2>1
      <3> QED
        BY <1>4, <1>7, <2>1, <3>1
    <2>2. CASE j # n + 1
      <3>1. i \in 1 .. n /\ j \in 1 .. n
        BY <1>1, <1>2, <1>11, <2>2
      <3> QED
        BY <1>4, <1>11, <3>1 DEF RateInv, Spaced, n
    <2> QED
      BY <2>1, <2>2
  <1>12. Spaced'
    BY <1>4, <1>10, <1>11 DEF Spaced
  <1> QED
    BY <1>2, <1>3, <1>4, <1>9, <1>12 DEF RateInv, RateType

LEMMA InitRate == Init => RateInv
  <1> SUFFICES ASSUME Init PROVE RateInv
    OBVIOUS
  <1>1. now = 0 /\ hits = <<>> /\ admitted = <<>> /\ Len(<<>>) = 0
    BY DEF Init
  <1>2. RateType
    BY <1>1 DEF RateType, Time
  <1> QED
    BY <1>1, <1>2 DEF RateInv, Bucket, Spaced, Gone

LEMMA NextRate == RateInv /\ [Next]_vars => RateInv'
  <1> SUFFICES ASSUME RateInv, [Next]_vars PROVE RateInv'
    OBVIOUS
  <1>1. ASSUME UNCHANGED <<now, rate>> PROVE RateInv'
    BY <1>1 DEF rate, RateInv, RateType, Bucket, Spaced, Gone
  <1>2. ASSUME NEW r \in Req, NEW u \in User,
               LoginStart(r, u) \/ \E a \in Attempt : LoginFinish(r, u, a)
        PROVE  RateInv'
    BY <1>2, AdmitRate DEF LoginStart, LoginFinish
  <1>3. ASSUME NEW r \in Req,
               RegisterStart(r) \/ Setting(r) \/ Starting(r) \/ Finishing(r) \/ Fail(r)
        PROVE  RateInv'
    BY <1>3, <1>1
    DEF RegisterStart, Setting, GetSetup, SetupMade, SetupStored, RegisterAnswered,
        Starting, StartMade, StartLoad, StartSave, Finishing, FinishNoState,
        FinishExpired, FinishFound, FinishAccepted, FinishRejected, FinishDropped,
        FinishMinted, Fail, setups, logins
  <1>4. CASE Refuse
    <2>1. now' = now /\ admitted' = admitted /\ hits' = Recent
      BY <1>4 DEF Refuse
    <2>2. Gone' = Len(admitted) - Len(Recent)
      BY <2>1 DEF Gone
    <2>3. Bucket'
      BY <2>1, <2>2, RecentBucket DEF Bucket
    <2> QED
      BY <2>1, <2>3, RecentBucket DEF RateInv, RateType, Spaced
  <1>5. CASE Restart
    <2>1. now' = now /\ hits' = <<>> /\ admitted' = <<>> /\ Len(<<>>) = 0
      BY <1>5 DEF Restart
    <2>2. RateType'
      BY <2>1 DEF RateInv, RateType
    <2> QED
      BY <2>1, <2>2 DEF RateInv, Bucket, Spaced, Gone
  <1>6. CASE Tick
    <2>1. now' = now + 1 /\ now < MaxTime /\ hits' = hits /\ admitted' = admitted
      BY <1>6 DEF Tick, rate
    <2>2. /\ now \in Nat /\ now' \in Time /\ Len(admitted) \in Nat
          /\ \A i \in 1 .. Len(admitted) : admitted[i] \in Nat
      BY <2>1 DEF RateInv, RateType, Time
    <2>3. \A i \in 1 .. Len(admitted) : i <= Gone => now' - admitted[i] > Window
      BY <2>1, <2>2 DEF RateInv, Bucket
    <2>4. \A i \in 1 .. Len(admitted) : admitted[i] <= now'
      BY <2>1, <2>2 DEF RateInv, Spaced
    <2> QED
      BY <2>1, <2>2, <2>3, <2>4 DEF RateInv, RateType, Bucket, Spaced, Gone
  <1>7. CASE UNCHANGED vars
    BY <1>7, <1>1 DEF vars
  <1> QED
    BY <1>2, <1>3, <1>4, <1>5, <1>6, <1>7 DEF Next

\* In a window, the admitted logins are MaxHits neighbours at most.
LEMMA WindowIsShort ==
  ASSUME RateInv
  PROVE  RateIsLimited
  <1> SUFFICES ASSUME NEW t \in 0 .. MaxTime
      PROVE Cardinality({i \in DOMAIN admitted : admitted[i] \in t .. t + Window}) <= MaxHits
    BY DEF RateIsLimited
  <1> DEFINE In == {i \in DOMAIN admitted : admitted[i] \in t .. t + Window}
  <1>1. /\ DOMAIN admitted = 1 .. Len(admitted) /\ Len(admitted) \in Nat
        /\ \A i \in 1 .. Len(admitted) : admitted[i] \in Nat
    BY DEF RateInv, RateType, Time
  <1>2. CASE In = {}
    BY <1>2, FS_EmptySet
  <1>3. CASE In # {}
    <2>1. PICK x \in In : \A y \in In : x <= y
      <3>1. In \subseteq Nat
        BY <1>1
      <3> QED
        BY <1>3, <3>1, Least
    <2>2. ASSUME NEW y \in In PROVE y \in x .. x + MaxHits - 1
      <3>1. /\ x \in Nat /\ y \in Nat /\ x <= y
            /\ x \in 1 .. Len(admitted) /\ y \in 1 .. Len(admitted)
        BY <1>1, <2>1
      <3>2. admitted[y] - admitted[x] <= Window
        BY <1>1, <3>1
      <3>3. ~ (x + MaxHits <= y)
        BY <1>1, <3>1, <3>2 DEF RateInv, Spaced
      <3> QED
        BY <3>1, <3>3
    <2>3. x \in Int /\ x + MaxHits - 1 \in Int
      BY <1>1, <2>1
    <2>4. /\ IsFiniteSet(x .. x + MaxHits - 1)
          /\ Cardinality(x .. x + MaxHits - 1) =
               IF x > x + MaxHits - 1 THEN 0 ELSE (x + MaxHits - 1) - x + 1
      BY <2>3, FS_Interval
    <2>5. Cardinality(In) <= Cardinality(x .. x + MaxHits - 1)
      BY <2>2, <2>4, FS_Subset
    <2>6. Cardinality(x .. x + MaxHits - 1) = MaxHits
      BY <2>3, <2>4
    <2> QED
      BY <2>5, <2>6
  <1> QED
    BY <1>2, <1>3

\* No window sees more logins pass than the limit allows.
THEOREM RateLimit == Spec => []RateIsLimited
  BY InitRate, NextRate, WindowIsShort, PTL DEF Spec

-----------------------------------------------------------------------------
(* The types.                                                              *)

\* The setups that responses were made with are those of requests.
LEMMA TypesHold == IInv /\ RateInv => TypeOK
  BY DEF IInv, FlightType, TableType, SetupInv, OneSetup, RateInv, RateType, Time, State,
     Point, TypeOK

\* Every variable has its type.
THEOREM TypeCorrect == Spec => []TypeOK
  BY InitInv, NextInv, InitRate, NextRate, TypesHold, PTL DEF Spec
=============================================================================
