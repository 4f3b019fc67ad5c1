--------------------------- MODULE NtripServerProofs ---------------------------
(***************************************************************************)
(* However many failures there are, and however often a socket is reported *)
(* or lost, the NTRIP node takes no report of a session that was cleaned   *)
(* up for one of its successor.                                            *)
(***************************************************************************)
EXTENDS NtripServer, TLAPS

\* Unless a cleanup failed, there is one session at most, and this is how far it
\* is where the node's thread is.
Phases ==
    ~kept =>
      /\ old = Off
      /\ pc \in {"connect", "init"} => sdk = Off
      /\ pc = "start" => sdk \in {Off, Ready}
      /\ pc \in {"waitSocket", "calib"} => sdk.calib = "no"
      /\ pc \in {"waitSocket", "calib", "waitCalib", "auth"} => sdk.auth = "no"
      /\ pc = "waitAuth" => sdk.auth # "no"

\* And this is what a flag says of it: none is left of a session before it once
\* connect() has cleared them.
FlagsMean ==
    ~kept =>
      /\ pc \in {"init", "start"} => flags = {}
      /\ "calib" \in flags => pc = "connect" \/ sdk.calib = "done"
      /\ "auth" \in flags => pc = "connect" \/ sdk.auth = "yes"

\* The status is true only while the node spins.
StatusWhen == status => pc \in {"idle", "upload"}

IInv ==
    TypeOK /\ Phases /\ FlagsMean /\ StatusWhen /\ SessionAuthenticated /\ AuthAfterCalibration

-----------------------------------------------------------------------------

\* A session that reports stays a session.
LEMMA ReportKeepsType ==
    ASSUME TypeOK, NEW s \in Sessions, NEW t, Report(s, t), UNCHANGED third
    PROVE  t \in Sessions /\ flags' \subseteq {"socket", "calib", "auth"} /\ status' \in BOOLEAN
           /\ failures' \in 0..MaxFailures
<1> USE DEF TypeOK, Sessions, Report, Answer, SocketUp, SocketAgain, SocketLost, CalibDone,
            AuthDone, AuthEnds, Wanted, Succeeded, Failed, Raise, Clear
<1>1. t \in Sessions
  OBVIOUS
<1>2. flags' \subseteq {"socket", "calib", "auth"} /\ status' \in BOOLEAN
  OBVIOUS
<1>3. failures' = failures \/ Fail
  OBVIOUS
<1> QED
  BY <1>1, <1>2, <1>3, BoundAssumption DEF Fail

\* The steps of connect() keep the invariant.
LEMMA ConnectKeeps ==
    ASSUME IInv, Connect
    PROVE  IInv'
<1> USE DEF IInv, TypeOK, Phases, FlagsMean, StatusWhen, SessionAuthenticated, Claims,
            AuthAfterCalibration, Sessions, Off, Ready, Return, Goto, Clear
<1>0. MaxFailures \in Nat
  BY BoundAssumption
<1>f. Fail => failures' \in 0..MaxFailures
  BY <1>0 DEF Fail
<1>1. CASE Reset
  BY <1>1 DEF Reset
<1>2. CASE InitSdk
  BY <1>2, <1>f DEF InitSdk
<1>3. CASE StartSocket
  BY <1>3, <1>f DEF StartSocket
<1>4. CASE WaitSocket
  BY <1>4 DEF WaitSocket
<1>5. CASE Calib
  BY <1>5, <1>f DEF Calib
<1>6. CASE WaitCalib
  BY <1>6 DEF WaitCalib
<1>7. CASE Auth
  BY <1>7, <1>f DEF Auth
<1>8. CASE WaitAuth
  BY <1>8 DEF WaitAuth
<1>9. CASE Claim
  BY <1>9 DEF Claim
<1>10. CASE Timeout
  BY <1>10, <1>f DEF Timeout
<1> QED
  BY <1>1, <1>2, <1>3, <1>4, <1>5, <1>6, <1>7, <1>8, <1>9, <1>10 DEF Connect

\* The steps of the callback keep it.
LEMMA CallbackKeeps ==
    ASSUME IInv, Callback
    PROVE  IInv'
<1> USE DEF IInv, TypeOK, Phases, FlagsMean, StatusWhen, SessionAuthenticated, Claims,
            AuthAfterCalibration, Sessions, Off, Goto
<1>1. CASE Sentence
  BY <1>1 DEF Sentence
<1>2. CASE Disconnect
  BY <1>2 DEF Disconnect
<1>3. CASE Cleanup
  <2>1. CASE sdk' = Off /\ old' = Off /\ kept' = FALSE /\ UNCHANGED failures
    BY <1>3, <2>1 DEF Cleanup
  <2>2. CASE Fail /\ kept' = TRUE /\ UNCHANGED <<sdk, old>>
    <3>1. failures' \in 0..MaxFailures
      BY <2>2, BoundAssumption DEF Fail
    <3> QED
      BY <1>3, <2>2, <3>1 DEF Cleanup
  <2> QED
    BY <1>3, <2>1, <2>2 DEF Cleanup
<1>4. CASE Upload
  BY <1>4 DEF Upload
<1> QED
  BY <1>1, <1>2, <1>3, <1>4 DEF Callback

\* The reports of the SDK keep it, wherever the node's thread is.
LEMMA SdkKeeps ==
    ASSUME IInv, Sdk
    PROVE  IInv'
<1>0. UNCHANGED <<third, pc, caller, kept>>
  BY DEF Sdk
<1>1. sdk \in Sessions /\ old \in Sessions
  BY DEF IInv, TypeOK
<1>2. TypeOK'
  <2>1. CASE Report(sdk, sdk') /\ UNCHANGED old
    <3>1. sdk' \in Sessions /\ flags' \subseteq {"socket", "calib", "auth"} /\ status' \in BOOLEAN
          /\ failures' \in 0..MaxFailures
      BY <1>0, <1>1, <2>1, ReportKeepsType DEF IInv
    <3> QED
      BY <1>0, <2>1, <3>1 DEF IInv, TypeOK, Sessions
  <2>2. CASE Report(old, old') /\ UNCHANGED sdk
    <3>1. old' \in Sessions /\ flags' \subseteq {"socket", "calib", "auth"} /\ status' \in BOOLEAN
          /\ failures' \in 0..MaxFailures
      BY <1>0, <1>1, <2>2, ReportKeepsType DEF IInv
    <3> QED
      BY <1>0, <2>2, <3>1 DEF IInv, TypeOK, Sessions
  <2> QED
    BY <2>1, <2>2 DEF Sdk
<1>3. StatusWhen'
  <2>1. status' => status
    BY DEF Sdk, Report, Answer, SocketUp, SocketAgain, SocketLost, CalibDone, AuthDone, AuthEnds,
           Succeeded, Failed
  <2> QED
    BY <1>0, <2>1 DEF IInv, StatusWhen
<1>4. CASE kept
  BY <1>0, <1>2, <1>3, <1>4
  DEF IInv, Phases, FlagsMean, SessionAuthenticated, AuthAfterCalibration
<1>5. CASE ~kept
  <2>1. Report(sdk, sdk') /\ UNCHANGED old
    BY <1>5 DEF Sdk, IInv, Phases, Off, Report, Answer, SocketUp, SocketAgain, SocketLost,
                CalibDone, AuthDone, AuthEnds
  <2> USE <1>0, <1>1, <1>2, <1>3, <1>5 DEF IInv, Phases, FlagsMean, StatusWhen, Sessions,
          SessionAuthenticated, Claims, AuthAfterCalibration, Off, Ready, Succeeded, Failed,
          Raise, Clear, TypeOK
  <2>2. CASE SocketUp(sdk, sdk')
    BY <2>1, <2>2 DEF SocketUp
  <2>3. CASE CalibDone(sdk, sdk')
    <3>1. CASE sdk' = [sdk EXCEPT !.calib = "done"] /\ Succeeded("calib")
      BY <2>1, <2>3, <3>1 DEF CalibDone
    <3>2. CASE sdk' = [sdk EXCEPT !.calib = "no"] /\ Failed("calib")
      BY <2>1, <2>3, <3>2 DEF CalibDone
    <3> QED
      BY <2>3, <3>1, <3>2 DEF CalibDone
  <2>4. CASE AuthDone(sdk, sdk')
    <3>1. CASE sdk' = [sdk EXCEPT !.auth = "yes"] /\ Succeeded("auth")
      BY <2>1, <2>4, <3>1 DEF AuthDone
    <3>2. CASE sdk' = [sdk EXCEPT !.auth = "denied"] /\ Failed("auth")
      BY <2>1, <2>4, <3>2 DEF AuthDone
    <3> QED
      BY <2>4, <3>1, <3>2 DEF AuthDone
  <2>5. CASE SocketAgain(sdk, sdk')
    BY <2>1, <2>5 DEF SocketAgain
  <2>6. CASE SocketLost(sdk, sdk')
    BY <2>1, <2>6 DEF SocketLost
  <2>7. CASE AuthEnds(sdk, sdk')
    BY <2>1, <2>7 DEF AuthEnds
  <2> QED
    BY <2>1, <2>2, <2>3, <2>4, <2>5, <2>6, <2>7 DEF Report, Answer
<1> QED
  BY <1>4, <1>5

\* The invariant holds in every state.
THEOREM Invariance == Spec => []IInv
<1>1. Init => IInv
  <2> SUFFICES ASSUME Init PROVE IInv
    OBVIOUS
  <2>1. failures \in 0..MaxFailures
    BY BoundAssumption DEF Init
  <2>2. TypeOK
    BY <2>1 DEF Init, TypeOK, Sessions, Off
  <2> QED
    BY <2>2 DEF Init, IInv, Phases, FlagsMean, StatusWhen, SessionAuthenticated, Claims,
                AuthAfterCalibration
<1>2. IInv /\ [Next]_vars => IInv'
  <2> SUFFICES ASSUME IInv, [Next]_vars PROVE IInv'
    OBVIOUS
  <2>1. CASE Next
    BY <2>1, ConnectKeeps, CallbackKeeps, SdkKeeps DEF Next
  <2>2. CASE UNCHANGED vars
    BY <2>2 DEF vars, IInv, TypeOK, Phases, FlagsMean, StatusWhen, SessionAuthenticated,
                Claims, AuthAfterCalibration, Sessions
  <2> QED
    BY <2>1, <2>2
<1> QED
  BY <1>1, <1>2, PTL DEF Spec

\* Every variable keeps its type.
THEOREM TypeCorrect == Spec => []TypeOK
<1>1. IInv => TypeOK
  BY DEF IInv
<1> QED
  BY <1>1, Invariance, PTL

\* As long as the cleanups succeed, a true status is the present session's.
THEOREM StatusIsOfSession == Spec => []SessionAuthenticated
<1>1. IInv => SessionAuthenticated
  BY DEF IInv
<1> QED
  BY <1>1, Invariance, PTL

\* As long as the cleanups succeed, the SDK authenticates only what this
\* session has calibrated.
THEOREM AuthenticatesCalibrated == Spec => []AuthAfterCalibration
<1>1. IInv => AuthAfterCalibration
  BY DEF IInv
<1> QED
  BY <1>1, Invariance, PTL

=============================================================================
