------------------------------ MODULE NtripServer ------------------------------
(***************************************************************************)
(* NtripServerLaunchNode and swas_server: one thread connects and then     *)
(* spins, reconnecting whenever an NMEA sentence arrives and the status is *)
(* not true; the SDK's thread reports through callbacks that set the flags *)
(* and the status.  Nothing is locked.                                     *)
(*                                                                         *)
(* The SDK is a library without source: its state is what its header and   *)
(* the calls of swas_server say of it.  It may report a socket that is up  *)
(* again and again (swas_sdk.h:188), lose it, and bring it up anew; any    *)
(* call may be refused, the cleanup too, which leaves the session alive    *)
(* and reporting; a cleanup that succeeds ends its reports.  A callback is *)
(* one step.  "In progress" reports, the corrections and the signal        *)
(* handler are left out, and so is the early return of a connect() with    *)
(* true status: the node never calls it then.                              *)
(***************************************************************************)
EXTENDS Naturals

CONSTANT MaxFailures    \* bound: calls, answers, sockets and authentications that fail

ASSUME BoundAssumption == MaxFailures \in Nat

VARIABLES
    third,      \* login_type is third_cors
    status,     \* swas_status
    flags,      \* which of the three success flags are true
    pc,         \* where the node's thread is
    caller,     \* who called connect()
    sdk,        \* the SDK's session: how far it is, the socket that is up, and
                \* what has become of its calibration and authentication
    kept,       \* a swas_sdk_cleanup has failed since the last that succeeded
    old,        \* the session that lives on beside a later one, if kept
    failures

vars == <<third, status, flags, pc, caller, sdk, kept, old, failures>>

Off == [phase |-> "off", socket |-> "none", calib |-> "no", auth |-> "no"]
Ready == [Off EXCEPT !.phase = "ready"]

Fail == failures < MaxFailures /\ failures' = failures + 1
Raise(f) == flags' = flags \cup {f}
Clear(S) == flags' = flags \ S
Goto(label) == pc' = label

-----------------------------------------------------------------------------
(* connect() *)

\* To main, which spins, or to the callback, which goes on if it is ok.
Return(ok) ==
    /\ Goto(IF caller = "gga" /\ ok THEN "upload" ELSE "idle")
    /\ UNCHANGED <<third, caller, kept, old>>

\* (Faulty: the flags were cleared by disconnect() already.)
ResetNothing ==
    /\ pc = "connect"
    /\ Goto("init")
    /\ UNCHANGED <<third, status, flags, caller, sdk, kept, old, failures>>
Reset ==
    /\ pc = "connect"
    /\ flags' = {}
    /\ Goto("init")
    /\ UNCHANGED <<third, status, caller, sdk, kept, old, failures>>

\* A failure is logged only, and leaves whatever session there is.
InitSdk ==
    /\ pc = "init"
    /\ \/ /\ sdk' = Ready
          /\ old' = IF sdk.phase = "started" THEN sdk ELSE old
          /\ UNCHANGED failures
       \/ Fail /\ UNCHANGED <<sdk, old>>
    /\ Goto("start")
    /\ UNCHANGED <<third, status, flags, caller, kept>>

StartSocket ==
    /\ pc = "start"
    /\ \/ /\ sdk.phase # "off"
          /\ sdk' = [sdk EXCEPT !.phase = "started"]
          /\ Goto("waitSocket")
          /\ UNCHANGED <<third, caller, kept, old, failures>>
       \/ /\ IF sdk.phase = "off" THEN UNCHANGED failures ELSE Fail
          /\ Return(FALSE)
          /\ UNCHANGED sdk
    /\ UNCHANGED <<status, flags>>

\* (Faulty: whatever the login type.)
WaitSocketCalibrates ==
    /\ pc = "waitSocket"
    /\ "socket" \in flags
    /\ Clear({"socket"})
    /\ Goto("calib")
    /\ UNCHANGED <<third, status, caller, sdk, kept, old, failures>>
WaitSocket ==
    /\ pc = "waitSocket"
    /\ "socket" \in flags
    /\ Clear({"socket"})
    /\ Goto(IF third THEN "auth" ELSE "calib")
    /\ UNCHANGED <<third, status, caller, sdk, kept, old, failures>>

\* A failure is logged only.
Calib ==
    /\ pc = "calib"
    /\ \/ sdk' = [sdk EXCEPT !.calib = "asked"] /\ UNCHANGED failures
       \/ Fail /\ UNCHANGED sdk
    /\ Goto("waitCalib")
    /\ UNCHANGED <<third, status, flags, caller, kept, old>>

\* (Faulty: either of the two is enough.)
WaitCalibEither ==
    /\ pc = "waitCalib"
    /\ flags \cap {"calib", "socket"} # {}
    /\ Clear({"calib", "socket"})
    /\ Goto("auth")
    /\ UNCHANGED <<third, status, caller, sdk, kept, old, failures>>
WaitCalib ==
    /\ pc = "waitCalib"
    /\ {"calib", "socket"} \subseteq flags
    /\ Clear({"calib", "socket"})
    /\ Goto("auth")
    /\ UNCHANGED <<third, status, caller, sdk, kept, old, failures>>

Auth ==
    /\ pc = "auth"
    /\ \/ /\ sdk' = [sdk EXCEPT !.auth = "asked"]
          /\ Goto("waitAuth")
          /\ UNCHANGED <<third, caller, kept, old, failures>>
       \/ Fail /\ Return(FALSE) /\ UNCHANGED sdk
    /\ UNCHANGED <<status, flags>>

WaitAuth ==
    /\ pc = "waitAuth"
    /\ "auth" \in flags
    /\ Clear({"auth"})
    /\ Goto("claim")
    /\ UNCHANGED <<third, status, caller, sdk, kept, old, failures>>

\* swas_status = SWAS_TRUE, whatever a callback has done to it since.
Claim ==
    /\ pc = "claim"
    /\ status' = TRUE
    /\ Return(TRUE)
    /\ UNCHANGED <<flags, sdk, failures>>

\* The socket that session s is to have: its calibration names the server that
\* authenticates.
Wanted(s) == IF third \/ s.calib = "done" THEN "auth" ELSE "calib"

\* What is waited for has come, or comes if nothing fails.
Coming ==
    \/ /\ pc = "waitSocket"
       /\ "socket" \in flags \/ sdk.socket # Wanted(sdk)
    \/ /\ pc = "waitCalib"
       /\ \/ {"calib", "socket"} \subseteq flags
          \/ sdk.calib = "asked"
          \/ sdk.calib = "done" /\ "calib" \in flags /\ sdk.socket # Wanted(sdk)
    \/ /\ pc = "waitAuth"
       /\ "auth" \in flags \/ (sdk.auth = "asked" /\ Wanted(sdk) = "auth")

\* SWAS_TRY_TIME is over.  It may be over just before an answer that comes, but
\* that counts as a failure.
Timeout ==
    /\ pc \in {"waitSocket", "waitCalib", "waitAuth"}
    /\ IF Coming THEN Fail ELSE UNCHANGED failures
    /\ Return(FALSE)
    /\ UNCHANGED <<status, flags, sdk>>

Connect ==
    \/ Reset \/ InitSdk \/ StartSocket \/ WaitSocket \/ Calib \/ WaitCalib
    \/ Auth \/ WaitAuth \/ Claim \/ Timeout

-----------------------------------------------------------------------------
(* client_gpgga_callback *)

\* (Faulty: no reconnection.)
SentenceDropped ==
    /\ pc = "idle"
    /\ caller' = "gga"
    /\ Goto(IF status THEN "upload" ELSE "idle")
    /\ UNCHANGED <<third, status, flags, sdk, kept, old, failures>>
Sentence ==
    /\ pc = "idle"
    /\ caller' = "gga"
    /\ Goto(IF status THEN "upload" ELSE "disconnect")
    /\ UNCHANGED <<third, status, flags, sdk, kept, old, failures>>

\* disconnect() up to swas_sdk_cleanup.
Disconnect ==
    /\ pc = "disconnect"
    /\ status' = FALSE
    /\ flags' = {}
    /\ Goto("cleanup")
    /\ UNCHANGED <<third, caller, sdk, kept, old, failures>>

\* The caller ignores whether it succeeded.
Cleanup ==
    /\ pc = "cleanup"
    /\ \/ sdk' = Off /\ old' = Off /\ kept' = FALSE /\ UNCHANGED failures
       \/ Fail /\ kept' = TRUE /\ UNCHANGED <<sdk, old>>
    /\ Goto("connect")
    /\ UNCHANGED <<third, status, flags, caller>>

\* A GGA of the right frame is uploaded, anything else is not.
Upload ==
    /\ pc = "upload"
    /\ Goto("idle")
    /\ UNCHANGED <<third, status, flags, caller, sdk, kept, old, failures>>

Callback == Sentence \/ Disconnect \/ Cleanup \/ Upload

-----------------------------------------------------------------------------
(* The SDK's thread, with the callback each step ends in *)

\* calib_callback and auth_callback of a failure.
Failed(f) == Fail /\ Clear({f}) /\ status' = FALSE
Succeeded(f) == Raise(f) /\ UNCHANGED <<status, failures>>

\* In the following, session s reports and becomes t.

SocketUp(s, t) ==
    /\ s.phase = "started" /\ s.socket # Wanted(s)
    /\ t = [s EXCEPT !.socket = Wanted(s)]
    /\ Succeeded("socket")

\* The status is updated continuously.
SocketAgain(s, t) ==
    /\ s.socket # "none"
    /\ t = s
    /\ Succeeded("socket")

\* status_callback looks at no other code than that of an available network.
SocketLost(s, t) ==
    /\ s.socket # "none"
    /\ t = [s EXCEPT !.socket = "none"]
    /\ Fail
    /\ UNCHANGED <<status, flags>>

CalibDone(s, t) ==
    /\ s.calib = "asked" /\ s.socket # "none"
    /\ \/ t = [s EXCEPT !.calib = "done"] /\ Succeeded("calib")
       \/ t = [s EXCEPT !.calib = "no"] /\ Failed("calib")

AuthDone(s, t) ==
    /\ s.auth = "asked" /\ s.socket = "auth"
    /\ \/ t = [s EXCEPT !.auth = "yes"] /\ Succeeded("auth")
       \/ t = [s EXCEPT !.auth = "denied"] /\ Failed("auth")

\* The authentication ends, as when its validity period does.
AuthEnds(s, t) ==
    /\ s.auth = "yes"
    /\ t = [s EXCEPT !.auth = "ended"]
    /\ Failed("auth")

Answer(s, t) == SocketUp(s, t) \/ CalibDone(s, t) \/ AuthDone(s, t)
Report(s, t) == Answer(s, t) \/ SocketAgain(s, t) \/ SocketLost(s, t) \/ AuthEnds(s, t)

\* A session that was not cleaned up reports beside the one that followed it.
Sdk ==
    /\ \/ Report(sdk, sdk') /\ UNCHANGED old
       \/ Report(old, old') /\ UNCHANGED sdk
    /\ UNCHANGED <<third, pc, caller, kept>>

Init ==
    /\ third \in BOOLEAN
    /\ status = FALSE
    /\ flags = {}
    /\ pc = "connect"
    /\ caller = "main"
    /\ sdk = Off
    /\ kept = FALSE
    /\ old = Off
    /\ failures = 0

Next == Connect \/ Callback \/ Sdk

\* The node's thread runs and sentences keep arriving; the SDK brings its
\* socket up and answers.
Spec == Init /\ [][Next]_vars
FairSpec ==
    /\ Spec
    /\ WF_vars(Connect \/ Callback)
    /\ WF_vars(Answer(sdk, sdk') /\ UNCHANGED <<third, pc, caller, kept, old>>)

-----------------------------------------------------------------------------
(* Properties *)

Sessions ==
    [phase : {"off", "ready", "started"},
     socket : {"none", "auth"} \cup IF third THEN {} ELSE {"calib"},
     calib : {"no"} \cup IF third THEN {} ELSE {"asked", "done"},
     auth : {"no", "asked", "yes", "denied", "ended"}]

\* A third party's CORS is never calibrated.
TypeOK ==
    /\ third \in BOOLEAN
    /\ status \in BOOLEAN
    /\ flags \subseteq {"socket", "calib", "auth"}
    /\ pc \in {"connect", "init", "start", "waitSocket", "waitAuth", "auth", "claim", "idle",
               "upload", "disconnect", "cleanup"} \cup IF third THEN {} ELSE {"calib", "waitCalib"}
    /\ caller \in {"main", "gga"}
    /\ sdk \in Sessions /\ old \in Sessions
    /\ kept \in BOOLEAN
    /\ failures \in 0..MaxFailures

\* The node takes itself to be connected, or is about to.
Claims == status \/ pc \in {"claim", "upload"}

\* As long as the cleanups succeed, a status that is true, or about to be, is
\* that of this session: the SDK has authenticated since it was last initialised.
\* No late report of an earlier session (swas_server.cpp:23) opens a new one.
SessionAuthenticated == ~kept /\ Claims => sdk.auth \in {"yes", "ended"}

\* As long as the cleanups succeed, swas_sdk_auth is called only when this
\* session's calibration has succeeded (swas_server.cpp:84), however often the
\* calibration's socket is reported and whenever it is lost.
AuthAfterCalibration == ~kept /\ pc = "auth" /\ ~third => sdk.calib = "done"

\* The status is about to be set over an authentication that has ended since, or
\* on the word of an old session.
Overtaken == pc = "claim" /\ sdk.auth # "yes"

\* Whatever fails, and however late the answers, once nothing fails any more the
\* node is connected, authenticated and on its socket, and stays so: unless its
\* status has ever been set over a failure (swas_server.cpp:136), or on the answer
\* of an old session whose cleanup failed (NtripServerLaunchNode.cpp:351).
Reconnects == []~Overtaken => <>[](status /\ sdk.auth = "yes" /\ sdk.socket = "auth")

\* NtripServerLaunchNode.cpp:146-147: if the authentication fails,
\* swas_sdk_auth must be called again.
Reauthenticates == sdk.auth \in {"denied", "ended"} ~> sdk.auth = "asked"

=============================================================================
