----------------------------- MODULE SyncProofs ------------------------------
(***************************************************************************)
(* Proofs about Sync: its types, the rows of the notification dialog, and  *)
(* that no upload takes the server back to an older version.  They need no *)
(* assumption on the server's answers, the number of accounts or the bounds. *)
(***************************************************************************)
EXTENDS SyncInv, TLAPS

(* A request of the agent is made.                                         *)
Asking ==
  \/ StartupLogin \/ Logout
  \/ \E a \in Accounts : Login(a) \/ Register(a)
  \/ \E k \in Lists : Upload(k) \/ Download(k)

LEMMA ListsApart ==
  ASSUME NEW k \in Lists
  PROVE  k \notin {"none", "idle", "waiting", "downloading", "asserting",
                   "setting", "entering", "quitting"}
BY SyncAssumption

LEMMA TypedStart == Init => TypeOK
BY SyncAssumption
   DEF Init, TypeOK, Stamps, NoStamps, Users, NoUser, Prefs, FirstPrefs, LoginScreens,
       Cookies, NoRows, Requests, NoRequest, Operations, Replies, NoReply, Answer, Codes, Served

LEMMA AnswersTyped ==
  /\ NoStamps \in Stamps
  /\ NoReply \in Replies
  /\ \A code \in Codes : Answer(code) \in Replies
  /\ \A code \in Codes, ts \in Stamps : AnswerWith(code, ts) \in Replies
BY DEF NoReply, Answer, AnswerWith, Replies, Codes, Stamps, NoStamps

(* What a handler leaves alone keeps its type.                             *)
LEMMA TypedAsk ==
  ASSUME TypeOK, NEW r \in Requests, Ask(r)
  PROVE  TypeOK'
<1>1. CASE ProgressShown
  <2>1. main' = "waiting" /\ request' = r /\ reply' = NoReply /\ alive' = alive
    BY <1>1 DEF Ask
  <2> QED  BY <2>1, AnswersTyped DEF Ask, TypeOK, program, account, world, device
<1>2. CASE ~ProgressShown
  <2>1. alive' = FALSE /\ main' = "asserting" /\ request' = request /\ reply' = reply
    BY <1>2 DEF Ask
  <2> QED  BY <2>1 DEF Ask, TypeOK, program, account, world, device
<1> QED  BY <1>1, <1>2

LEMMA RequestsTyped ==
  /\ NoRequest \in Requests
  /\ \A op \in Operations, a \in Accounts :
       [NoRequest EXCEPT !.op = op, !.account = a] \in Requests
BY DEF NoRequest, Requests, Operations

LEMMA TypedAsks ==
  ASSUME TypeOK, Asking
  PROVE  TypeOK'
<1>1. CASE StartupLogin
  <2>1. prefs.name \in Accounts  BY <1>1 DEF StartupLogin, TypeOK, Prefs
  <2>2. [NoRequest EXCEPT !.op = "startup", !.account = prefs.name] \in Requests
    BY <2>1, RequestsTyped DEF Operations
  <2> QED  BY <1>1, <2>2, TypedAsk DEF StartupLogin
<1>2. ASSUME NEW a \in Accounts, Login(a) PROVE TypeOK'
  <2>1. [NoRequest EXCEPT !.op = "login", !.account = a] \in Requests
    BY RequestsTyped DEF Operations
  <2> QED  BY <1>2, <2>1, TypedAsk DEF Login
<1>3. ASSUME NEW a \in Accounts, Register(a) PROVE TypeOK'
  <2>1. [NoRequest EXCEPT !.op = "register", !.account = a] \in Requests
    BY RequestsTyped DEF Operations
  <2> QED  BY <1>3, <2>1, TypedAsk DEF Register
<1>4. CASE Logout
  <2>1. user.account \in Accounts  BY <1>4 DEF Logout, LoggedIn, TypeOK, Users
  <2>2. [NoRequest EXCEPT !.op = "logout", !.account = user.account] \in Requests
    BY <2>1, RequestsTyped DEF Operations
  <2> QED  BY <1>4, <2>2, TypedAsk DEF Logout
<1>5. ASSUME NEW k \in Lists, Upload(k) PROVE TypeOK'
  <2>1. [op |-> "upload", account |-> user.account, list |-> k,
         stamp |-> memory[k], data |-> file[k]] \in Requests
    BY DEF TypeOK, Users, Stamps, Requests, Operations
  <2> QED  BY <1>5, <2>1, TypedAsk DEF Upload
<1>6. ASSUME NEW k \in Lists, Download(k) PROVE TypeOK'
  <2>1. [NoRequest EXCEPT !.op = "download", !.account = user.account, !.list = k] \in Requests
    BY DEF TypeOK, Users, NoRequest, Requests, Operations
  <2> QED  BY <1>6, <2>1, TypedAsk DEF Download
<1> QED  BY <1>1, <1>2, <1>3, <1>4, <1>5, <1>6 DEF Asking

LEMMA RequestedOf ==
  ASSUME TypeOK, RequestInv, request.op # "none"
  PROVE  /\ request.account \in Accounts
         /\ NewUser \in Users \/ reply.ts \notin Stamps
         /\ ServedStamps(request.account) \in Stamps
         /\ ServedFiles(request.account) \in Stamps
<1>1. request.account \in Accounts  BY DEF RequestInv
<1>2. \A k \in Lists : server[request.account][k] \in Served  BY <1>1 DEF TypeOK
<1>3. ServedStamps(request.account) \in Stamps
  BY <1>2 DEF ServedStamps, Stamps, Served
<1>4. ServedFiles(request.account) \in Stamps
  BY <1>2 DEF ServedFiles, Stamps, Served
<1>5. NewUser \in Users \/ reply.ts \notin Stamps  BY <1>1 DEF NewUser, Users
<1> QED  BY <1>1, <1>3, <1>4, <1>5

LEMMA TypedServe == ASSUME TypeOK, RequestInv, Serve PROVE TypeOK'
<1> DEFINE a == request.account
<1>1. request.op # "none"  BY DEF Serve, RequestInv
<1>2. a \in Accounts /\ ServedStamps(a) \in Stamps /\ ServedFiles(a) \in Stamps
  BY <1>1, RequestedOf
<1> HIDE DEF a
<1>3. UNCHANGED <<memory, file, user, rows, prefs, savedPrefs, other, clock,
                  alive, quits, kills, screen, main, request>>
  BY DEF Serve, program, account, device, lives
<1>4. reply' \in Replies /\ holder' \in [Accounts -> {"none", "robot", "other"}]
        /\ registered' \subseteq Accounts /\ server' \in [Accounts -> [Lists -> Served]]
  <2>1. CASE ServeLogin(a)
    BY <1>2, <2>1, AnswersTyped DEF ServeLogin, Accept, TypeOK, Codes
  <2>2. CASE ServeRegister(a)
    BY <1>2, <2>2, AnswersTyped DEF ServeRegister, Accept, TypeOK, Codes
  <2>3. CASE ServeLogout(a)
    BY <1>2, <2>3, AnswersTyped DEF ServeLogout, TypeOK, Codes
  <2>4. CASE ServeUpload(a)
    <3>1. [stamp |-> request.stamp, data |-> request.data] \in Served
      BY DEF TypeOK, Requests, Served
    <3>2. server' \in [Accounts -> [Lists -> Served]]
      BY <1>2, <2>4, <3>1 DEF ServeUpload, TypeOK
    <3> QED  BY <2>4, <3>2, AnswersTyped DEF ServeUpload, TypeOK, Codes
  <2>5. CASE ServeDownload(a)
    BY <1>2, <2>5, AnswersTyped DEF ServeDownload, TypeOK, world, Codes
  <2>6. CASE Refuse(a)
    <3>1. Refusals(a) \subseteq Codes  BY DEF Refusals, Codes
    <3> QED  BY <2>6, <3>1, AnswersTyped DEF Refuse, TypeOK, world
  <2>7. CASE Fail(a)
    BY <1>2, <2>7, AnswersTyped DEF Fail, TypeOK, world, Codes
  <2> QED  BY <2>1, <2>2, <2>3, <2>4, <2>5, <2>6, <2>7 DEF Serve, a
<1> QED  BY <1>3, <1>4 DEF TypeOK

LEMMA PrefsTyped ==
  \A p \in Prefs, a \in Accounts :
    /\ [p EXCEPT !.name = a] \in Prefs
    /\ [p EXCEPT !.startup = TRUE] \in Prefs
    /\ [p EXCEPT !.startup = FALSE] \in Prefs
BY DEF Prefs

LEMMA TypedAnswers ==
  ASSUME TypeOK, RequestInv,
         \/ StartupAnswer \/ LoginAnswer \/ RegisterAnswer \/ LogoutAnswer \/ UploadAnswer
         \/ DownloadTruncates \/ DownloadWrites \/ DownloadAnswer \/ LoseReply
  PROVE  TypeOK'
<1> DEFINE k == request.list
<1>0. /\ request.op # "none" => request.account \in Accounts /\ NewUser \in Users
      /\ NoRequest \in Requests /\ NoReply \in Replies
  BY RequestedOf, RequestsTyped, AnswersTyped DEF TypeOK, Replies
<1>1. CASE StartupAnswer
  BY <1>0, <1>1 DEF StartupAnswer, Answered, RequestDone, Forget, NextScreen, TypeOK,
     LoginScreens,
       account, world, device, lives
<1>2. CASE LoginAnswer
  <2>1. FirstPrefs \in Prefs /\ prefs \in Prefs  BY DEF FirstPrefs, Prefs, TypeOK
  <2>2. CASE Welcome
    <3>1. prefs' \in Prefs
      <4>1. prefs' = [prefs EXCEPT !.name = request.account]
        BY <1>2, <2>2 DEF LoginAnswer
      <4>2. request.account \in Accounts
        BY <1>0, <1>2 DEF LoginAnswer, Answered
      <4> QED  BY <2>1, <4>1, <4>2, PrefsTyped
    <3> QED  BY <1>0, <1>2, <2>1, <2>2, <3>1 DEF LoginAnswer, Answered, Forget, WritePreferences,
                 WritingPreferences, TypeOK, world, device, lives
  <2>3. CASE ~Welcome
    BY <1>0, <1>2, <2>3 DEF LoginAnswer, Forget, TypeOK, account, world, device, lives
  <2> QED  BY <2>2, <2>3
<1>3. CASE RegisterAnswer
  <2>1. CASE Welcome
    <3>1. prefs' \in Prefs  BY <1>3, <2>1 DEF RegisterAnswer, TypeOK, Prefs
    <3> QED  BY <1>0, <1>3, <2>1, <3>1 DEF RegisterAnswer, Answered, RequestDone, Forget, TypeOK,
                 world, device, lives
  <2>2. CASE ~Welcome
    BY <1>0, <1>3, <2>2 DEF RegisterAnswer, RequestDone, Forget, TypeOK, world, device,
       lives
  <2> QED  BY <2>1, <2>2
<1>4. CASE LogoutAnswer
  <2>1. user' \in Users /\ prefs' \in Prefs
          /\ screen' \in LoginScreens \cup {"startup", "home", "notification"}
    <3>1. request.account \in Accounts /\ [user EXCEPT !.account = "none"] \in Users
            /\ [prefs EXCEPT !.startup = FALSE] \in Prefs
      BY <1>0, <1>4, PrefsTyped DEF LogoutAnswer, Answered, TypeOK, Users
    <3> QED  BY <1>4, <3>1 DEF LogoutAnswer, TypeOK, LoginScreens
  <2> QED  BY <1>0, <1>4, <2>1 DEF LogoutAnswer, RequestDone, Forget, TypeOK, world, device, lives
<1>5. [user EXCEPT !.account = "none"] \in Users /\ NoRows \in [Lists -> Cookies]
        /\ [rows EXCEPT ![k] = "none"] \in [Lists -> Cookies]
  BY DEF TypeOK, Users, NoRows, Cookies
<1>6. CASE UploadAnswer
  <2>1. [user EXCEPT !.ts[k] = memory[k]] \in Users  BY DEF TypeOK, Users, Stamps
  <2>2. user' \in Users /\ rows' \in [Lists -> Cookies]
          /\ screen' \in LoginScreens \cup {"startup", "home", "notification"}
    BY <1>5, <1>6, <2>1 DEF UploadAnswer, EraseRow, LoggedInElsewhere, TypeOK,
       LoginScreens
  <2> QED  BY <1>0, <1>6, <2>2 DEF UploadAnswer, RequestDone, Forget, TypeOK, account, world, device, lives
<1>7. CASE DownloadTruncates
  <2>1. file' \in Stamps  BY <1>7 DEF DownloadTruncates, TypeOK, Stamps
  <2> QED  BY <1>7, <2>1 DEF DownloadTruncates, TypeOK, account, world, device, lives
<1>8. CASE DownloadWrites
  <2>1. file' \in Stamps
    BY <1>8 DEF DownloadWrites, TypeOK, Stamps, Replies
  <2>2. [memory EXCEPT ![k] = Loaded(k, file')] \in Stamps
    BY <2>1 DEF Loaded, TypeOK, Stamps
  <2>3. memory' \in Stamps /\ rows' \in [Lists -> Cookies]
    BY <1>5, <1>8, <2>2 DEF DownloadWrites, EraseRow, TypeOK
  <2> QED  BY <1>0, <1>8, <2>1, <2>3 DEF DownloadWrites, RequestDone, Forget, TypeOK,
               account, world, device, lives
<1>9. CASE DownloadAnswer
  <2>1. [memory EXCEPT ![k] = Loaded(k, file)] \in Stamps
    BY DEF Loaded, TypeOK, Stamps
  <2>2. user' \in Users /\ rows' \in [Lists -> Cookies] /\ memory' \in Stamps
          /\ screen' \in LoginScreens \cup {"startup", "home", "notification"}
    BY <1>5, <1>9, <2>1 DEF DownloadAnswer, EraseRow, LoggedInElsewhere, TypeOK,
       LoginScreens
  <2> QED  BY <1>0, <1>9, <2>2 DEF DownloadAnswer, RequestDone, Forget, TypeOK, account, world, device, lives
<1>10. CASE LoseReply
  <2>1. reply' \in Replies  BY <1>10, AnswersTyped DEF LoseReply, Codes
  <2> QED  BY <1>10, <2>1 DEF LoseReply, TypeOK, program, account, world, device, lives
<1> QED  BY <1>1, <1>2, <1>3, <1>4, <1>6, <1>7, <1>8, <1>9, <1>10

LEMMA TypedQuiet ==
  ASSUME TypeOK,
         \/ NoStartupLogin \/ CloseLogin \/ OpenLogin \/ OpenNotification
         \/ CloseNotification \/ LeaveHome \/ ChangeSetting \/ FinishPreferences \/ Quit \/ Kill \/ Restart
         \/ FinishWrite
         \/ \E a \in Accounts : OtherLogin(a)
         \/ \E k \in Lists : Save(k) \/ OtherSave(k)
         \/ \E a \in Accounts, k \in Lists : OtherUpload(a, k)
  PROVE  TypeOK'
<1> USE DEF program, account, world, device, lives, Idle
<1>1. CASE NoStartupLogin
  BY <1>1 DEF NoStartupLogin, TypeOK, LoginScreens
<1>2. CASE CloseLogin
  BY <1>2 DEF CloseLogin, TypeOK, LoginScreens
<1>3. CASE OpenLogin
  BY <1>3 DEF OpenLogin, TypeOK, LoginScreens
<1>4. CASE OpenNotification
  <2>1. \A j \in Lists : RowOf(j) \in Cookies  BY DEF RowOf, Cookies
  <2> QED  BY <1>4, <2>1 DEF OpenNotification, TypeOK
<1>5. CASE CloseNotification
  BY <1>5 DEF CloseNotification, NextScreen, NoRows, Cookies, TypeOK, LoginScreens
<1>6. CASE LeaveHome
  BY <1>6 DEF LeaveHome, NextScreen, TypeOK, LoginScreens
<1>7. CASE ChangeSetting
  <2>1. FirstPrefs \in Prefs  BY DEF FirstPrefs, Prefs
  <2> QED  BY <1>7, <2>1 DEF ChangeSetting, WritePreferences, WritingPreferences, TypeOK
<1>8. CASE Quit
  <2>1. FirstPrefs \in Prefs  BY DEF FirstPrefs, Prefs
  <2> QED  BY <1>8, <2>1 DEF Quit, WritePreferences, WritingPreferences, TypeOK
<1>16. CASE FinishPreferences
  <2>1. prefs' \in Prefs /\ screen' \in LoginScreens \cup {"startup", "home", "notification"}
    BY <1>16 DEF FinishPreferences, TypeOK, Prefs
  <2>2. alive' \in BOOLEAN  BY <1>16, Zenon DEF FinishPreferences, TypeOK
  <2>3. /\ savedPrefs' = prefs /\ main' = "idle"
        /\ UNCHANGED <<memory, file, user, rows, server, holder, registered, other, clock,
                       quits, kills, request, reply>>
    BY <1>16 DEF FinishPreferences
  <2> HIDE DEF program, account, world, device, lives
  <2> QED  BY <2>1, <2>2, <2>3, Zenon DEF TypeOK
<1>9. CASE Kill
  <2>1. kills' \in Nat  BY <1>9 DEF Kill, TypeOK
  <2>2. alive' \in BOOLEAN  BY <1>9, Zenon DEF Kill
  <2>3. UNCHANGED <<memory, file, user, rows, prefs, savedPrefs, server,
          holder, registered, other, clock, quits, screen, main, request, reply>>
    BY <1>9 DEF Kill
  <2> HIDE DEF program, account, world, device, lives
  <2> QED  BY <2>1, <2>2, <2>3, Zenon DEF TypeOK
<1>10. CASE Restart
  <2>1. NoUser \in Users /\ NoRows \in [Lists -> Cookies]
    BY DEF NoUser, Users, NoStamps, Stamps, NoRows, Cookies
  <2> QED  BY <1>10, <2>1, RequestsTyped, AnswersTyped DEF Restart, RequestDone, Forget, TypeOK, LoginScreens
<1>11. CASE FinishWrite
  <2>1. file' \in Stamps  BY <1>11 DEF FinishWrite, TypeOK, Stamps
  <2> QED  BY <1>11, <2>1 DEF FinishWrite, TypeOK
<1>12. ASSUME NEW k \in Lists, Save(k) PROVE TypeOK'
  <2>1. memory' \in Stamps /\ file' \in Stamps /\ clock' \in Nat
    BY <1>12 DEF Save, TypeOK, Stamps
  <2> QED  BY <1>12, <2>1 DEF Save, TypeOK
<1>13. ASSUME NEW a \in Accounts, OtherLogin(a) PROVE TypeOK'
  BY <1>13 DEF OtherLogin, TypeOK
<1>14. ASSUME NEW k \in Lists, OtherSave(k) PROVE TypeOK'
  <2>1. other' \in Stamps /\ clock' \in Nat  BY <1>14 DEF OtherSave, TypeOK, Stamps
  <2> QED  BY <1>14, <2>1 DEF OtherSave, TypeOK
<1>15. ASSUME NEW a \in Accounts, NEW k \in Lists, OtherUpload(a, k) PROVE TypeOK'
  <2>1. [stamp |-> other[k], data |-> other[k]] \in Served  BY DEF TypeOK, Stamps, Served
  <2>2. server' \in [Accounts -> [Lists -> Served]]
    BY <1>15, <2>1 DEF OtherUpload, TypeOK
  <2> QED  BY <1>15, <2>2 DEF OtherUpload, TypeOK
<1> QED  BY <1>1, <1>2, <1>3, <1>4, <1>5, <1>6, <1>7, <1>8, <1>9, <1>10, <1>11, <1>12,
            <1>13, <1>14, <1>15, <1>16

LEMMA TypedStep == ASSUME TypeOK, RequestInv, [Next]_vars PROVE TypeOK'
<1>1. CASE UNCHANGED vars
  BY <1>1 DEF TypeOK, vars, program, account, world, device, lives
<1>2. CASE Next
  BY <1>2, TypedServe, TypedAnswers, TypedAsks, TypedQuiet DEF Next, Asking
<1> QED  BY <1>1, <1>2

-----------------------------------------------------------------------------
(* What the six requests have in common                                    *)

(* A request that suits the screen it comes from                           *)
Suits(r) ==
  /\ r.op # "none" /\ r.account \in Accounts
  /\ r.op \in Entering => screen \in Outside
  /\ r.op = "logout" => screen = "home"
  /\ r.op \in {"upload", "download"} =>
       screen = "notification" /\ r.list \in Lists /\ rows[r.list] = r.op
  /\ r.op \in {"logout", "upload", "download"} => r.account = user.account
  /\ r.op = "upload" => r.stamp = memory[r.list]
  /\ r.stamp <= clock /\ r.data <= clock

LEMMA RowsShown ==
  ASSUME TypeOK, ScreenInv, NEW k \in Lists, rows[k] # "none"
  PROVE  screen = "notification" /\ user.account \in Accounts
BY DEF TypeOK, ScreenInv, NoRows, Users, LoggedIn

LEMMA AskingSuits ==
  ASSUME TypeOK, ScreenInv, ClockInv, Asking
  PROVE  /\ main = "idle"
         /\ \E r : Ask(r) /\ Suits(r)
<1> USE DEF Idle, Entering, Outside, LoginScreens
<1>0. clock \in Nat  BY DEF TypeOK
<1>1. CASE StartupLogin
  <2>1. prefs.name \in Accounts  BY <1>1 DEF StartupLogin, TypeOK, Prefs
  <2>2. Suits([NoRequest EXCEPT !.op = "startup", !.account = prefs.name])
    BY <1>0, <1>1, <2>1 DEF StartupLogin, Suits, NoRequest
  <2> QED  BY <1>1, <2>2 DEF StartupLogin
<1>2. CASE Logout
  <2>1. user.account \in Accounts  BY <1>2 DEF Logout, LoggedIn, TypeOK, Users
  <2>2. Suits([NoRequest EXCEPT !.op = "logout", !.account = user.account])
    BY <1>0, <1>2, <2>1 DEF Logout, Suits, NoRequest
  <2> QED  BY <1>2, <2>2 DEF Logout
<1>3. ASSUME NEW a \in Accounts, Login(a) PROVE main = "idle" /\ \E r : Ask(r) /\ Suits(r)
  <2>1. Suits([NoRequest EXCEPT !.op = "login", !.account = a])
    BY <1>0, <1>3 DEF Login, Suits, NoRequest
  <2> QED  BY <1>3, <2>1 DEF Login
<1>4. ASSUME NEW a \in Accounts, Register(a) PROVE main = "idle" /\ \E r : Ask(r) /\ Suits(r)
  <2>1. Suits([NoRequest EXCEPT !.op = "register", !.account = a])
    BY <1>0, <1>4 DEF Register, Suits, NoRequest
  <2> QED  BY <1>4, <2>1 DEF Register
<1>5. ASSUME NEW k \in Lists, Upload(k) PROVE main = "idle" /\ \E r : Ask(r) /\ Suits(r)
  <2> DEFINE r == [op |-> "upload", account |-> user.account, list |-> k,
                   stamp |-> memory[k], data |-> file[k]]
  <2>1. user.account \in Accounts  BY <1>5, RowsShown DEF Upload
  <2>2. Suits(r)
    BY <1>5, <2>1 DEF Upload, Suits, ClockInv
  <2> QED  BY <1>5, <2>2 DEF Upload
<1>6. ASSUME NEW k \in Lists, Download(k) PROVE main = "idle" /\ \E r : Ask(r) /\ Suits(r)
  <2>1. user.account \in Accounts  BY <1>6, RowsShown DEF Download
  <2>2. Suits([NoRequest EXCEPT !.op = "download", !.account = user.account, !.list = k])
    BY <1>0, <1>6, <2>1 DEF Download, Suits, NoRequest
  <2> QED  BY <1>6, <2>2 DEF Download
<1> QED  BY <1>1, <1>2, <1>3, <1>4, <1>5, <1>6 DEF Asking

LEMMA AskKeeps ==
  ASSUME NEW r, Ask(r)
  PROVE  /\ UNCHANGED <<memory, file, user, rows, server, holder, other, clock, screen>>
         /\ \/ main' = "waiting" /\ request' = r /\ reply' = NoReply
            \/ main' = "asserting" /\ request' = request /\ reply' = reply
BY DEF Ask, program, account, world, device

-----------------------------------------------------------------------------
(* Screens and rows                                                        *)

LEMMA ScreenStep ==
  ASSUME TypeOK, ScreenInv, RequestInv, ClockInv, [Next]_vars
  PROVE  ScreenInv'
<1> USE DEF ScreenInv, LoggedIn, Outside, LoginScreens
<1>1. ASSUME UNCHANGED <<user, screen, rows>>,
             main' = main \/ (main # "entering" /\ main' # "entering")
      PROVE  ScreenInv'
  BY <1>1
<1>2. CASE Asking
  BY <1>1, <1>2, AskingSuits, AskKeeps
<1>3. CASE NoStartupLogin
  BY <1>3 DEF NoStartupLogin, Idle, program
<1>4. CASE CloseLogin
  BY <1>4 DEF CloseLogin, Idle, program
<1>5. CASE OpenLogin
  BY <1>5 DEF OpenLogin, Idle, program
<1>6. CASE OpenNotification
  <2>1. user' = user /\ screen' = "notification"  BY <1>6 DEF OpenNotification
  <2>2. user.account = "none" => rows' = NoRows
    BY <1>6 DEF OpenNotification, RowOf, NoRows
  <2> QED  BY <1>6, <2>1, <2>2 DEF OpenNotification, Idle
<1>7. CASE CloseNotification
  BY <1>7 DEF CloseNotification, NextScreen, Idle
<1>8. CASE LeaveHome
  BY <1>8 DEF LeaveHome, NextScreen, Idle
<1>9. CASE StartupAnswer
  BY <1>9 DEF StartupAnswer, Answered, RequestDone, RequestInv, Entering, NextScreen
<1>10. CASE LoginAnswer
  BY <1>1, <1>10 DEF LoginAnswer, Answered, WritePreferences, RequestInv, Entering
<1>11. CASE RegisterAnswer
  BY <1>1, <1>11 DEF RegisterAnswer, Answered, RequestDone, RequestInv, Entering
<1>12. CASE LogoutAnswer
  <2>1. rows' = NoRows  BY <1>12 DEF LogoutAnswer, Answered, RequestInv
  <2>2. UNCHANGED <<user, screen>> \/ user'.account = "none"
    BY <1>12 DEF LogoutAnswer, TypeOK, Users
  <2> QED  BY <1>12, <2>1, <2>2 DEF LogoutAnswer, Answered, RequestDone
<1>13. ASSUME LoggedInElsewhere, RequestDone PROVE ScreenInv'
  BY <1>13 DEF LoggedInElsewhere, RequestDone, TypeOK, Users
<1>14. ASSUME NEW k, EraseRow(k), UNCHANGED screen, user'.account = user.account,
              main # "entering", RequestDone
       PROVE  ScreenInv'
  BY <1>14 DEF EraseRow, RequestDone, TypeOK, NoRows
<1>15. CASE UploadAnswer
  <2>1. [user EXCEPT !.ts[request.list] = memory[request.list]].account = user.account
    BY DEF TypeOK, Users
  <2> QED  BY <1>1, <1>13, <1>14, <1>15, <2>1 DEF UploadAnswer, Answered, RequestDone
<1>16. CASE DownloadWrites
  BY <1>1, <1>14, <1>16 DEF DownloadWrites, RequestDone
<1>17. CASE DownloadAnswer
  BY <1>1, <1>13, <1>14, <1>17 DEF DownloadAnswer, Answered, RequestDone
<1>18. CASE Restart
  BY <1>18 DEF Restart, RequestDone, NoUser
<1>19. CASE FinishWrite
  BY <1>1, <1>19, ListsApart DEF FinishWrite
<1>20. CASE FinishPreferences
  BY <1>1, <1>20 DEF FinishPreferences, program
<1>21. CASE Serve \/ LoseReply \/ DownloadTruncates \/ ChangeSetting \/ Quit \/ Kill
  BY <1>1, <1>21 DEF Serve, LoseReply, DownloadTruncates, Answered, ChangeSetting, Quit,
     Idle, WritePreferences, Kill, program
<1>22. CASE \/ \E a \in Accounts : OtherLogin(a)
            \/ \E k \in Lists : Save(k) \/ OtherSave(k)
            \/ \E a \in Accounts, k \in Lists : OtherUpload(a, k)
  BY <1>1, <1>22, ListsApart DEF Idle, OtherLogin, Save, OtherSave, OtherUpload, program
<1>23. CASE UNCHANGED vars
  BY <1>1, <1>23 DEF vars, program
<1> QED
  BY <1>2, <1>3, <1>4, <1>5, <1>6, <1>7, <1>8, <1>9, <1>10, <1>11, <1>12, <1>15, <1>16,
     <1>17, <1>18, <1>19, <1>22, <1>23, <1>20, <1>21 DEF Next, Asking

-----------------------------------------------------------------------------
(* Requests                                                                *)

LEMMA RequestStep ==
  ASSUME TypeOK, ScreenInv, RequestInv, ClockInv, [Next]_vars
  PROVE  RequestInv'
<1>1. ASSUME UNCHANGED <<request, main, screen, rows, user, memory>> PROVE RequestInv'
  BY <1>1 DEF RequestInv
<1>2. ASSUME Forget, main' \in {"idle", "entering"} PROVE RequestInv'
  BY <1>2 DEF Forget, RequestInv, NoRequest, Entering
<1>3. ASSUME main \in {"idle"} \cup WritingPreferences, request' = request,
             main' \in Lists \cup {"idle"} \cup WritingPreferences
      PROVE  RequestInv'
  <2>1. request'.op = "none" /\ main' \notin {"waiting", "downloading"}
    BY <1>3, ListsApart DEF RequestInv, WritingPreferences
  <2> QED  BY <2>1 DEF RequestInv, Entering
<1>4. CASE Asking
  <2>1. PICK r : Ask(r) /\ Suits(r)  BY <1>4, AskingSuits
  <2>2. main = "idle"  BY <1>4, AskingSuits
  <2>3. CASE main' = "waiting" /\ request' = r
    BY <2>1, <2>3, AskKeeps DEF RequestInv, Suits, Outside, LoginScreens
  <2>4. CASE main' = "asserting" /\ request' = request
    BY <2>2, <2>4 DEF RequestInv, Entering
  <2> QED  BY <2>1, <2>3, <2>4, AskKeeps
<1>5. CASE StartupAnswer \/ LoginAnswer \/ RegisterAnswer \/ LogoutAnswer \/ UploadAnswer
           \/ DownloadWrites \/ DownloadAnswer \/ Restart
  BY <1>2, <1>5 DEF StartupAnswer, LoginAnswer, RegisterAnswer, LogoutAnswer,
     UploadAnswer,
     DownloadWrites, DownloadAnswer, Restart, RequestDone, WritePreferences
<1>6. CASE NoStartupLogin \/ CloseLogin \/ OpenLogin \/ OpenNotification \/ CloseNotification
           \/ LeaveHome \/ ChangeSetting \/ FinishPreferences \/ Quit \/ \E k \in Lists : Save(k)
  BY <1>3, <1>6 DEF NoStartupLogin, CloseLogin, OpenLogin, OpenNotification,
     CloseNotification,
     LeaveHome, ChangeSetting, FinishPreferences, Quit, Save, Idle, WritePreferences,
     WritingPreferences
<1>7. CASE DownloadTruncates
  BY <1>7 DEF DownloadTruncates, Answered, RequestInv, Entering
<1>8. CASE FinishWrite
  <2>1. request'.op = "none" /\ main' = "idle"
    BY <1>8, ListsApart DEF FinishWrite, RequestInv
  <2> QED  BY <2>1 DEF RequestInv, Entering
<1>9. CASE Serve \/ LoseReply \/ Kill \/ UNCHANGED vars
  BY <1>1, <1>9 DEF Serve, LoseReply, Kill, program, vars
<1>10. CASE \/ \E a \in Accounts : OtherLogin(a)
            \/ \E k \in Lists : OtherSave(k)
            \/ \E a \in Accounts, k \in Lists : OtherUpload(a, k)
  BY <1>1, <1>10 DEF OtherLogin, OtherSave, OtherUpload, program
<1> QED
  BY <1>4, <1>5, <1>6, <1>7, <1>8, <1>9, <1>10 DEF Next, Asking

-----------------------------------------------------------------------------
(* Rows                                                                    *)

LEMMA RowsStep ==
  ASSUME TypeOK, ScreenInv, RequestInv, ClockInv, RowsTrue, [Next]_vars
  PROVE  RowsTrue'
<1>1. ASSUME UNCHANGED <<rows, user, memory>> PROVE RowsTrue'
  BY <1>1 DEF RowsTrue
<1>2. ASSUME rows' = NoRows PROVE RowsTrue'
  BY <1>2 DEF RowsTrue, NoRows
<1>3. ASSUME screen # "notification", rows' = rows PROVE RowsTrue'
  BY <1>2, <1>3 DEF ScreenInv
<1>4. ASSUME EraseRow(request.list),
             \A k \in Lists \ {request.list} :
               user'.ts[k] = user.ts[k] /\ memory'[k] = memory[k]
      PROVE  RowsTrue'
  <2>1. ASSUME NEW k \in Lists
        PROVE  rows'[k] = IF k = request.list THEN "none" ELSE rows[k]
    BY <1>4 DEF EraseRow, TypeOK
  <2> QED  BY <1>4, <2>1 DEF RowsTrue
<1>5. CASE Asking
  BY <1>1, <1>5, AskingSuits, AskKeeps
<1>6. CASE OpenNotification
  BY <1>6 DEF OpenNotification, RowOf, RowsTrue
<1>7. CASE UploadAnswer
  <2>1. \A k \in Lists \ {request.list} :
          [user EXCEPT !.ts[request.list] = memory[request.list]].ts[k] = user.ts[k]
    BY DEF TypeOK, Users, Stamps
  <2> QED  BY <1>1, <1>2, <1>4, <1>7, <2>1 DEF UploadAnswer, LoggedInElsewhere
<1>8. ASSUME NEW f, memory' = [memory EXCEPT ![request.list] = Loaded(request.list, f)],
             UNCHANGED user, EraseRow(request.list)
      PROVE  RowsTrue'
  <2>1. \A k \in Lists \ {request.list} : memory'[k] = memory[k]
    BY <1>8 DEF TypeOK, Stamps
  <2> QED  BY <1>4, <1>8, <2>1
<1>9. CASE DownloadWrites
  BY <1>1, <1>8, <1>9 DEF DownloadWrites
<1>10. CASE DownloadAnswer
  BY <1>1, <1>2, <1>8, <1>10 DEF DownloadAnswer, LoggedInElsewhere
<1>11. CASE CloseNotification \/ Restart
  BY <1>2, <1>11 DEF CloseNotification, Restart
<1>12. CASE StartupAnswer \/ LoginAnswer \/ RegisterAnswer \/ LogoutAnswer
  BY <1>3, <1>12 DEF StartupAnswer, LoginAnswer, RegisterAnswer, LogoutAnswer, Answered,
     RequestInv, Entering, Outside, LoginScreens
<1>13. CASE NoStartupLogin \/ CloseLogin \/ OpenLogin \/ LeaveHome \/ ChangeSetting
            \/ FinishPreferences \/ Quit \/ Kill \/ Serve \/ LoseReply \/ DownloadTruncates \/ FinishWrite
            \/ UNCHANGED vars
  BY <1>1, <1>13 DEF NoStartupLogin, CloseLogin, OpenLogin, LeaveHome, ChangeSetting,
     FinishPreferences, Quit, Kill, Serve, LoseReply, DownloadTruncates, FinishWrite, vars, program
<1>14. CASE \E k \in Lists : Save(k)
  BY <1>3, <1>14 DEF Save, Idle
<1>15. CASE \/ \E a \in Accounts : OtherLogin(a)
            \/ \E k \in Lists : OtherSave(k)
            \/ \E a \in Accounts, k \in Lists : OtherUpload(a, k)
  BY <1>1, <1>15 DEF OtherLogin, OtherSave, OtherUpload, program
<1> QED
  BY <1>5, <1>6, <1>7, <1>9, <1>10, <1>11, <1>12, <1>13, <1>14, <1>15 DEF Next, Asking

-----------------------------------------------------------------------------
(* Stamps                                                                  *)

StampsPast(f, t) == \A k \in Lists : f[k] <= t
ServerPast(s, t) ==
  \A a \in Accounts, k \in Lists : s[a][k].stamp <= t /\ s[a][k].data <= t
RequestPast(r, t) == r.stamp <= t /\ r.data <= t

LEMMA ClockParts ==
  ClockInv <=>
    /\ StampsPast(memory, clock) /\ StampsPast(file, clock) /\ StampsPast(other, clock)
    /\ StampsPast(reply.ts, clock) /\ ServerPast(server, clock) /\ RequestPast(request, clock)
BY DEF ClockInv, StampsPast, ServerPast, RequestPast

LEMMA EmptyPast ==
  ASSUME TypeOK
  PROVE  /\ StampsPast(NoStamps, clock) /\ StampsPast(NoReply.ts, clock)
         /\ RequestPast(NoRequest, clock) /\ \A code : StampsPast(Answer(code).ts, clock)
BY DEF TypeOK, StampsPast, NoStamps, NoReply, Answer, RequestPast, NoRequest

LEMMA TimePasses ==
  ASSUME TypeOK, ClockInv, clock' = clock + 1
  PROVE  /\ StampsPast(memory, clock') /\ StampsPast(file, clock') /\ StampsPast(other, clock')
         /\ StampsPast(reply.ts, clock') /\ ServerPast(server, clock') /\ RequestPast(request, clock')
<1>1. \A n \in Nat : n <= clock => n <= clock'  BY DEF TypeOK
<1>2. \A k \in Lists : memory[k] \in Nat /\ file[k] \in Nat /\ other[k] \in Nat /\ reply.ts[k] \in Nat
  BY DEF TypeOK, Stamps, Replies
<1>3. \A a \in Accounts, k \in Lists : server[a][k].stamp \in Nat /\ server[a][k].data \in Nat
  BY DEF TypeOK, Served
<1>4. request.stamp \in Nat /\ request.data \in Nat  BY DEF TypeOK, Requests
<1> QED  BY <1>1, <1>2, <1>3, <1>4 DEF ClockInv, StampsPast, ServerPast, RequestPast

LEMMA ClockServe == ASSUME TypeOK, RequestInv, ClockInv, Serve PROVE ClockInv'
<1> DEFINE a == request.account
<1>1. a \in Accounts  BY DEF Serve, RequestInv
<1>2. UNCHANGED <<memory, file, other, request, clock>>
  BY DEF Serve, program, device
<1>3. StampsPast(ServedStamps(a), clock) /\ StampsPast(ServedFiles(a), clock)
  BY <1>1 DEF ClockInv, StampsPast, ServedStamps, ServedFiles
<1>4. \A code, ts : AnswerWith(code, ts).ts = ts  BY DEF AnswerWith
<1> HIDE DEF a
<1>5. StampsPast(reply'.ts, clock)
  <2>1. CASE ServeLogin(a) \/ ServeRegister(a)
    BY <1>3, <1>4, <2>1 DEF ServeLogin, ServeRegister, Accept
  <2>2. CASE ServeLogout(a) \/ ServeUpload(a)
    BY EmptyPast, <2>2 DEF ServeLogout, ServeUpload
  <2>3. CASE ServeDownload(a)
    BY <1>3, <1>4, EmptyPast, <2>3 DEF ServeDownload
  <2>4. CASE Refuse(a)
    BY EmptyPast, <2>4 DEF Refuse
  <2>5. CASE Fail(a)
    BY <1>3, <1>4, EmptyPast, <2>5 DEF Fail
  <2> QED  BY <2>1, <2>2, <2>3, <2>4, <2>5 DEF Serve, a
<1>6. ServerPast(server', clock)
  <2>1. CASE ServeUpload(a)
    BY <1>1, <2>1 DEF ServeUpload, ServerPast, ClockInv, TypeOK
  <2>2. CASE UNCHANGED server
    BY <2>2 DEF ServerPast, ClockInv
  <2> QED
    BY <2>1, <2>2 DEF Serve, a, ServeLogin, ServeRegister, Accept, ServeLogout,
       ServeDownload,
       Refuse, Fail, world
<1> QED  BY <1>2, <1>5, <1>6, ClockParts DEF ClockInv, StampsPast, ServerPast, RequestPast

LEMMA ClockStep ==
  ASSUME TypeOK, ScreenInv, RequestInv, ClockInv, [Next]_vars
  PROVE  ClockInv'
<1>1. ASSUME UNCHANGED <<memory, file, other, reply, server, request, clock>> PROVE ClockInv'
  BY <1>1 DEF ClockInv
<1>2. ASSUME UNCHANGED <<other, server, clock>>, Forget,
             StampsPast(memory', clock), StampsPast(file', clock)
      PROVE  ClockInv'
  BY <1>2, EmptyPast DEF Forget, ClockInv, StampsPast, RequestPast
<1>3. CASE Asking
  <2>1. PICK r : Ask(r) /\ Suits(r)  BY <1>3, AskingSuits
  <2>2. StampsPast(reply'.ts, clock) /\ RequestPast(request', clock)
    BY <2>1, AskKeeps, EmptyPast, ClockParts DEF Suits, RequestPast
  <2> QED  BY <2>1, <2>2, AskKeeps DEF ClockInv, StampsPast, RequestPast
<1>4. CASE StartupAnswer \/ LoginAnswer \/ RegisterAnswer \/ LogoutAnswer \/ UploadAnswer
  BY <1>2, <1>4, ClockParts DEF RequestDone, StartupAnswer, LoginAnswer, RegisterAnswer, LogoutAnswer,
     UploadAnswer, world, device
<1>5. CASE DownloadTruncates
  <2>1. StampsPast(file', clock)
    BY <1>5, ClockParts DEF DownloadTruncates, StampsPast, TypeOK, Stamps
  <2> QED  BY <1>5, <2>1 DEF DownloadTruncates, world, device, ClockInv, StampsPast
<1>6. ASSUME NEW k, NEW f, f \in Stamps, StampsPast(f, clock)
      PROVE  StampsPast([memory EXCEPT ![k] = Loaded(k, f)], clock)
  BY <1>6 DEF Loaded, StampsPast, ClockInv, TypeOK, Stamps
<1>7. CASE DownloadWrites
  <2>1. file' \in Stamps
    BY <1>7 DEF DownloadWrites, TypeOK, Stamps, Replies
  <2>2. StampsPast(file', clock)
    BY <1>7, ClockParts DEF DownloadWrites, StampsPast, TypeOK, Stamps
  <2>3. StampsPast(memory', clock)
    BY <1>6, <1>7, <2>1, <2>2, ClockParts DEF DownloadWrites
  <2> QED  BY <1>2, <1>7, <2>2, <2>3 DEF DownloadWrites, RequestDone, world, device
<1>8. CASE DownloadAnswer
  <2>1. file \in Stamps  BY DEF TypeOK
  <2>2. StampsPast(memory', clock)
    BY <1>6, <1>8, <2>1, ClockParts DEF DownloadAnswer
  <2> QED  BY <1>2, <1>8, <2>2, ClockParts DEF DownloadAnswer, RequestDone, world, device
<1>9. CASE Serve
  BY <1>9, ClockServe
<1>10. CASE LoseReply
  <2>1. StampsPast(reply'.ts, clock)  BY <1>10, EmptyPast DEF LoseReply
  <2> QED  BY <1>10, <2>1 DEF LoseReply, program, world, device, ClockInv, StampsPast
<1>11. CASE FinishWrite
  <2>1. StampsPast(file', clock)
    BY <1>11, ClockParts DEF FinishWrite, StampsPast, TypeOK, Stamps
  <2> QED  BY <1>11, <2>1 DEF FinishWrite, world, device, ClockInv, StampsPast
<1>12. CASE Restart
  BY <1>2, <1>12, ClockParts DEF Restart, RequestDone, world, device
<1>13. ASSUME NEW k \in Lists, Save(k) PROVE ClockInv'
  <2>1. clock' = clock + 1  BY <1>13 DEF Save
  <2>2. StampsPast(memory', clock') /\ StampsPast(file', clock')
    BY <1>13, <2>1, TimePasses DEF Save, StampsPast, TypeOK, Stamps
  <2> QED  BY <1>13, <2>1, <2>2, TimePasses DEF Save, world, ClockInv, StampsPast, ServerPast, RequestPast
<1>14. ASSUME NEW k \in Lists, OtherSave(k) PROVE ClockInv'
  <2>1. clock' = clock + 1  BY <1>14 DEF OtherSave
  <2>2. StampsPast(other', clock')
    BY <1>14, <2>1, TimePasses DEF OtherSave, StampsPast, TypeOK, Stamps
  <2> QED  BY <1>14, <2>1, <2>2, TimePasses DEF OtherSave, program, world, ClockInv,
               StampsPast, ServerPast, RequestPast
<1>15. ASSUME NEW a \in Accounts, NEW k \in Lists, OtherUpload(a, k) PROVE ClockInv'
  <2>1. ServerPast(server', clock)
    BY <1>15 DEF OtherUpload, ServerPast, ClockInv, TypeOK
  <2> QED  BY <1>15, <2>1 DEF OtherUpload, program, device, ClockInv, ServerPast
<1>16. CASE NoStartupLogin \/ CloseLogin \/ OpenLogin \/ OpenNotification \/ CloseNotification
            \/ LeaveHome \/ ChangeSetting \/ FinishPreferences \/ Quit \/ Kill \/ UNCHANGED vars
            \/ \E a \in Accounts : OtherLogin(a)
  BY <1>1, <1>16 DEF NoStartupLogin, CloseLogin, OpenLogin, OpenNotification,
     CloseNotification,
     LeaveHome, ChangeSetting, FinishPreferences, Quit, Kill, OtherLogin, vars, program, world, device
<1> QED
  BY <1>3, <1>4, <1>5, <1>7, <1>8, <1>9, <1>10, <1>11, <1>12, <1>13, <1>14, <1>15, <1>16
  DEF Next, Asking

-----------------------------------------------------------------------------
(* What the client knows of the server                                     *)

Covered(a, ts, m) ==
  \A k \in Lists : server[a][k].stamp <= ts[k] \/ server[a][k].stamp <= m[k]

(* The two parts of KnownInv                                               *)
LEMMA KnownParts ==
  KnownInv <=>
    /\ LoggedIn /\ Open(user.account) => Covered(user.account, user.ts, memory)
    /\ reply.results /\ request.op \in Entering /\ Open(request.account) =>
         \A k \in Lists : server[request.account][k].stamp <= reply.ts[k]
BY DEF KnownInv, Covered

LEMMA KnownServe ==
  ASSUME TypeOK, ScreenInv, RequestInv, RowsTrue, KnownInv, Serve
  PROVE  KnownInv'
<1> DEFINE a == request.account
<1>1. a \in Accounts /\ request.op # "none"  BY DEF Serve, RequestInv
<1>2. UNCHANGED <<user, memory, request>>  BY DEF Serve, program
<1>3. \A code, ts : AnswerWith(code, ts).ts = ts  BY DEF AnswerWith
<1>4. \A code : Answer(code).results = FALSE  BY DEF Answer
<1> HIDE DEF a
<1>5. CASE ServeLogin(a) \/ ServeRegister(a)
  <2>1. ~LoggedIn
    BY <1>5 DEF ServeLogin, ServeRegister, RequestInv, ScreenInv, Entering
  <2>2. server' = server /\ reply'.ts = ServedStamps(a)
    BY <1>3, <1>5 DEF ServeLogin, ServeRegister, Accept
  <2>3. \A k \in Lists : server[a][k].stamp = ServedStamps(a)[k] /\ server[a][k].stamp \in Nat
    BY <1>1 DEF ServedStamps, TypeOK, Served
  <2> QED  BY <1>2, <2>1, <2>2, <2>3 DEF KnownInv, LoggedIn, a
<1>6. CASE ServeUpload(a)
  <2>1. /\ request.list \in Lists /\ request.stamp = memory[request.list]
        /\ a = user.account /\ request.op \notin Entering
    BY <1>6 DEF ServeUpload, RequestInv, Entering, a
  <2>2. holder' = holder /\ \A k \in Lists :
          server'[a][k].stamp = IF k = request.list THEN memory[k] ELSE server[a][k].stamp
    BY <1>1, <1>6, <2>1 DEF ServeUpload, TypeOK
  <2>3. \A k \in Lists : memory[k] \in Nat  BY DEF TypeOK, Stamps
  <2> QED  BY <1>2, <2>1, <2>2, <2>3 DEF KnownInv, LoggedIn, Open, a
<1>7. CASE ServeLogout(a)
  <2>1. server' = server /\ (\A b : Open(b)' => Open(b)) /\ reply'.results = FALSE
    BY <1>4, <1>7 DEF ServeLogout, Open, TypeOK
  <2> QED  BY <1>2, <2>1 DEF KnownInv, LoggedIn
<1>8. CASE ServeDownload(a) \/ Refuse(a) \/ Fail(a)
  <2>1. server' = server /\ holder' = holder  BY <1>8 DEF ServeDownload, Refuse, Fail, world
  <2>2. reply'.results => request.op \notin Entering
    BY <1>4, <1>8 DEF ServeDownload, Refuse, Fail, Entering
  <2> QED  BY <1>2, <2>1, <2>2 DEF KnownInv, LoggedIn, Open
<1> QED  BY <1>5, <1>6, <1>7, <1>8 DEF Serve, a

LEMMA KnownStep ==
  ASSUME TypeOK, ScreenInv, RequestInv, ClockInv, RowsTrue, KnownInv, [Next]_vars
  PROVE  KnownInv'
<1>1. ASSUME UNCHANGED <<user, memory, server, holder>>,
             ~reply'.results \/ UNCHANGED <<reply, request>>
      PROVE  KnownInv'
  BY <1>1 DEF KnownInv, LoggedIn, Open
<1>2. NoReply.results = FALSE /\ \A code : Answer(code).results = FALSE
  BY DEF NoReply, Answer
<1>3. ASSUME Forget, user'.account = "none" PROVE KnownInv'
  BY <1>2, <1>3 DEF Forget, KnownInv, LoggedIn
<1>4. ASSUME Forget, UNCHANGED <<user, memory, server, holder>> PROVE KnownInv'
  BY <1>1, <1>2, <1>4 DEF Forget
<1>5. ASSUME Forget, UNCHANGED <<server, holder>>, user'.account = user.account,
             \A k \in Lists :
               \/ user'.ts[k] = user.ts[k] /\ memory'[k] = memory[k]
               \/ user'.ts[k] >= user.ts[k] /\ user'.ts[k] >= memory[k]
      PROVE  KnownInv'
  <2>1. ASSUME LoggedIn, Open(user.account), NEW k \in Lists
        PROVE  LET s == server[user.account][k].stamp
               IN  s <= user'.ts[k] \/ s <= memory'[k]
    <3>1. user.account \in Accounts  BY <2>1 DEF TypeOK, Users, LoggedIn
    <3>2. server[user.account][k].stamp \in Nat  BY <3>1 DEF TypeOK, Served
    <3>3. user.ts[k] \in Nat /\ memory[k] \in Nat /\ user'.ts[k] \in Nat
      BY TypedStep DEF TypeOK, Users, Stamps
    <3>4. LET s == server[user.account][k].stamp
          IN  s <= user.ts[k] \/ s <= memory[k]
      BY <2>1 DEF KnownInv
    <3> QED  BY <1>5, <3>2, <3>3, <3>4
  <2> QED  BY <1>2, <1>5, <2>1 DEF Forget, KnownInv, LoggedIn, Open
<1>6. CASE Asking
  BY <1>1, <1>2, <1>6, AskingSuits, AskKeeps
<1>7. CASE StartupAnswer \/ LoginAnswer \/ RegisterAnswer
  <2>1. UNCHANGED <<memory, server, holder>> /\ Forget
    BY <1>7 DEF StartupAnswer, LoginAnswer, RegisterAnswer, RequestDone, world
  <2>2. CASE Welcome
    <3>1. user' = NewUser /\ request.op \in Entering
      BY <1>7, <2>2 DEF StartupAnswer, LoginAnswer, RegisterAnswer, Answered, Entering
    <3>2. user'.account = request.account /\ user'.ts = reply.ts  BY <3>1 DEF NewUser
    <3> QED  BY <1>2, <2>1, <2>2, <3>1, <3>2 DEF Welcome, Forget, KnownInv, LoggedIn, Open
  <2>3. CASE ~Welcome
    BY <1>4, <1>7, <2>1, <2>3 DEF StartupAnswer, LoginAnswer, RegisterAnswer
  <2> QED  BY <2>2, <2>3
<1>8. CASE LogoutAnswer
  <2>1. user' = user \/ user'.account = "none"
    BY <1>8 DEF LogoutAnswer, TypeOK, Users
  <2> QED  BY <1>3, <1>4, <1>8, <2>1 DEF LogoutAnswer, RequestDone, world
<1>9. ASSUME LoggedInElsewhere PROVE user'.account = "none"
  BY <1>9 DEF LoggedInElsewhere, TypeOK, Users
<1>10. CASE UploadAnswer
  <2>1. /\ request.list \in Lists /\ user.ts[request.list] < memory[request.list]
        /\ Forget /\ UNCHANGED <<memory, server, holder>>
    BY <1>10 DEF UploadAnswer, RequestDone, Answered, RequestInv, RowsTrue, world
  <2>2. CASE user' = [user EXCEPT !.ts[request.list] = memory[request.list]]
    <3>1. user'.account = user.account
      BY <2>2 DEF TypeOK, Users
    <3>2. \A k \in Lists : user'.ts[k] = IF k = request.list THEN memory[k] ELSE user.ts[k]
      BY <2>2 DEF TypeOK, Users, Stamps
    <3>3. \A k \in Lists : user.ts[k] \in Nat /\ memory[k] \in Nat
      BY DEF TypeOK, Users, Stamps
    <3> QED  BY <1>5, <2>1, <3>1, <3>2, <3>3
  <2> QED  BY <1>3, <1>4, <1>9, <1>10, <2>1, <2>2 DEF UploadAnswer
<1>11. ASSUME NEW f, memory' = [memory EXCEPT ![request.list] = Loaded(request.list, f)],
              UNCHANGED <<user, server, holder>>, Forget, request.op = "download"
       PROVE  KnownInv'
  <2>1. request.list \in Lists /\ user.ts[request.list] > memory[request.list]
    BY <1>11 DEF RequestInv, RowsTrue
  <2>2. \A k \in Lists \ {request.list} : memory'[k] = memory[k]
    BY <1>11 DEF TypeOK, Stamps
  <2>3. \A k \in Lists : user.ts[k] \in Nat /\ memory[k] \in Nat
    BY DEF TypeOK, Users, Stamps
  <2> QED  BY <1>5, <1>11, <2>1, <2>2, <2>3
<1>12. CASE DownloadWrites
  BY <1>4, <1>11, <1>12 DEF DownloadWrites, RequestDone, RequestInv, world
<1>13. CASE DownloadAnswer
  BY <1>3, <1>4, <1>9, <1>11, <1>13 DEF DownloadAnswer, RequestDone, Answered, world
<1>14. CASE Serve
  BY <1>14, KnownServe
<1>15. CASE Restart
  BY <1>3, <1>15 DEF Restart, RequestDone, NoUser
<1>16. ASSUME NEW k \in Lists, Save(k) PROVE KnownInv'
  <2>1. /\ UNCHANGED <<user, server, holder, request, reply>>
        /\ \A j \in Lists : memory'[j] = IF j = k THEN clock + 1 ELSE memory[j]
    BY <1>16 DEF Save, world, TypeOK, Stamps
  <2>2. \A a \in Accounts, j \in Lists :
          server[a][j].stamp <= clock /\ server[a][j].stamp \in Nat
    BY DEF ClockInv, TypeOK, Served
  <2>3. clock \in Nat /\ (LoggedIn => user.account \in Accounts)
    BY DEF TypeOK, Users, LoggedIn
  <2> QED  BY <2>1, <2>2, <2>3 DEF KnownInv, LoggedIn, Open
<1>17. ASSUME NEW a \in Accounts, OtherLogin(a) PROVE KnownInv'
  <2>1. UNCHANGED <<user, memory, server, request, reply>> /\ \A b : Open(b)' => Open(b)
    BY <1>17 DEF OtherLogin, program, Open, TypeOK
  <2> QED  BY <2>1 DEF KnownInv, LoggedIn
<1>18. ASSUME NEW a \in Accounts, NEW k \in Lists, OtherUpload(a, k) PROVE KnownInv'
  <2>1. /\ UNCHANGED <<user, memory, holder, request, reply>> /\ ~Open(a)
        /\ \A b : b # a => server'[b] = server[b]
    BY <1>18 DEF OtherUpload, program, Open, TypeOK
  <2> QED  BY <2>1 DEF KnownInv, LoggedIn, Open
<1>19. CASE NoStartupLogin \/ CloseLogin \/ OpenLogin \/ OpenNotification \/ CloseNotification
            \/ LeaveHome \/ ChangeSetting \/ FinishPreferences \/ Quit \/ Kill
            \/ LoseReply \/ DownloadTruncates \/ FinishWrite \/ UNCHANGED vars \/ \E k \in Lists : OtherSave(k)
  BY <1>1, <1>2, <1>19 DEF NoStartupLogin, CloseLogin, OpenLogin, OpenNotification,
     CloseNotification, LeaveHome, ChangeSetting, FinishPreferences, Quit, Kill, LoseReply, DownloadTruncates,
     FinishWrite, OtherSave, vars, program, world
<1> QED
  BY <1>6, <1>7, <1>8, <1>10, <1>12, <1>13, <1>14, <1>15, <1>16, <1>17, <1>18, <1>19
  DEF Next, Asking

-----------------------------------------------------------------------------
(* The theorems                                                            *)

LEMMA AgentStart == Init => AgentInv
<1> SUFFICES ASSUME Init PROVE AgentInv
  OBVIOUS
<1>1. TypeOK  BY TypedStart
<1>2. ScreenInv  BY DEF Init, ScreenInv, NoUser, LoggedIn
<1>3. RequestInv  BY DEF Init, RequestInv, NoRequest, Entering
<1>4. ClockInv  BY DEF Init, ClockInv, NoStamps, NoRequest, NoReply, Answer
<1>5. RowsTrue  BY DEF Init, RowsTrue, NoRows
<1>6. KnownInv  BY DEF Init, KnownInv, NoUser, LoggedIn, NoReply, Answer
<1> QED  BY <1>1, <1>2, <1>3, <1>4, <1>5, <1>6 DEF AgentInv

LEMMA AgentStep == AgentInv /\ [Next]_vars => AgentInv'
BY TypedStep, ScreenStep, RequestStep, ClockStep, RowsStep, KnownStep DEF AgentInv

(* The invariant of the agent holds in every reachable state: the screens, *)
(* requests, rows and stamps of the agent (network.cpp) and the            *)
(* notification dialog fit together whatever the server answers.           *)
THEOREM AgentInvariance == Spec => []AgentInv
BY AgentStart, AgentStep, PTL DEF Spec

(* The types hold for every set of lists and accounts.                     *)
THEOREM SyncTyped == Spec => []TypeOK
<1>1. AgentInv => TypeOK  BY DEF AgentInv
<1> QED  BY <1>1, AgentInvariance, PTL

(* A row of the notification dialog (notification.cpp:37) is right about   *)
(* the newer copy as long as it is there.                                  *)
THEOREM RowsStayTrue == Spec => []RowsTrue
<1>1. AgentInv => RowsTrue  BY DEF AgentInv
<1> QED  BY <1>1, AgentInvariance, PTL

(* What the server stores of an upload is not older than what it has.      *)
LEMMA UploadForward ==
  ASSUME AgentInv, Serve
  PROVE  \A a \in Accounts, k \in Lists : server'[a][k].stamp >= server[a][k].stamp
<1> USE DEF AgentInv
<1> SUFFICES ASSUME NEW a \in Accounts, NEW k \in Lists
             PROVE  server'[a][k].stamp >= server[a][k].stamp
  OBVIOUS
<1> DEFINE b == request.account
<1>1. server[a][k].stamp \in Nat  BY DEF TypeOK, Served
<1>2. b \in Accounts  BY DEF Serve, RequestInv
<1> HIDE DEF b
<1>3. CASE ServeUpload(b)
  <2>1. /\ request.list \in Lists /\ user.ts[request.list] < memory[request.list]
        /\ request.stamp = memory[request.list] /\ b = user.account /\ Open(b)
    BY <1>3 DEF ServeUpload, RequestInv, RowsTrue, b
  <2>2. LoggedIn  BY <1>2, <2>1, SyncAssumption DEF LoggedIn
  <2>3. LET s == server[b][request.list].stamp
        IN  s <= user.ts[request.list] \/ s <= memory[request.list]
    BY <2>1, <2>2 DEF KnownInv
  <2>4. /\ server[b][request.list].stamp \in Nat
        /\ user.ts[request.list] \in Nat /\ memory[request.list] \in Nat
    BY <1>2, <2>1 DEF TypeOK, Served, Users, Stamps
  <2>5. server'[b][request.list].stamp = memory[request.list]
    BY <1>2, <1>3, <2>1 DEF ServeUpload, TypeOK
  <2>6. a # b \/ k # request.list => server'[a][k] = server[a][k]
    BY <1>2, <1>3, <2>1 DEF ServeUpload, TypeOK
  <2> QED  BY <1>1, <2>1, <2>3, <2>4, <2>5, <2>6
<1>4. CASE UNCHANGED server
  BY <1>1, <1>4
<1> QED
  BY <1>3, <1>4 DEF Serve, b, ServeLogin, ServeRegister, Accept, ServeLogout,
     ServeDownload,
     Refuse, Fail, world

(* The versions on the server only get newer.                              *)
LEMMA ServerGrows ==
  ASSUME AgentInv, [Next]_vars
  PROVE  \A a \in Accounts, k \in Lists : server'[a][k].stamp >= server[a][k].stamp
<1>1. \A a \in Accounts, k \in Lists : server[a][k].stamp \in Nat
  BY DEF AgentInv, TypeOK, Served
<1>2. CASE Serve
  BY <1>2, UploadForward
<1>3. ASSUME NEW b \in Accounts, NEW j \in Lists, OtherUpload(b, j)
      PROVE  \A a \in Accounts, k \in Lists : server'[a][k].stamp >= server[a][k].stamp
  <2>1. other[j] \in Nat  BY DEF AgentInv, TypeOK, Stamps
  <2> QED  BY <1>1, <1>3, <2>1 DEF OtherUpload, AgentInv, TypeOK
<1>4. CASE UNCHANGED server
  BY <1>1, <1>4
<1>5. CASE Asking
  BY <1>4, <1>5, AskingSuits, AskKeeps DEF AgentInv
<1> QED
  BY <1>2, <1>3, <1>4, <1>5 DEF Next, Asking, NoStartupLogin, CloseLogin, OpenLogin,
     OpenNotification, CloseNotification, LeaveHome, ChangeSetting, FinishPreferences,
     LoseReply, StartupAnswer,
     LoginAnswer, RegisterAnswer, LogoutAnswer, UploadAnswer, DownloadTruncates,
     DownloadWrites, DownloadAnswer, FinishWrite, Quit, Kill, Restart, Save, OtherLogin,
     OtherSave, world, vars

(* No upload replaces a newer version on the server, with any number of    *)
(* accounts and whatever the server answers: upload_pb is called only on a *)
(* row of the dialog, and the rows rest on what was read at login.         *)
THEOREM UploadsForward == Spec => ServerForward
<1>1. ASSUME AgentInv, [Next]_vars
      PROVE  [\A a \in Accounts, k \in Lists :
                server'[a][k].stamp >= server[a][k].stamp]_vars
  BY <1>1, ServerGrows
<1> QED  BY <1>1, AgentInvariance, PTL DEF Spec, ServerForward
=============================================================================
