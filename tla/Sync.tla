-------------------------------- MODULE Sync ---------------------------------
(***************************************************************************)
(* The account and the synchronisation of the two .pb files with a server: *)
(* the agent of network.cpp, the notification dialog, the login and        *)
(* registration dialogs, and the login that do_gameloop tries at startup.  *)
(*                                                                         *)
(* A list is its time stamp, 0 for a list never saved: write_pb stamps each *)
(* version with the second it is saved in, and nothing but the stamp is    *)
(* compared.  The stamps of different saves are taken to be different.     *)
(*                                                                         *)
(* The server and the user's other device are not in the repository.  The  *)
(* server is what the agent expects of it: an account has one session, and *)
(* one that logs in elsewhere answers -2 to the former holder.             *)
(***************************************************************************)
EXTENDS Naturals

CONSTANTS
  Lists,         \* contacts.pb and templates.pb
  Accounts,      \* accounts of the user
  Known,         \* those registered from the beginning
  ServerFaults,  \* what the server may get wrong
  ProgressShown, \* is a progress dialog up when the agent connects?
  CanRegister,   \* may the user register?
  MaxClock,      \* bound: saves, on all devices
  MaxQuits,      \* bound: orderly ends of the program
  MaxKills       \* bound: deaths of the process

Faults == {"blank", "results_with_error"}

ASSUME SyncAssumption ==
  /\ "none" \notin Accounts
  /\ Lists \cap {"none", "idle", "waiting", "downloading", "asserting",
               "setting", "entering", "quitting"} = {}
  /\ Known \subseteq Accounts
  /\ ServerFaults \subseteq Faults
  /\ ProgressShown \in BOOLEAN /\ CanRegister \in BOOLEAN
  /\ MaxClock \in Nat /\ MaxQuits \in Nat /\ MaxKills \in Nat

VARIABLES
  memory,     \* timestamp() of contacts_ and templates_
  file,       \* the stamp in the file, 0 for an empty one
  user,       \* current_user
  prefs,      \* startup_login and the name of the leader
  savedPrefs, \* the preferences file
  screen,     \* what do_gameloop shows
  rows,       \* rows of the notification dialog
  main,       \* what the main thread is in the middle of
  request,    \* the request of the agent
  reply,      \* and its answer
  alive,      \* does the process run?
  server,     \* per account and list: the stamp announced, and the file
  holder,     \* per account: whose session is open
  registered, \* accounts the server knows
  other,      \* the lists of the other device
  clock,      \* time of the last save anywhere
  quits,
  kills

program == <<memory, file, user, rows>>
account == <<prefs, savedPrefs>>
world == <<server, holder, registered>>
device == <<other, clock>>
lives == <<alive, quits, kills>>

vars == <<program, account, world, device, lives, screen, main, request, reply>>

-----------------------------------------------------------------------------
Stamps == [Lists -> Nat]
NoStamps == [k \in Lists |-> 0]

Users == [account : Accounts \cup {"none"}, ts : Stamps]
NoUser == [account |-> "none", ts |-> NoStamps]
LoggedIn == user.account # "none"

Prefs == [startup : BOOLEAN, name : Accounts \cup {"none"}]
FirstPrefs == [startup |-> TRUE, name |-> "none"]

Cookies == {"none", "upload", "download"}
NoRows == [k \in Lists |-> "none"]

Operations == {"none", "startup", "login", "register", "logout", "upload", "download"}
Requests == [op : Operations, account : Accounts \cup {"none"},
             list : Lists \cup {"none"}, stamp : Nat, data : Nat]
NoRequest == [op |-> "none", account |-> "none", list |-> "none",
              stamp |-> 0, data |-> 0]

Codes == {"none", "ok", "error", "remote", "blank", "lost"}
Replies == [code : Codes, results : BOOLEAN, ts : Stamps]
Answer(code) == [code |-> code, results |-> FALSE, ts |-> NoStamps]
AnswerWith(code, ts) == [code |-> code, results |-> TRUE, ts |-> ts]
NoReply == Answer("none")

Idle(s) == alive /\ main = "idle" /\ screen = s

(* Mutant: an answer that got lost counts as success.                      *)
ReturnedOrLost(code) == code \in {"ok", "blank", "lost"}

(* Answers after which upload_pb, download_pb and do_logout return true: an *)
(* answer without a body, or without a header, is not looked at.           *)
Returned(code) == code \in {"ok", "blank"}

(* has_notification, for one list                                          *)
Notified(k) == ~LoggedIn \/ user.ts[k] # memory[k]

(* preferences::write_preferences.  write_file truncates the file before   *)
(* it writes it; next names the handler that goes on then.                 *)
WritePreferences(next) == savedPrefs' = FirstPrefs /\ main' = next

WritingPreferences == {"setting", "entering", "quitting"}

-----------------------------------------------------------------------------
(* Requests                                                                *)

(* do_prepare: connect behind a progress dialog, or fail the assertion     *)
(* that there is one.                                                      *)
Ask(r) ==
  /\ IF ProgressShown
     THEN main' = "waiting" /\ request' = r /\ reply' = NoReply /\ UNCHANGED alive
     ELSE alive' = FALSE /\ main' = "asserting" /\ UNCHANGED <<request, reply>>
  /\ UNCHANGED <<program, account, world, device, screen, quits, kills>>

(* The login at startup                                                    *)
StartupLogin ==
  /\ Idle("startup") /\ prefs.startup /\ prefs.name # "none"
  /\ Ask([NoRequest EXCEPT !.op = "startup", !.account = prefs.name])

NoStartupLogin ==
  /\ Idle("startup") /\ ~(prefs.startup /\ prefs.name # "none")
  /\ screen' = "login"
  /\ UNCHANGED <<program, account, world, device, lives, main, request, reply>>

LoginScreens == {"login", "login_again"}

Login(a) ==
  /\ \E s \in LoginScreens : Idle(s)
  /\ Ask([NoRequest EXCEPT !.op = "login", !.account = a])

Register(a) ==
  /\ CanRegister
  /\ \E s \in LoginScreens : Idle(s)
  /\ Ask([NoRequest EXCEPT !.op = "register", !.account = a])

(* The login dialog is closed.  After home asked for it, do_gameloop shows *)
(* it once more.                                                           *)
CloseLogin ==
  /\ \/ Idle("login_again") /\ screen' = "login"
     \/ Idle("login") /\ screen' = "home"
  /\ UNCHANGED <<program, account, world, device, lives, main, request, reply>>

(* The login button of the More layer                                      *)
OpenLogin ==
  /\ Idle("home") /\ ~LoggedIn
  /\ screen' = "login_again"
  /\ UNCHANGED <<program, account, world, device, lives, main, request, reply>>

Logout ==
  /\ Idle("home") /\ LoggedIn
  /\ Ask([NoRequest EXCEPT !.op = "logout", !.account = user.account])

(* Mutant: the comparisons are the wrong way round.                        *)
RowSwapped(k) ==
  IF ~LoggedIn THEN "none"
  ELSE IF user.ts[k] < memory[k] THEN "download"
  ELSE IF user.ts[k] > memory[k] THEN "upload"
  ELSE "none"

(* tnotification::pre_show                                                 *)
RowOf(k) ==
  IF ~LoggedIn THEN "none"
  ELSE IF user.ts[k] > memory[k] THEN "download"
  ELSE IF user.ts[k] < memory[k] THEN "upload"
  ELSE "none"

OpenNotification ==
  /\ Idle("home")
  /\ screen' = "notification"
  /\ rows' = [k \in Lists |-> RowOf(k)]
  /\ UNCHANGED <<memory, file, user, account, world, device, lives, main, request, reply>>

(* do_gameloop comes round: without an account the login dialog is first.  *)
NextScreen == IF user'.account # "none" THEN "home" ELSE "login"

CloseNotification ==
  /\ Idle("notification")
  /\ UNCHANGED user /\ screen' = NextScreen
  /\ rows' = NoRows
  /\ UNCHANGED <<memory, file, account, world, device, lives, main, request, reply>>

(* tnotification::handle.  An empty file is not sent.                      *)
Upload(k) ==
  /\ Idle("notification") /\ rows[k] = "upload" /\ file[k] # 0
  /\ Ask([op |-> "upload", account |-> user.account, list |-> k,
          stamp |-> memory[k], data |-> file[k]])

Download(k) ==
  /\ Idle("notification") /\ rows[k] = "download"
  /\ Ask([NoRequest EXCEPT !.op = "download", !.account = user.account, !.list = k])

-----------------------------------------------------------------------------
(* The server                                                              *)

Open(a) == holder[a] = "robot"

(* What a request gets whose session is not the open one.                  *)
Refusals(a) == IF holder[a] = "other" THEN {"remote", "error"} ELSE {"error"}

ServedStamps(a) == [k \in Lists |-> server[a][k].stamp]
ServedFiles(a) == [k \in Lists |-> server[a][k].data]

Accept(a) ==
  /\ holder' = [holder EXCEPT ![a] = "robot"]
  /\ reply' = AnswerWith("ok", ServedStamps(a))
  /\ UNCHANGED server

ServeLogin(a) ==
  /\ request.op \in {"startup", "login"} /\ a \in registered
  /\ Accept(a)
  /\ UNCHANGED registered

ServeRegister(a) ==
  /\ request.op = "register" /\ a \notin registered
  /\ Accept(a)
  /\ registered' = registered \cup {a}

ServeLogout(a) ==
  /\ request.op = "logout" /\ Open(a)
  /\ holder' = [holder EXCEPT ![a] = "none"]
  /\ reply' = Answer("ok")
  /\ UNCHANGED <<server, registered>>

ServeUpload(a) ==
  /\ request.op = "upload" /\ Open(a)
  /\ server' = [server EXCEPT ![a][request.list] =
                  [stamp |-> request.stamp, data |-> request.data]]
  /\ reply' = Answer("ok")
  /\ UNCHANGED <<holder, registered>>

ServeDownload(a) ==
  /\ request.op = "download" /\ Open(a)
  /\ reply' \in {Answer("ok"), AnswerWith("ok", ServedFiles(a))}
  /\ UNCHANGED world

Refuse(a) ==
  /\ request.op \in {"logout", "upload", "download"} /\ ~Open(a)
  /\ reply' \in {Answer(code) : code \in Refusals(a)}
  /\ UNCHANGED world

(* Nothing is done and the answer is an error, or no answer at all, or one *)
(* with an error and the file asked for, or one without a body.            *)
Fail(a) ==
  /\ \/ reply' = Answer("error")
     \/ reply' = Answer("lost")
     \/ "blank" \in ServerFaults /\ reply' = Answer("blank")
     \/ /\ "results_with_error" \in ServerFaults
        /\ request.op = "download" /\ Open(a)
        /\ reply' = AnswerWith("error", ServedFiles(a))
  /\ UNCHANGED world

Serve ==
  /\ alive /\ main = "waiting" /\ reply.code = "none"
  /\ LET a == request.account
     IN  \/ ServeLogin(a) \/ ServeRegister(a) \/ ServeLogout(a)
         \/ ServeUpload(a) \/ ServeDownload(a) \/ Refuse(a) \/ Fail(a)
  /\ UNCHANGED <<program, account, device, lives, screen, main, request>>

(* The connection breaks, or the user cancels, when the answer is on its   *)
(* way.                                                                    *)
LoseReply ==
  /\ alive /\ main = "waiting" /\ reply.code \notin {"none", "lost"}
  /\ reply' = Answer("lost")
  /\ UNCHANGED <<program, account, world, device, lives, screen, main, request>>

-----------------------------------------------------------------------------
(* Answers                                                                 *)

Answered(ops) ==
  /\ alive /\ main = "waiting" /\ reply.code # "none" /\ request.op \in ops

Forget == request' = NoRequest /\ reply' = NoReply
RequestDone == main' = "idle" /\ Forget

(* do_login and do_register return a user who is valid.                    *)
Welcome == reply.code = "ok" /\ reply.results

NewUser == [account |-> request.account, ts |-> reply.ts]

StartupAnswer ==
  /\ Answered({"startup"})
  /\ user' = IF Welcome THEN NewUser ELSE user
  /\ screen' = NextScreen
  /\ RequestDone
  /\ UNCHANGED <<memory, file, rows, account, world, device, lives>>

(* post_login, up to set_hero, which writes the preferences file           *)
LoginAnswer ==
  /\ Answered({"login"})
  /\ Forget
  /\ IF Welcome
     THEN /\ user' = NewUser
          /\ prefs' = [prefs EXCEPT !.name = request.account]
          /\ WritePreferences("entering")
     ELSE main' = "idle" /\ UNCHANGED <<user, account>>
  /\ UNCHANGED <<memory, file, rows, world, device, lives, screen>>

(* register2.  The name of the leader stays what it was.                   *)
RegisterAnswer ==
  /\ Answered({"register"})
  /\ IF Welcome
     THEN /\ user' = NewUser
          /\ prefs' = [prefs EXCEPT !.startup = TRUE]
          /\ screen' = "home"
     ELSE UNCHANGED <<user, prefs, screen>>
  /\ RequestDone
  /\ UNCHANGED <<memory, file, rows, savedPrefs, world, device, lives>>

(* thome::logout.  The preference is set in memory.                        *)
LogoutAnswer ==
  /\ Answered({"logout"})
  /\ IF Returned(reply.code) \/ reply.code = "remote"
     THEN /\ user' = [user EXCEPT !.account = "none"]
          /\ prefs' = [prefs EXCEPT !.startup = FALSE]
          /\ screen' = "login_again"
     ELSE UNCHANGED <<user, prefs, screen>>
  /\ RequestDone
  /\ UNCHANGED <<memory, file, rows, savedPrefs, world, device, lives>>

(* Mutant: the account is kept.                                            *)
LoggedInStill ==
  /\ UNCHANGED user
  /\ rows' = NoRows
  /\ screen' = "login"

(* handle_remote_login, and what handle does then                          *)
LoggedInElsewhere ==
  /\ user' = [user EXCEPT !.account = "none"]
  /\ rows' = NoRows
  /\ screen' = "login"

(* Mutant: the row of a list that is done stays.                           *)
KeepRow(k) == UNCHANGED rows
(* Mutant: no row is kept for a list that is done.                         *)
DropRow(k) == rows' = [j \in Lists \ {k} |-> rows[j]]

EraseRow(k) == rows' = [rows EXCEPT ![k] = "none"]

UploadAnswer ==
  /\ Answered({"upload"})
  /\ LET k == request.list
     IN  \/ /\ Returned(reply.code)
            /\ user' = [user EXCEPT !.ts[k] = memory[k]]
            /\ EraseRow(k)
            /\ UNCHANGED screen
         \/ reply.code = "remote" /\ LoggedInElsewhere
         \/ reply.code \in {"error", "lost"} /\ UNCHANGED <<user, rows, screen>>
  /\ RequestDone
  /\ UNCHANGED <<memory, file, account, world, device, lives>>

(* load_pb: an empty file leaves the list alone.                           *)
Loaded(k, f) == IF f[k] = 0 THEN memory[k] ELSE f[k]

(* download_pb truncates the file if there are results, whatever the code. *)
DownloadTruncates ==
  /\ Answered({"download"}) /\ reply.results
  /\ file' = [file EXCEPT ![request.list] = 0]
  /\ main' = "downloading"
  /\ UNCHANGED <<memory, user, rows, account, world, device, lives, screen, request, reply>>

DownloadWrites ==
  /\ alive /\ main = "downloading"
  /\ LET k == request.list
     IN  /\ file' = [file EXCEPT ![k] = reply.ts[k]]
         /\ IF Returned(reply.code)
            THEN /\ memory' = [memory EXCEPT ![k] = Loaded(k, file')]
                 /\ EraseRow(k)
            ELSE UNCHANGED <<memory, rows>>
  /\ RequestDone
  /\ UNCHANGED <<user, account, world, device, lives, screen>>

DownloadAnswer ==
  /\ Answered({"download"}) /\ ~reply.results
  /\ LET k == request.list
     IN  \/ /\ Returned(reply.code)
            /\ memory' = [memory EXCEPT ![k] = Loaded(k, file)]
            /\ EraseRow(k)
            /\ UNCHANGED <<user, screen>>
         \/ reply.code = "remote" /\ LoggedInElsewhere /\ UNCHANGED memory
         \/ reply.code \in {"error", "lost"} /\ UNCHANGED <<memory, user, rows, screen>>
  /\ RequestDone
  /\ UNCHANGED <<file, account, world, device, lives>>

-----------------------------------------------------------------------------
(* Lists, preferences and the process                                      *)

(* Mutant: the stamp is set and the file not written.                      *)
SaveUnwritten(k) ==
  /\ Idle("home") /\ clock < MaxClock
  /\ clock' = clock + 1
  /\ memory' = [memory EXCEPT ![k] = clock']
  /\ UNCHANGED <<file, user, rows, account, world, other, lives, screen, main, request, reply>>

(* write_pb, from home or an editor: stamp, truncate, write                *)
Save(k) ==
  /\ Idle("home") /\ clock < MaxClock
  /\ clock' = clock + 1
  /\ memory' = [memory EXCEPT ![k] = clock']
  /\ file' = [file EXCEPT ![k] = 0]
  /\ main' = k
  /\ UNCHANGED <<user, rows, account, world, other, lives, screen, request, reply>>

FinishWrite ==
  /\ alive /\ main \in Lists
  /\ file' = [file EXCEPT ![main] = memory[main]]
  /\ main' = "idle"
  /\ UNCHANGED <<memory, user, rows, account, world, device, lives, screen, request, reply>>

(* Another dialog was opened from home and closed.                         *)
LeaveHome ==
  /\ Idle("home") /\ UNCHANGED user /\ screen' = NextScreen
  /\ UNCHANGED <<memory, file, rows, account, world, device, lives, main, request, reply>>

(* Some setting is changed, or a message counted.                          *)
ChangeSetting ==
  /\ Idle("home") /\ WritePreferences("setting")
  /\ UNCHANGED <<program, prefs, world, device, lives, screen, request, reply>>

(* The program is left: the destructor of base_manager writes preferences. *)
Quit ==
  /\ alive /\ main = "idle" /\ quits < MaxQuits
  /\ quits' = quits + 1
  /\ WritePreferences("quitting")
  /\ UNCHANGED <<program, prefs, world, device, alive, kills, screen, request, reply>>

(* The file is written, and the handler goes on: post_login sets           *)
(* startup_login, in memory, and closes the dialog.                        *)
FinishPreferences ==
  /\ alive /\ main \in WritingPreferences
  /\ savedPrefs' = prefs /\ main' = "idle"
  /\ \/ main = "setting" /\ UNCHANGED <<prefs, screen, alive>>
     \/ /\ main = "entering"
        /\ prefs' = [prefs EXCEPT !.startup = TRUE] /\ screen' = "home"
        /\ UNCHANGED alive
     \/ main = "quitting" /\ alive' = FALSE /\ UNCHANGED <<prefs, screen>>
  /\ UNCHANGED <<program, world, device, quits, kills, request, reply>>

Kill ==
  /\ alive /\ kills < MaxKills
  /\ kills' = kills + 1 /\ alive' = FALSE
  /\ UNCHANGED <<program, account, world, device, quits, screen, main, request, reply>>

Restart ==
  /\ ~alive
  /\ alive' = TRUE
  /\ memory' = file
  /\ user' = NoUser /\ rows' = NoRows
  /\ prefs' = savedPrefs
  /\ screen' = "startup"
  /\ RequestDone
  /\ UNCHANGED <<file, savedPrefs, world, device, quits, kills>>

-----------------------------------------------------------------------------
(* The other device                                                        *)

OtherLogin(a) ==
  /\ a \in registered /\ holder[a] # "other"
  /\ holder' = [holder EXCEPT ![a] = "other"]
  /\ UNCHANGED <<program, account, server, registered, device, lives, screen, main, request, reply>>

OtherSave(k) ==
  /\ clock < MaxClock
  /\ clock' = clock + 1
  /\ other' = [other EXCEPT ![k] = clock']
  /\ UNCHANGED <<program, account, world, lives, screen, main, request, reply>>

OtherUpload(a, k) ==
  /\ holder[a] = "other" /\ other[k] > server[a][k].stamp
  /\ server' = [server EXCEPT ![a][k] = [stamp |-> other[k], data |-> other[k]]]
  /\ UNCHANGED <<program, account, holder, registered, device, lives, screen, main, request, reply>>

-----------------------------------------------------------------------------
Init ==
  /\ memory = NoStamps /\ file = NoStamps /\ other = NoStamps
  /\ user = NoUser /\ rows = NoRows
  /\ prefs = FirstPrefs /\ savedPrefs = FirstPrefs
  /\ screen = "startup" /\ main = "idle"
  /\ request = NoRequest /\ reply = NoReply
  /\ alive = TRUE
  /\ server = [a \in Accounts |-> [k \in Lists |-> [stamp |-> 0, data |-> 0]]]
  /\ holder = [a \in Accounts |-> "none"]
  /\ registered = Known
  /\ clock = 0 /\ quits = 0 /\ kills = 0

Next ==
  \/ StartupLogin \/ NoStartupLogin \/ CloseLogin \/ OpenLogin \/ Logout
  \/ OpenNotification \/ CloseNotification \/ LeaveHome \/ ChangeSetting
  \/ Serve \/ LoseReply
  \/ StartupAnswer \/ LoginAnswer \/ RegisterAnswer \/ LogoutAnswer
  \/ UploadAnswer \/ DownloadTruncates \/ DownloadWrites \/ DownloadAnswer
  \/ FinishWrite \/ FinishPreferences \/ Quit \/ Kill \/ Restart
  \/ \E a \in Accounts : Login(a) \/ Register(a) \/ OtherLogin(a)
  \/ \E k \in Lists : Upload(k) \/ Download(k) \/ Save(k) \/ OtherSave(k)
  \/ \E a \in Accounts, k \in Lists : OtherUpload(a, k)

Spec == Init /\ [][Next]_vars

-----------------------------------------------------------------------------
(* Properties                                                              *)

Served == [stamp : Nat, data : Nat]

TypeOK ==
  /\ memory \in Stamps /\ file \in Stamps /\ other \in Stamps
  /\ user \in Users
  /\ prefs \in Prefs /\ savedPrefs \in Prefs
  /\ screen \in LoginScreens \cup {"startup", "home", "notification"}
  /\ rows \in [Lists -> Cookies]
  /\ main \in {"idle", "waiting", "downloading", "asserting"}
             \cup WritingPreferences \cup Lists
  /\ request \in Requests /\ reply \in Replies
  /\ alive \in BOOLEAN
  /\ server \in [Accounts -> [Lists -> Served]]
  /\ holder \in [Accounts -> {"none", "robot", "other"}]
  /\ registered \subseteq Accounts
  /\ clock \in Nat /\ quits \in Nat /\ kills \in Nat

(* As long as the notification dialog is open, a row that offers an upload *)
(* or a download is right about which copy the client knows to be newer:   *)
(* no answer, lost or late, leaves a row behind that would send the older  *)
(* copy over the newer (pre_show decides, handle acts later).              *)
RowsTrue ==
  \A k \in Lists :
    /\ rows[k] = "upload" => user.ts[k] < memory[k]
    /\ rows[k] = "download" => user.ts[k] > memory[k]

(* A list of which nothing is notified (has_notification) is the list the  *)
(* server has, as long as the session is the open one: lost answers,       *)
(* failed downloads and restarts may cost a notification too many, never   *)
(* one too few.                                                            *)
QuietMeansSynced ==
  LoggedIn =>
    \A k \in Lists :
      ~Notified(k) /\ Open(user.account) =>
        server[user.account][k].data = memory[k]

(* What the server has announced as the version of some second is that     *)
(* version: upload_pb reads the file and handle takes the stamp from       *)
(* memory, and they belong together.                                       *)
StampsTrue ==
  \A a \in Accounts, k \in Lists : server[a][k].stamp = server[a][k].data

(* No upload replaces a newer version on the server: what the client       *)
(* knows of the server was read at login and may be old.                   *)
ServerForward ==
  [][\A a \in Accounts, k \in Lists :
       server'[a][k].stamp >= server[a][k].stamp]_vars

(* No download replaces a newer list of the running program.               *)
MemoryForward ==
  [][alive /\ alive' => \A k \in Lists : memory'[k] >= memory[k]]_vars

(* A request finds the progress dialog it asserts: "VALIDATE(progress !=   *)
(* nullptr, null_str)" (lobby.cpp:2052).                                   *)
ProgressAsserted == main # "asserting"
=============================================================================
