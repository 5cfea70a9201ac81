--------------------------- MODULE SyncDataProofs ----------------------------
(***************************************************************************)
(* Proofs about the versions that Sync moves: no download takes the client *)
(* back, a stamp on the server is that of the file it stands for, and a    *)
(* list without a notification is the one the server has.                  *)
(***************************************************************************)
EXTENDS SyncProofs

-----------------------------------------------------------------------------
(* What a step may do to the user, the answer, the request and the files   *)

Remembers ==
  \/ user' = user
  \/ user'.account = "none"
  \/ /\ Welcome /\ request.op \in Entering /\ user' = NewUser
     /\ UNCHANGED server
  \/ /\ request.op = "upload" /\ Returned(reply.code)
     /\ user' = [user EXCEPT !.ts[request.list] = memory[request.list]]
     /\ UNCHANGED <<server, memory>>

LEMMA UserSteps ==
  ASSUME AgentInv, [Next]_vars
  PROVE  Remembers
<1> USE DEF AgentInv
<1>1. CASE Asking
  BY <1>1, AskingSuits, AskKeeps DEF Remembers
<1>2. CASE StartupAnswer \/ LoginAnswer \/ RegisterAnswer
  BY <1>2 DEF StartupAnswer, LoginAnswer, RegisterAnswer, Answered, Entering, world, Remembers
<1>3. ASSUME user' = [user EXCEPT !.account = "none"] PROVE Remembers
  BY <1>3 DEF TypeOK, Users, Remembers
<1>4. CASE LogoutAnswer
  BY <1>3, <1>4 DEF LogoutAnswer, Remembers
<1>5. CASE UploadAnswer
  BY <1>3, <1>5 DEF UploadAnswer, Answered, LoggedInElsewhere, world, Remembers
<1>6. CASE DownloadAnswer
  BY <1>3, <1>6 DEF DownloadAnswer, LoggedInElsewhere, Remembers
<1>7. CASE Restart
  BY <1>7 DEF Restart, NoUser, Remembers
<1>8. CASE UNCHANGED user
  BY <1>8 DEF Remembers
<1> QED
  BY <1>1, <1>2, <1>4, <1>5, <1>6, <1>7, <1>8 DEF Next, Asking, NoStartupLogin, CloseLogin,
     OpenLogin, OpenNotification, CloseNotification, LeaveHome, ChangeSetting,
     FinishPreferences, Serve, LoseReply,
     DownloadTruncates, DownloadWrites, FinishWrite, Quit, Kill, Save, OtherLogin, OtherSave,
     OtherUpload, RequestDone, program, vars

(* An answer with results is new, and about what the server has, or it and *)
(* the request are what they were.                                         *)
Results ==
  \/ ~reply'.results
  \/ UNCHANGED <<reply, request>>
  \/ /\ UNCHANGED <<server, memory, request>>
     /\ \/ request.op \in Entering /\ reply'.ts = ServedStamps(request.account)
        \/ request.op = "download" /\ reply'.ts = ServedFiles(request.account)

LEMMA ReplySteps ==
  ASSUME AgentInv, [Next]_vars
  PROVE  Results
<1> USE DEF AgentInv
<1>1. NoReply.results = FALSE /\ \A code : Answer(code).results = FALSE
  BY DEF NoReply, Answer
<1>2. \A code, ts : AnswerWith(code, ts).ts = ts  BY DEF AnswerWith
<1>3. CASE Asking
  <2>1. PICK r : Ask(r)  BY <1>3, AskingSuits
  <2> QED  BY <1>1, <2>1, AskKeeps DEF Results
<1>4. CASE Serve
  <2>1. UNCHANGED <<memory, request>>  BY <1>4 DEF Serve, program
  <2>2. CASE ServeLogin(request.account) \/ ServeRegister(request.account)
    BY <1>2, <2>1, <2>2 DEF ServeLogin, ServeRegister, Accept, Entering, Results
  <2>3. CASE ServeLogout(request.account) \/ ServeUpload(request.account)
    BY <1>1, <2>3 DEF ServeLogout, ServeUpload, Results
  <2>4. CASE ServeDownload(request.account)
    BY <1>1, <1>2, <2>1, <2>4 DEF ServeDownload, world, Results
  <2>5. CASE Refuse(request.account)
    BY <1>1, <2>5 DEF Refuse, Results
  <2>6. CASE Fail(request.account)
    BY <1>1, <1>2, <2>1, <2>6 DEF Fail, world, Results
  <2> QED  BY <1>4, <2>2, <2>3, <2>4, <2>5, <2>6 DEF Serve
<1>5. ASSUME Forget PROVE Results
  BY <1>1, <1>5 DEF Forget, Results
<1>6. CASE LoseReply
  BY <1>1, <1>6 DEF LoseReply, Results
<1>7. CASE UNCHANGED <<reply, request>>
  BY <1>7 DEF Results
<1> QED
  BY <1>3, <1>4, <1>5, <1>6, <1>7 DEF Next, Asking, NoStartupLogin, CloseLogin,
     OpenLogin, OpenNotification, CloseNotification, LeaveHome, ChangeSetting,
     FinishPreferences, StartupAnswer,
     LoginAnswer, RegisterAnswer, LogoutAnswer, UploadAnswer, DownloadAnswer, Restart,
     DownloadTruncates, DownloadWrites, FinishWrite, Quit, Kill, Save, OtherLogin, OtherSave,
     OtherUpload, RequestDone, Forget, vars

(* An upload that is asked for takes the stamp from memory and the version *)
(* from the file, when nothing is being written.                           *)
Sends ==
  \/ request'.op # "upload"
  \/ /\ UNCHANGED request
     /\ UNCHANGED memory
  \/ /\ main = "idle" /\ UNCHANGED <<memory, file, server>> /\ reply' = NoReply
     /\ request'.list \in Lists
     /\ request'.stamp = memory[request'.list] /\ request'.data = file[request'.list]

LEMMA RequestSteps ==
  ASSUME AgentInv, [Next]_vars
  PROVE  Sends
<1> USE DEF AgentInv
<1>1. ASSUME NEW r, Ask(r), r.op # "upload" PROVE Sends
  BY <1>1, AskKeeps DEF Sends
<1>2. \A op, a : [NoRequest EXCEPT !.op = op, !.account = a].op = op
  BY DEF NoRequest
<1>3. CASE StartupLogin \/ Logout \/ \E a \in Accounts : Login(a) \/ Register(a)
  BY <1>1, <1>2, <1>3 DEF StartupLogin, Logout, Login, Register
<1>4. ASSUME NEW k \in Lists, Download(k) PROVE Sends
  <2>1. [NoRequest EXCEPT !.op = "download", !.account = user.account, !.list = k].op = "download"
    BY DEF NoRequest
  <2> QED  BY <1>1, <1>4, <2>1 DEF Download
<1>5. ASSUME NEW k \in Lists, Upload(k) PROVE Sends
  <2> DEFINE r == [op |-> "upload", account |-> user.account, list |-> k,
                   stamp |-> memory[k], data |-> file[k]]
  <2>1. Ask(r) /\ main = "idle"  BY <1>5 DEF Upload, Idle
  <2>2. r.list = k /\ r.stamp = memory[k] /\ r.data = file[k]  OBVIOUS
  <2> HIDE DEF r
  <2> QED  BY <2>1, <2>2, AskKeeps DEF Sends
<1>6. ASSUME Forget PROVE Sends
  BY <1>6 DEF Forget, NoRequest, Sends
<1>7. CASE DownloadWrites
  BY <1>6, <1>7 DEF DownloadWrites, RequestDone
<1>8. ASSUME NEW k \in Lists, Save(k) PROVE Sends
  BY <1>8 DEF Save, Idle, RequestInv, Sends
<1>9. CASE UNCHANGED <<request, memory>>
  BY <1>9 DEF Sends
<1> QED
  BY <1>3, <1>4, <1>5, <1>6, <1>7, <1>8, <1>9 DEF Next, Asking, NoStartupLogin, CloseLogin,
     OpenLogin, OpenNotification, CloseNotification, LeaveHome, ChangeSetting,
     FinishPreferences, StartupAnswer,
     LoginAnswer, RegisterAnswer, LogoutAnswer, UploadAnswer, DownloadAnswer, Restart,
     Serve, LoseReply, DownloadTruncates, FinishWrite, Quit, Kill, OtherLogin, OtherSave,
     OtherUpload, RequestDone, program, vars

(* A file or a list in memory changes by a save, a download or a restart.  *)
Moves ==
  \/ UNCHANGED <<memory, file>> /\ \A k \in Lists : Writing(k)' <=> Writing(k)
  \/ memory' = file /\ UNCHANGED file /\ user'.account = "none" /\ ~alive /\ main' = "idle"
  \/ \E k \in Lists : Save(k)
  \/ FinishWrite
  \/ DownloadTruncates
  \/ DownloadWrites
  \/ /\ Answered({"download"}) /\ main' = "idle" /\ UNCHANGED file
     /\ memory' = [memory EXCEPT ![request.list] = Loaded(request.list, file)]

LEMMA FileSteps ==
  ASSUME AgentInv, [Next]_vars
  PROVE  Moves
<1> USE DEF AgentInv
<1>1. ASSUME UNCHANGED <<memory, file, main, request>> PROVE Moves
  BY <1>1 DEF Moves, Writing
<1>2. ASSUME main \notin Lists \cup {"downloading"}, main' \notin Lists \cup {"downloading"},
             UNCHANGED <<memory, file>>
      PROVE  Moves
  BY <1>2 DEF Moves, Writing
<1>3. CASE Asking
  BY <1>2, <1>3, AskingSuits, AskKeeps, ListsApart
<1>4. CASE StartupAnswer \/ LoginAnswer \/ RegisterAnswer \/ LogoutAnswer \/ UploadAnswer
  BY <1>2, <1>4, ListsApart DEF StartupAnswer, WritePreferences, LoginAnswer,
     RegisterAnswer, LogoutAnswer, UploadAnswer, Answered, RequestDone
<1>5. CASE DownloadAnswer
  BY <1>2, <1>5, ListsApart DEF DownloadAnswer, Answered, RequestDone, Moves
<1>6. CASE Restart
  BY <1>6 DEF Restart, RequestDone, NoUser, Moves
<1>7. CASE DownloadTruncates \/ DownloadWrites \/ FinishWrite \/ \E k \in Lists : Save(k)
  BY <1>7 DEF Moves
<1>8. CASE ChangeSetting \/ FinishPreferences \/ Quit
  BY <1>2, <1>8, ListsApart DEF ChangeSetting, FinishPreferences, Quit, Idle, WritePreferences,
     WritingPreferences, program
<1> QED
  BY <1>1, <1>3, <1>4, <1>5, <1>6, <1>7, <1>8 DEF Next, Asking, NoStartupLogin, CloseLogin,
     OpenLogin, OpenNotification, CloseNotification, LeaveHome, Serve, LoseReply,
     Kill, OtherLogin, OtherSave, OtherUpload, program, vars

LEMMA Numbers ==
  ASSUME TypeOK
  PROVE  /\ \A k \in Lists : memory[k] \in Nat /\ file[k] \in Nat /\ reply.ts[k] \in Nat
                             /\ user.ts[k] \in Nat /\ other[k] \in Nat
         /\ \A a \in Accounts, k \in Lists :
              server[a][k].stamp \in Nat /\ server[a][k].data \in Nat
         /\ request.stamp \in Nat /\ request.data \in Nat /\ clock \in Nat
         /\ LoggedIn => user.account \in Accounts
BY DEF TypeOK, Stamps, Replies, Users, Served, Requests, LoggedIn

(* How a download that ends changes the list in memory                     *)
LEMMA Downloads ==
  ASSUME AgentInv, request.op = "download", NEW f, 
         memory' = [memory EXCEPT ![request.list] = Loaded(request.list, f)]
  PROVE  /\ request.list \in Lists
         /\ \A k \in Lists :
              memory'[k] = IF k = request.list /\ f[k] # 0 THEN f[k] ELSE memory[k]
BY DEF AgentInv, RequestInv, TypeOK, Stamps, Loaded

(* The program's lists only get newer while it runs.                       *)
LEMMA MemoryGrows ==
  ASSUME AgentInv, FilesNewer, [Next]_vars
  PROVE  \/ user'.account = "none" /\ ~alive
         \/ \A k \in Lists : memory'[k] >= memory[k]
<1> USE DEF AgentInv
<1>1. \A k \in Lists : memory[k] \in Nat /\ file[k] \in Nat /\ reply.ts[k] \in Nat /\ clock \in Nat
  BY Numbers
<1>2. CASE UNCHANGED memory
  BY <1>1, <1>2
<1>3. ASSUME NEW k \in Lists, Save(k) PROVE \A j \in Lists : memory'[j] >= memory[j]
  <2>1. memory' = [memory EXCEPT ![k] = clock + 1]  BY <1>3 DEF Save
  <2>2. \A j \in Lists : memory'[j] = IF j = k THEN clock + 1 ELSE memory[j]
    BY <2>1 DEF TypeOK, Stamps
  <2> QED  BY <1>1, <2>2 DEF ClockInv
<1>4. CASE DownloadWrites
  <2>1. request.op = "download" /\ reply.results /\ main = "downloading" /\ request.list \in Lists
    BY <1>4 DEF DownloadWrites, RequestInv, FilesNewer
  <2>2. file'[request.list] = reply.ts[request.list]
    BY <1>4, <2>1 DEF DownloadWrites, TypeOK, Stamps
  <2>3. CASE memory' = [memory EXCEPT ![request.list] = Loaded(request.list, file')]
    <3>1. \A k \in Lists :
            memory'[k] = IF k = request.list /\ file'[k] # 0 THEN file'[k] ELSE memory[k]
      BY <2>1, <2>3, Downloads
    <3>2. reply.ts[request.list] > memory[request.list]  BY <2>1 DEF FilesNewer
    <3> QED  BY <1>1, <2>1, <2>2, <3>1, <3>2
  <2> QED  BY <1>2, <1>4, <2>3 DEF DownloadWrites
<1>5. CASE /\ Answered({"download"}) /\ main' = "idle" /\ UNCHANGED file
           /\ memory' = [memory EXCEPT ![request.list] = Loaded(request.list, file)]
  <2>1. request.op = "download" /\ main = "waiting"  BY <1>5 DEF Answered
  <2>2. \A k \in Lists : ~Writing(k)  BY <2>1, ListsApart DEF Writing
  <2>3. \A k \in Lists :
          memory'[k] = IF k = request.list /\ file[k] # 0 THEN file[k] ELSE memory[k]
    BY <1>5, <2>1, Downloads
  <2>4. \A k \in Lists : file[k] >= memory[k]  BY <2>2 DEF FilesNewer
  <2> QED  BY <1>1, <2>3, <2>4
<1> QED  BY <1>2, <1>3, <1>4, <1>5, FileSteps DEF Moves, FinishWrite, DownloadTruncates

-----------------------------------------------------------------------------
(* What the client was told                                                *)

LEMMA ToldStep ==
  ASSUME AgentInv, ToldInv, FilesNewer, [Next]_vars
  PROVE  ToldInv'
<1> USE DEF AgentInv
<1>1. \A a \in Accounts, k \in Lists :
        server'[a][k].stamp >= server[a][k].stamp /\ server'[a][k].stamp \in Nat
          /\ server[a][k].stamp \in Nat
  BY AgentStep, ServerGrows, Numbers DEF TypeOK, Served
<1>2. ASSUME user'.account # "none", NEW k \in Lists
      PROVE  user'.ts[k] <= server'[user'.account][k].stamp \/ user'.ts[k] <= memory'[k]
  <2>1. memory'[k] >= memory[k] /\ memory[k] \in Nat /\ memory'[k] \in Nat /\ user.ts[k] \in Nat
          /\ reply.ts[k] \in Nat
    BY <1>2, MemoryGrows, Numbers, AgentStep DEF TypeOK, Stamps
  <2>2. CASE user' = user
    <3>1. LoggedIn /\ user.account \in Accounts  BY <1>2, <2>2, Numbers DEF LoggedIn
    <3> QED  BY <1>1, <2>1, <2>2, <3>1 DEF ToldInv
  <2>3. CASE Welcome /\ request.op \in Entering /\ user' = NewUser /\ UNCHANGED server
    <3>1. user'.account = request.account /\ user'.ts = reply.ts  BY <2>3 DEF NewUser
    <3> QED  BY <2>3, <3>1 DEF Welcome, ToldInv
  <2>4. CASE /\ request.op = "upload" /\ Returned(reply.code)
             /\ user' = [user EXCEPT !.ts[request.list] = memory[request.list]]
             /\ UNCHANGED <<server, memory>>
    <3>1. user'.account = user.account  BY <2>4 DEF TypeOK, Users
    <3>2. user'.ts[k] = IF k = request.list THEN memory[k] ELSE user.ts[k]
      BY <2>4 DEF TypeOK, Users, Stamps
    <3>3. LoggedIn /\ user.account \in Accounts  BY <1>2, <3>1, Numbers DEF LoggedIn
    <3> QED  BY <2>1, <2>4, <3>1, <3>2, <3>3 DEF ToldInv
  <2> QED  BY <1>2, <2>2, <2>3, <2>4, UserSteps DEF Remembers
<1>3. ASSUME reply'.results, request'.op \in Entering, NEW k \in Lists
      PROVE  reply'.ts[k] <= server'[request'.account][k].stamp
  <2>1. CASE UNCHANGED <<reply, request>>
    <3>1. request.account \in Accounts  BY <1>3, <2>1 DEF RequestInv, Entering
    <3> QED  BY <1>1, <1>3, <2>1, <3>1, Numbers DEF ToldInv
  <2>2. CASE /\ UNCHANGED <<server, request>> /\ request.op \in Entering
             /\ reply'.ts = ServedStamps(request.account)
    <3>1. request.account \in Accounts  BY <2>2 DEF RequestInv, Entering
    <3> QED  BY <1>1, <2>2, <3>1 DEF ServedStamps
  <2> QED  BY <1>3, <2>1, <2>2, ReplySteps DEF Results, Entering
<1> QED  BY <1>2, <1>3 DEF ToldInv, LoggedIn

-----------------------------------------------------------------------------
(* What a step may do to the server, and to a download that is under way   *)

Stored(b, j, v) ==
  /\ b \in Accounts /\ j \in Lists
  /\ \A a \in Accounts, k \in Lists :
       server'[a][k] = IF a = b /\ k = j THEN v ELSE server[a][k]

Stores ==
  \/ UNCHANGED server
  \/ /\ request.op = "upload" /\ UNCHANGED request
     /\ Stored(request.account, request.list,
               [stamp |-> request.stamp, data |-> request.data])
  \/ \E b \in Accounts, j \in Lists : Stored(b, j, [stamp |-> other[j], data |-> other[j]])

LEMMA ServerSteps ==
  ASSUME AgentInv, [Next]_vars
  PROVE  Stores
<1> USE DEF AgentInv
<1>1. CASE UNCHANGED server
  BY <1>1 DEF Stores
<1>2. CASE Asking
  BY <1>1, <1>2, AskingSuits, AskKeeps
<1>3. CASE Serve
  <2>1. CASE ServeUpload(request.account)
    <3>1. request.account \in Accounts /\ request.list \in Lists /\ request' = request
      BY <1>3, <2>1 DEF Serve, ServeUpload, RequestInv
    <3>2. Stored(request.account, request.list,
                 [stamp |-> request.stamp, data |-> request.data])
      BY <2>1, <3>1 DEF ServeUpload, Stored, TypeOK
    <3> QED  BY <2>1, <3>1, <3>2 DEF ServeUpload, Stores
  <2> QED
    BY <1>1, <1>3, <2>1 DEF Serve, ServeLogin, ServeRegister, Accept, ServeLogout,
       ServeDownload, Refuse, Fail, world
<1>4. ASSUME NEW b \in Accounts, NEW j \in Lists, OtherUpload(b, j) PROVE Stores
  <2>1. Stored(b, j, [stamp |-> other[j], data |-> other[j]])
    BY <1>4 DEF OtherUpload, Stored, TypeOK
  <2> QED  BY <2>1 DEF Stores
<1> QED
  BY <1>1, <1>2, <1>3, <1>4 DEF Next, Asking, NoStartupLogin, CloseLogin, OpenLogin,
     OpenNotification, CloseNotification, LeaveHome, ChangeSetting,
     FinishPreferences, LoseReply, StartupAnswer,
     LoginAnswer, RegisterAnswer, LogoutAnswer, UploadAnswer, DownloadTruncates,
     DownloadWrites, DownloadAnswer, FinishWrite, Quit, Kill, Restart, Save, OtherLogin,
     OtherSave, world, vars

LEMMA StoredVersion ==
  ASSUME AgentInv, [Next]_vars, NEW a \in Accounts, NEW k \in Lists
  PROVE  \/ server'[a][k] = server[a][k]
         \/ /\ request.op = "upload" /\ a = request.account /\ k = request.list
            /\ server'[a][k].stamp = request.stamp /\ server'[a][k].data = request.data
         \/ server'[a][k].stamp = server'[a][k].data
<1>1. CASE UNCHANGED server
  BY <1>1
<1>2. CASE /\ request.op = "upload"
           /\ Stored(request.account, request.list,
                     [stamp |-> request.stamp, data |-> request.data])
  BY <1>2 DEF Stored
<1>3. ASSUME NEW b \in Accounts, NEW j \in Lists,
             Stored(b, j, [stamp |-> other[j], data |-> other[j]])
      PROVE  server'[a][k] = server[a][k] \/ server'[a][k].stamp = server'[a][k].data
  BY <1>3 DEF Stored
<1> QED  BY <1>1, <1>2, <1>3, ServerSteps DEF Stores

(* While there is a request, no list in memory changes.                    *)
LEMMA MemoryWaits ==
  ASSUME AgentInv, [Next]_vars, request'.op # "none"
  PROVE  UNCHANGED memory
<1>1. main' \in {"waiting", "downloading"}
  <2>1. AgentInv'  BY AgentStep
  <2> QED  BY <2>1 DEF AgentInv, RequestInv
<1>2. ASSUME NEW k \in Lists, Save(k) PROVE FALSE
  BY <1>1, <1>2, ListsApart DEF Save
<1> QED
  BY <1>1, <1>2, FileSteps DEF Moves, FinishWrite, DownloadTruncates, DownloadWrites, RequestDone

LEMMA DownloadingSteps ==
  ASSUME AgentInv, [Next]_vars, main' = "downloading"
  PROVE  UNCHANGED <<main, reply>> \/ (reply.results /\ UNCHANGED reply)
<1> USE DEF AgentInv
<1>1. ASSUME Asking PROVE FALSE
  <2>1. PICK r : Ask(r)  BY <1>1, AskingSuits
  <2> QED  BY <2>1, AskKeeps
<1>2. ASSUME NEW k \in Lists, Save(k) PROVE FALSE
  BY <1>2, ListsApart DEF Save
<1> QED
  BY <1>1, <1>2 DEF Next, WritePreferences, Asking, NoStartupLogin, CloseLogin, OpenLogin, OpenNotification,
     CloseNotification, LeaveHome, ChangeSetting,
     FinishPreferences, Serve, LoseReply, StartupAnswer, LoginAnswer,
     RegisterAnswer, LogoutAnswer, UploadAnswer, DownloadTruncates, DownloadWrites,
     DownloadAnswer, FinishWrite, Quit, Kill, Restart, RequestDone, OtherLogin, OtherSave,
     OtherUpload, vars

(* The code of an answer with a file, and of one to an upload              *)
Codings ==
  /\ \/ ~reply'.results \/ request'.op # "download"
     \/ UNCHANGED <<reply, request>>
     \/ Returned(reply'.code)
     \/ "results_with_error" \in ServerFaults
  /\ \/ ~Returned(reply'.code) \/ request'.op # "upload"
     \/ UNCHANGED <<reply, request>>
     \/ "blank" \in ServerFaults
     \/ /\ UNCHANGED request /\ request.account \in Accounts /\ request.list \in Lists
        /\ server'[request.account][request.list].stamp = request.stamp

LEMMA CodeSteps ==
  ASSUME AgentInv, [Next]_vars
  PROVE  Codings
<1> USE DEF AgentInv
<1>1. /\ NoReply.results = FALSE /\ \A code : Answer(code).results = FALSE
      /\ NoReply.code = "none" /\ \A code : Answer(code).code = code
      /\ \A code, ts : AnswerWith(code, ts).code = code
  BY DEF NoReply, Answer, AnswerWith
<1>2. ~Returned("none") /\ ~Returned("error") /\ ~Returned("lost") /\ ~Returned("remote")
        /\ Returned("ok")
  BY DEF Returned
<1>3. ASSUME reply' = NoReply PROVE Codings
  BY <1>1, <1>2, <1>3 DEF Codings
<1>4. CASE UNCHANGED <<reply, request>>
  BY <1>4 DEF Codings
<1>5. CASE Asking
  BY <1>3, <1>4, <1>5, AskingSuits, AskKeeps
<1>6. CASE LoseReply
  BY <1>1, <1>2, <1>6 DEF LoseReply, Codings
<1>7. CASE Serve
  <2> DEFINE a == request.account
  <2>1. request' = request  BY <1>7 DEF Serve
  <2>2. CASE ServeLogin(a) \/ ServeRegister(a) \/ ServeLogout(a)
    BY <1>1, <2>1, <2>2 DEF ServeLogin, ServeRegister, ServeLogout, Codings
  <2>3. CASE ServeUpload(a)
    <3>1. a \in Accounts /\ request.list \in Lists
      BY <1>7, <2>3 DEF Serve, ServeUpload, RequestInv
    <3>2. server'[a][request.list].stamp = request.stamp
      BY <2>3, <3>1 DEF ServeUpload, TypeOK
    <3> QED  BY <1>1, <2>1, <2>3, <3>1, <3>2 DEF ServeUpload, Codings
  <2>4. CASE ServeDownload(a)
    BY <1>1, <1>2, <2>1, <2>4 DEF ServeDownload, Codings
  <2>5. CASE Refuse(a)
    BY <1>1, <1>2, <2>1, <2>5 DEF Refuse, Refusals, Codings
  <2>6. CASE Fail(a)
    BY <1>1, <1>2, <2>1, <2>6 DEF Fail, Codings
  <2> QED  BY <1>7, <2>2, <2>3, <2>4, <2>5, <2>6 DEF Serve
<1> QED
  BY <1>3, <1>4, <1>5, <1>6, <1>7 DEF Next, Asking, NoStartupLogin, CloseLogin,
     OpenLogin, OpenNotification, CloseNotification, LeaveHome, ChangeSetting,
     FinishPreferences, StartupAnswer,
     LoginAnswer, RegisterAnswer, LogoutAnswer, UploadAnswer, DownloadAnswer, Restart,
     DownloadTruncates, DownloadWrites, FinishWrite, Quit, Kill, Save, OtherLogin, OtherSave,
     OtherUpload, RequestDone, Forget, vars

-----------------------------------------------------------------------------
(* The versions in the files                                               *)

(* How a step that writes changes the file and the list                    *)
LEMMA Writes ==
  ASSUME AgentInv, FilesNewer
  PROVE  /\ FinishWrite =>
              /\ main \in Lists /\ UNCHANGED memory
              /\ \A k \in Lists : file'[k] = IF k = main THEN memory[k] ELSE file[k]
              /\ \A k \in Lists : Writing(k) => k = main
         /\ DownloadTruncates =>
              /\ request.list \in Lists /\ main' = "downloading" /\ UNCHANGED <<memory, request>>
              /\ \A k \in Lists : ~Writing(k)
              /\ \A k \in Lists : k # request.list => file'[k] = file[k]
         /\ DownloadWrites =>
              /\ request.list \in Lists /\ reply.results /\ request.op = "download"
              /\ \A k \in Lists :
                   file'[k] = IF k = request.list THEN reply.ts[k] ELSE file[k]
              /\ \A k \in Lists : Writing(k) => k = request.list
         /\ \A j \in Lists : Save(j) =>
              /\ main' = j /\ \A k \in Lists : ~Writing(k)
              /\ \A k \in Lists : k # j => file'[k] = file[k] /\ memory'[k] = memory[k]
<1> USE DEF AgentInv
<1>1. ASSUME FinishWrite
      PROVE  /\ main \in Lists /\ UNCHANGED memory
             /\ \A k \in Lists : file'[k] = IF k = main THEN memory[k] ELSE file[k]
             /\ \A k \in Lists : Writing(k) => k = main
  BY <1>1, ListsApart DEF FinishWrite, Writing, TypeOK, Stamps
<1>2. ASSUME DownloadTruncates
      PROVE  /\ request.list \in Lists /\ main' = "downloading" /\ UNCHANGED <<memory, request>>
             /\ \A k \in Lists : ~Writing(k)
             /\ \A k \in Lists : k # request.list => file'[k] = file[k]
  BY <1>2, ListsApart DEF DownloadTruncates, Answered, RequestInv, Writing, TypeOK, Stamps
<1>3. ASSUME DownloadWrites
      PROVE  /\ request.list \in Lists /\ reply.results /\ request.op = "download"
             /\ \A k \in Lists : file'[k] = IF k = request.list THEN reply.ts[k] ELSE file[k]
             /\ \A k \in Lists : Writing(k) => k = request.list
  BY <1>3, ListsApart DEF DownloadWrites, RequestInv, FilesNewer, Writing, TypeOK, Stamps
<1>4. ASSUME NEW j \in Lists, Save(j)
      PROVE  /\ main' = j /\ \A k \in Lists : ~Writing(k)
             /\ \A k \in Lists : k # j => file'[k] = file[k] /\ memory'[k] = memory[k]
  BY <1>4, ListsApart DEF Save, Idle, Writing, TypeOK, Stamps
<1> QED  BY <1>1, <1>2, <1>3, <1>4

(* A list that is not being written afterwards was left alone, or file and *)
(* memory agree again, or a download failed after the file had come.       *)
LEMMA FileAfter ==
  ASSUME AgentInv, FilesNewer, [Next]_vars, NEW k \in Lists, ~Writing(k)'
  PROVE  \/ ~Writing(k) /\ file'[k] = file[k] /\ memory'[k] = memory[k]
         \/ file'[k] = memory'[k]
         \/ /\ request.op = "download" /\ reply.results /\ k = request.list
            /\ ~Returned(reply.code)
            /\ file'[k] = reply.ts[k] /\ memory'[k] = memory[k]
<1> USE DEF AgentInv
<1>0. memory[k] \in Nat /\ file[k] \in Nat /\ reply.ts[k] \in Nat  BY Numbers
<1>1. CASE UNCHANGED <<memory, file>> /\ \A j \in Lists : Writing(j)' <=> Writing(j)
  BY <1>1
<1>2. CASE memory' = file /\ UNCHANGED file
  BY <1>2
<1>3. ASSUME NEW j \in Lists, Save(j)
      PROVE  ~Writing(k) /\ file'[k] = file[k] /\ memory'[k] = memory[k]
  BY <1>3, Writes DEF Writing
<1>4. CASE FinishWrite
  BY <1>4, Writes
<1>5. CASE DownloadTruncates
  BY <1>5, Writes DEF Writing
<1>6. CASE DownloadWrites
  <2>1. /\ request.list \in Lists /\ reply.results /\ request.op = "download"
        /\ \A j \in Lists : file'[j] = IF j = request.list THEN reply.ts[j] ELSE file[j]
        /\ Writing(k) => k = request.list
    BY <1>6, Writes
  <2>2. reply.ts[request.list] > memory[request.list]  BY <2>1 DEF FilesNewer
  <2>3. CASE Returned(reply.code)
    <3>1. memory' = [memory EXCEPT ![request.list] = Loaded(request.list, file')]
      BY <1>6, <2>3 DEF DownloadWrites
    <3>2. memory'[k] = IF k = request.list /\ file'[k] # 0 THEN file'[k] ELSE memory[k]
      BY <2>1, <3>1, Downloads
    <3> QED  BY <1>0, <2>1, <2>2, <3>2
  <2>4. CASE ~Returned(reply.code)
    <3>1. memory' = memory  BY <1>6, <2>4 DEF DownloadWrites
    <3> QED  BY <2>1, <2>4, <3>1
  <2> QED  BY <2>3, <2>4
<1>7. CASE /\ Answered({"download"}) /\ main' = "idle" /\ UNCHANGED file
           /\ memory' = [memory EXCEPT ![request.list] = Loaded(request.list, file)]
  <2>1. request.op = "download" /\ ~Writing(k)  BY <1>7, ListsApart DEF Answered, Writing
  <2>2. memory'[k] = IF k = request.list /\ file[k] # 0 THEN file[k] ELSE memory[k]
    BY <1>7, <2>1, Downloads
  <2>3. file[k] >= memory[k]  BY <2>1 DEF FilesNewer
  <2> QED  BY <1>0, <1>7, <2>1, <2>2, <2>3
<1> QED  BY <1>1, <1>2, <1>3, <1>4, <1>5, <1>6, <1>7, FileSteps DEF Moves

(* A download finds the version announced, or a newer one.                 *)
LEMMA ServedNewer ==
  ASSUME AgentInv, ToldInv, FilesNewer, request.op = "download"
  PROVE  /\ request.account \in Accounts /\ request.list \in Lists
         /\ server[request.account][request.list].stamp > memory[request.list]
         /\ server[request.account][request.list].data > memory[request.list]
<1> USE DEF AgentInv
<1>1. /\ request.account \in Accounts /\ request.account = user.account
      /\ request.list \in Lists /\ user.ts[request.list] > memory[request.list]
  BY DEF RequestInv, RowsTrue
<1>2. LoggedIn  BY <1>1, SyncAssumption DEF LoggedIn
<1>3. LET t == user.ts[request.list]
      IN  t <= server[request.account][request.list].stamp \/ t <= memory[request.list]
  BY <1>1, <1>2 DEF ToldInv
<1>4. server[request.account][request.list].data >= server[request.account][request.list].stamp
  BY <1>1 DEF FilesNewer
<1>5. /\ server[request.account][request.list].stamp \in Nat
      /\ server[request.account][request.list].data \in Nat
      /\ user.ts[request.list] \in Nat /\ memory[request.list] \in Nat
  BY <1>1, Numbers
<1> QED  BY <1>1, <1>3, <1>4, <1>5

LEMMA FilesNewerStep ==
  ASSUME AgentInv, ToldInv, FilesNewer, [Next]_vars
  PROVE  FilesNewer'
<1> USE DEF AgentInv
<1>1. ASSUME NEW k \in Lists, ~Writing(k)' PROVE file'[k] >= memory'[k]
  <2>1. file'[k] \in Nat /\ memory'[k] \in Nat /\ reply.ts[k] \in Nat /\ memory[k] \in Nat
    BY AgentStep, Numbers DEF TypeOK, Stamps
  <2>2. ~Writing(k) => file[k] >= memory[k]  BY DEF FilesNewer
  <2>3. request.op = "download" /\ reply.results => reply.ts[request.list] > memory[request.list]
    BY DEF FilesNewer
  <2> QED  BY <1>1, <2>1, <2>2, <2>3, FileAfter
<1>2. ASSUME NEW a \in Accounts, NEW k \in Lists PROVE server'[a][k].data >= server'[a][k].stamp
  <2>1. server[a][k].data >= server[a][k].stamp  BY DEF FilesNewer
  <2>2. request.op = "upload" => request.data >= request.stamp  BY DEF FilesNewer
  <2>3. server'[a][k].stamp \in Nat  BY AgentStep DEF TypeOK, Served
  <2> QED  BY <2>1, <2>2, <2>3, StoredVersion
<1>3. ASSUME request'.op = "upload" PROVE request'.data >= request'.stamp
  <2>1. CASE UNCHANGED request
    BY <1>3, <2>1 DEF FilesNewer
  <2>2. CASE /\ main = "idle" /\ request'.list \in Lists
             /\ request'.stamp = memory[request'.list] /\ request'.data = file[request'.list]
    <3>1. ~Writing(request'.list)  BY <2>2, ListsApart DEF Writing
    <3> QED  BY <2>2, <3>1 DEF FilesNewer
  <2> QED  BY <1>3, <2>1, <2>2, RequestSteps DEF Sends
<1>4. ASSUME request'.op = "download", reply'.results
      PROVE  /\ reply'.ts[request'.list] > memory'[request'.list]
             /\ server'[request'.account][request'.list].stamp > memory'[request'.list]
             /\ Returned(reply'.code) \/ "results_with_error" \in ServerFaults
  <2>1. memory' = memory  BY <1>4, MemoryWaits
  <2>2. request' = request
    BY <1>4, ReplySteps DEF Results
  <2>3. /\ request.account \in Accounts /\ request.list \in Lists
        /\ server[request.account][request.list].stamp > memory[request.list]
        /\ server[request.account][request.list].data > memory[request.list]
    BY <1>4, <2>2, ServedNewer
  <2>4. server'[request.account][request.list].stamp > memory[request.list]
    <3>1. server'[request.account][request.list].stamp >= server[request.account][request.list].stamp
      BY <2>3, ServerGrows
    <3>2. server'[request.account][request.list].stamp \in Nat
      BY <2>3, AgentStep DEF TypeOK, Served
    <3> QED  BY <2>3, <3>1, <3>2, Numbers
  <2>5. reply'.ts[request.list] > memory[request.list]
    <3>1. CASE UNCHANGED reply
      BY <1>4, <2>2, <3>1 DEF FilesNewer
    <3>2. CASE reply'.ts = ServedFiles(request.account)
      BY <2>3, <3>2 DEF ServedFiles
    <3> QED  BY <1>4, <2>2, <3>1, <3>2, ReplySteps DEF Results, Entering
  <2>6. Returned(reply'.code) \/ "results_with_error" \in ServerFaults
    <3>1. CASE UNCHANGED reply
      BY <1>4, <2>2, <3>1 DEF FilesNewer
    <3> QED  BY <1>4, <3>1, CodeSteps DEF Codings
  <2> QED  BY <2>1, <2>2, <2>4, <2>5, <2>6
<1>5. ASSUME main' = "downloading" PROVE reply'.results
  BY <1>5, DownloadingSteps DEF FilesNewer
<1> QED  BY <1>1, <1>2, <1>3, <1>4, <1>5 DEF FilesNewer

LEMMA FilesTrueStep ==
  ASSUME AgentInv, ToldInv, FilesNewer, FilesTrue, OneVersion, [Next]_vars
  PROVE  FilesTrue'
<1> USE DEF AgentInv
<1>1. ASSUME NEW k \in Lists, NEW t \in Nat, Ahead(k, t)
      PROVE  "results_with_error" \in ServerFaults /\ \A a \in Accounts : server'[a][k].stamp > t
  <2>1. \A a \in Accounts : server'[a][k].stamp \in Nat /\ server[a][k].stamp \in Nat
    BY AgentStep, Numbers DEF TypeOK, Served
  <2> QED  BY <1>1, <2>1, ServerGrows DEF Ahead
<1>2. ASSUME NEW k \in Lists, ~Writing(k)'
      PROVE  file'[k] = memory'[k] \/ Ahead(k, memory[k])' 
  <2>1. memory[k] \in Nat  BY Numbers
  <2>2. CASE ~Writing(k) /\ file'[k] = file[k] /\ memory'[k] = memory[k]
    BY <1>1, <2>1, <2>2 DEF FilesTrue, Ahead
  <2>3. CASE /\ request.op = "download" /\ reply.results /\ k = request.list
             /\ ~Returned(reply.code) /\ memory'[k] = memory[k]
    <3>1. /\ "results_with_error" \in ServerFaults /\ request.account \in Accounts
          /\ server[request.account][k].stamp > memory[k]
      BY <2>3, ServedNewer DEF FilesNewer
    <3>2. Ahead(k, memory[k])  BY <3>1 DEF OneVersion, Ahead
    <3> QED  BY <1>1, <2>1, <2>3, <3>2 DEF Ahead
  <2> QED  BY <1>2, <2>2, <2>3, FileAfter
<1>3. ASSUME request'.op = "upload"
      PROVE  request'.data = request'.stamp \/ Ahead(request.list, request.stamp)'
  <2>1. CASE UNCHANGED request
    <3>1. request.list \in Lists /\ request.stamp \in Nat
      BY <1>3, <2>1, Numbers DEF RequestInv
    <3> QED  BY <1>1, <1>3, <2>1, <3>1 DEF FilesTrue, Ahead
  <2>2. CASE /\ main = "idle" /\ request'.list \in Lists
             /\ request'.stamp = memory[request'.list] /\ request'.data = file[request'.list]
    <3>1. ~Writing(request'.list) /\ memory[request'.list] \in Nat
      BY <2>2, ListsApart, Numbers DEF Writing
    <3> QED  BY <1>1, <2>2, <3>1 DEF FilesTrue, Ahead
  <2> QED  BY <1>3, <2>1, <2>2, RequestSteps DEF Sends
<1>4. ASSUME NEW a \in Accounts, NEW k \in Lists PROVE server'[a][k].stamp = server'[a][k].data
  <2>1. server[a][k].stamp = server[a][k].data  BY DEF FilesTrue, StampsTrue
  <2>2. CASE /\ request.op = "upload" /\ a = request.account /\ k = request.list
             /\ server'[a][k].stamp = request.stamp /\ server'[a][k].data = request.data
    <3>1. ~Ahead(request.list, request.stamp)
      <4>1. server'[a][k].stamp >= server[a][k].stamp  BY ServerGrows
      <4> QED  BY <2>2, <4>1, Numbers DEF Ahead
    <3>2. request.data = request.stamp  BY <2>2, <3>1 DEF FilesTrue
    <3> QED  BY <2>2, <3>2
  <2> QED  BY <2>1, <2>2, StoredVersion
<1> QED  BY <1>2, <1>3, <1>4 DEF FilesTrue, StampsTrue

LEMMA StoredStep ==
  ASSUME AgentInv, ToldInv, StoredInv, "blank" \notin ServerFaults, [Next]_vars
  PROVE  StoredInv'
<1> USE DEF AgentInv
<1>1. \A a \in Accounts, k \in Lists :
        server'[a][k].stamp >= server[a][k].stamp /\ server'[a][k].stamp \in Nat
          /\ server[a][k].stamp \in Nat
  BY AgentStep, ServerGrows, Numbers DEF TypeOK, Served
<1>2. ASSUME user'.account # "none", NEW k \in Lists
      PROVE  user'.ts[k] <= server'[user'.account][k].stamp
  <2>1. CASE user' = user
    <3>1. LoggedIn /\ user.account \in Accounts /\ user.ts[k] \in Nat
      BY <1>2, <2>1, Numbers DEF LoggedIn
    <3>2. user.ts[k] <= server[user.account][k].stamp  BY <3>1 DEF StoredInv
    <3> QED  BY <1>1, <2>1, <3>1, <3>2
  <2>2. CASE Welcome /\ request.op \in Entering /\ user' = NewUser /\ UNCHANGED server
    <3>1. user'.account = request.account /\ user'.ts = reply.ts  BY <2>2 DEF NewUser
    <3> QED  BY <2>2, <3>1 DEF Welcome, ToldInv
  <2>3. CASE /\ request.op = "upload" /\ Returned(reply.code)
             /\ user' = [user EXCEPT !.ts[request.list] = memory[request.list]]
             /\ UNCHANGED <<server, memory>>
    <3>1. user'.account = user.account  BY <2>3 DEF TypeOK, Users
    <3>2. user'.ts[k] = IF k = request.list THEN memory[k] ELSE user.ts[k]
      BY <2>3 DEF TypeOK, Users, Stamps
    <3>3. LoggedIn /\ user.account \in Accounts  BY <1>2, <3>1, Numbers DEF LoggedIn
    <3>4. request.account = user.account /\ request.stamp = memory[request.list]
      BY <2>3 DEF RequestInv
    <3>5. server[user.account][request.list].stamp >= memory[request.list]
      BY <2>3, <3>4 DEF StoredInv
    <3>6. user.ts[k] <= server[user.account][k].stamp  BY <3>3 DEF StoredInv
    <3>7. memory[k] \in Nat  BY Numbers
    <3> QED  BY <1>1, <2>3, <3>1, <3>2, <3>3, <3>5, <3>6, <3>7
  <2> QED  BY <1>2, <2>1, <2>2, <2>3, UserSteps DEF Remembers
<1>3. ASSUME request'.op = "upload", Returned(reply'.code)
      PROVE  server'[request'.account][request'.list].stamp >= request'.stamp
  <2>1. CASE UNCHANGED <<reply, request>>
    <3>1. request.account \in Accounts /\ request.list \in Lists /\ request.stamp \in Nat
      BY <1>3, <2>1, Numbers DEF RequestInv
    <3>2. server[request.account][request.list].stamp >= request.stamp
      BY <1>3, <2>1 DEF StoredInv
    <3> QED  BY <1>1, <2>1, <3>1, <3>2
  <2>2. CASE /\ UNCHANGED request /\ request.account \in Accounts /\ request.list \in Lists
             /\ server'[request.account][request.list].stamp = request.stamp
    BY <2>2, Numbers
  <2> QED  BY <1>3, <2>1, <2>2, CodeSteps DEF Codings
<1> QED  BY <1>2, <1>3 DEF StoredInv, LoggedIn

-----------------------------------------------------------------------------
(* The theorems                                                            *)

LEMMA SyncStart == Init => SyncIInv
<1> SUFFICES ASSUME Init PROVE SyncIInv
  OBVIOUS
<1>1. AgentInv  BY AgentStart
<1>2. /\ \A k \in Lists : memory[k] = 0 /\ file[k] = 0
      /\ \A a \in Accounts, k \in Lists : server[a][k].stamp = 0 /\ server[a][k].data = 0
      /\ request.op = "none" /\ ~reply.results /\ user.account = "none" /\ main = "idle"
  BY DEF Init, NoStamps, NoRequest, NoReply, Answer, NoUser
<1>3. ToldInv /\ StoredInv
  BY <1>2 DEF ToldInv, StoredInv, LoggedIn, Entering
<1>4. FilesNewer
  BY <1>2 DEF FilesNewer
<1>5. FilesTrue
  BY <1>2 DEF FilesTrue, StampsTrue
<1> QED  BY <1>1, <1>3, <1>4, <1>5 DEF SyncIInv

LEMMA SyncStep == SyncIInv /\ [Next]_vars => SyncIInv'
BY AgentStep, ToldStep, FilesNewerStep, FilesTrueStep, StoredStep DEF SyncIInv, OneVersion

(* The inductive invariant holds in every reachable state, with any number *)
(* of accounts and lists and whatever the server gets wrong: what the      *)
(* client was told, what it has in memory and in its files, and what the   *)
(* server has fit together after every request of network.cpp.             *)
THEOREM SyncInvariance == Spec => []SyncIInv
BY SyncStart, SyncStep, PTL DEF Spec

(* No download replaces a newer list of the running program, with any      *)
(* number of accounts and whatever the server answers: download_pb is      *)
(* called only on a row of the dialog (notification.cpp:37), and the file  *)
(* it reads back when the answer had no body is not older than the list.   *)
THEOREM DownloadsForward == Spec => MemoryForward
<1>1. ASSUME SyncIInv, [Next]_vars
      PROVE  [alive /\ alive' => \A k \in Lists : memory'[k] >= memory[k]]_vars
  BY <1>1, MemoryGrows DEF SyncIInv
<1> QED  BY <1>1, SyncInvariance, PTL DEF Spec, MemoryForward

(* A stamp on the server is that of the file stored with it, provided that *)
(* the server never sends a file along with an error or the user has one   *)
(* account: upload_pb reads the file (network.cpp:349) and handle takes    *)
(* the stamp from memory.                                                  *)
THEOREM StampsStayTrue ==
  ASSUME OneVersion
  PROVE  Spec => []StampsTrue
<1>1. SyncIInv => StampsTrue  BY DEF SyncIInv, FilesTrue
<1> QED  BY <1>1, SyncInvariance, PTL

(* A list of which has_notification reports nothing is the one the server  *)
(* has, provided also that no answer lacks its body: lost answers, failed  *)
(* requests, other devices, kills and restarts never cost a notification.  *)
THEOREM QuietIsSynced ==
  ASSUME OneVersion, "blank" \notin ServerFaults
  PROVE  Spec => []QuietMeansSynced
<1>1. SyncIInv => QuietMeansSynced
  <2> SUFFICES ASSUME SyncIInv, LoggedIn, NEW k \in Lists, ~Notified(k), Open(user.account)
               PROVE  server[user.account][k].data = memory[k]
    BY DEF QuietMeansSynced
  <2> DEFINE s == server[user.account][k]
  <2>1. user.account \in Accounts /\ s.stamp \in Nat /\ memory[k] \in Nat
    BY Numbers DEF SyncIInv, AgentInv
  <2>2. user.ts[k] = memory[k]  BY DEF Notified
  <2>3. s.stamp <= user.ts[k] \/ s.stamp <= memory[k]  BY DEF SyncIInv, AgentInv, KnownInv
  <2>4. user.ts[k] <= s.stamp  BY DEF SyncIInv, StoredInv
  <2>5. s.stamp = s.data  BY <2>1 DEF SyncIInv, FilesTrue, StampsTrue
  <2> QED  BY <2>1, <2>2, <2>3, <2>4, <2>5
<1> QED  BY <1>1, SyncInvariance, PTL
=============================================================================
