------------------------------ MODULE SyncInv --------------------------------
(***************************************************************************)
(* The inductive invariant of Sync: why an upload never takes the server   *)
(* back, a download never the client, and why a stamp is that of the file  *)
(* it stands for.                                                          *)
(***************************************************************************)
EXTENDS Sync

Entering == {"startup", "login", "register"}
Outside == LoginScreens \cup {"startup"}

(* Each screen makes its own requests, and on the screens that log in      *)
(* nobody is logged in, until post_login has set the user.                 *)
ScreenInv ==
  /\ screen \in Outside /\ main # "entering" => ~LoggedIn
  /\ main = "entering" => screen \in Outside
  /\ rows # NoRows => screen = "notification" /\ LoggedIn

RequestInv ==
  /\ request.op = "none" <=> main \notin {"waiting", "downloading"}
  /\ request.op # "none" => request.account \in Accounts
  /\ request.op \in Entering => screen \in Outside
  /\ request.op = "logout" => screen = "home"
  /\ request.op \in {"upload", "download"} =>
       /\ screen = "notification"
       /\ request.list \in Lists
       /\ rows[request.list] = request.op
  /\ request.op \in {"logout", "upload", "download"} => request.account = user.account
  /\ request.op = "upload" => request.stamp = memory[request.list]
  /\ main = "downloading" => request.op = "download"

(* No stamp is from the future.                                            *)
ClockInv ==
  /\ \A k \in Lists :
       memory[k] <= clock /\ file[k] <= clock /\ other[k] <= clock /\ reply.ts[k] <= clock
  /\ \A a \in Accounts, k \in Lists :
       server[a][k].stamp <= clock /\ server[a][k].data <= clock
  /\ request.stamp <= clock /\ request.data <= clock

(* While the session is the open one, the server has nothing newer than    *)
(* the client has or has been told of: an upload whose answer was lost     *)
(* left there what is in memory.                                           *)
KnownInv ==
  /\ LoggedIn /\ Open(user.account) =>
       \A k \in Lists : LET s == server[user.account][k].stamp
                        IN  s <= user.ts[k] \/ s <= memory[k]
  /\ reply.results /\ request.op \in Entering /\ Open(request.account) =>
       \A k \in Lists : server[request.account][k].stamp <= reply.ts[k]

(* Why an upload never takes the server back (upload_pb is only called on  *)
(* a row that pre_show made, network.cpp:349, notification.cpp:37).        *)
AgentInv == TypeOK /\ ScreenInv /\ RequestInv /\ ClockInv /\ RowsTrue /\ KnownInv

(* What the client has been told of is on the server, unless an upload     *)
(* whose answer had no body was only believed to have been done: then it   *)
(* is in memory.                                                           *)
ToldInv ==
  /\ LoggedIn =>
       \A k \in Lists : LET t == user.ts[k]
                        IN  t <= server[user.account][k].stamp \/ t <= memory[k]
  /\ reply.results /\ request.op \in Entering =>
       \A k \in Lists : reply.ts[k] <= server[request.account][k].stamp

(* The file of list k is truncated and not yet written.                    *)
Writing(k) == main = k \/ (main = "downloading" /\ request.list = k)

(* A version is never stored under a stamp newer than its own: not in the  *)
(* file, not on the server, not on its way in either direction.            *)
FilesNewer ==
  /\ \A k \in Lists : ~Writing(k) => file[k] >= memory[k]
  /\ \A a \in Accounts, k \in Lists : server[a][k].data >= server[a][k].stamp
  /\ request.op = "upload" => request.data >= request.stamp
  /\ request.op = "download" /\ reply.results =>
       /\ reply.ts[request.list] > memory[request.list]
       /\ server[request.account][request.list].stamp > memory[request.list]
       /\ Returned(reply.code) \/ "results_with_error" \in ServerFaults
  /\ main = "downloading" => reply.results

(* The server never sends a file with an error, or there is one account.   *)
OneVersion ==
  \/ "results_with_error" \notin ServerFaults
  \/ \A a, b \in Accounts : a = b

(* A file that differs from the list in memory came with an error, and the *)
(* server has a newer version than the one in memory.                      *)
Ahead(k, t) ==
  /\ "results_with_error" \in ServerFaults
  /\ \A a \in Accounts : server[a][k].stamp > t

FilesTrue ==
  /\ \A k \in Lists : ~Writing(k) => file[k] = memory[k] \/ Ahead(k, memory[k])
  /\ request.op = "upload" =>
       request.data = request.stamp \/ Ahead(request.list, request.stamp)
  /\ StampsTrue

(* Without answers that lack a body, an upload counts only when it is      *)
(* stored.                                                                 *)
StoredInv ==
  /\ LoggedIn => \A k \in Lists : user.ts[k] <= server[user.account][k].stamp
  /\ request.op = "upload" /\ Returned(reply.code) =>
       server[request.account][request.list].stamp >= request.stamp

(* The inductive invariant of Sync.                                        *)
SyncIInv ==
  /\ AgentInv /\ ToldInv /\ FilesNewer
  /\ OneVersion => FilesTrue
  /\ "blank" \notin ServerFaults => StoredInv
=============================================================================
