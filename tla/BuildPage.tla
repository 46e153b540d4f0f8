------------------------------- MODULE BuildPage -------------------------------
(***************************************************************************)
(* What the operator sees of a build: the build page and the script that   *)
(* polls it, the listing, the credential page and the downloads, read a    *)
(* file at a time while BuildLifecycle goes on writing, deleting, crashing *)
(* and restarting underneath.                                              *)
(*                                                                         *)
(* These requests only read, so two of them cannot affect each other, and  *)
(* one request at a time stands for all.  The pool thread it holds delays  *)
(* other work, which a step of BuildLifecycle may always do.               *)
(***************************************************************************)
EXTENDS BuildLifecycle

CONSTANTS MaxDrops      \* bound: answers the network loses

ASSUME DropsAssumption == MaxDrops \in Nat

VARIABLES
  get,            \* the GET in progress and what it has read so far
  tab,            \* the build page in the browser
  drops           \* answers lost; only there to be bounded

pageVars == <<get, tab, drops>>
allVars == <<vars, pageVars>>

-----------------------------------------------------------------------------
(* Values *)

(* What _build_progress.html renders; `whole`: the log it shows is there and
   gets no further lines; `compose`: the instructions name the compose file. *)
Views ==
  [state : {"none", "running", "login"} \cup Terminal, whole : BOOLEAN,
   cred : {"none"} \cup Readable, compose : BOOLEAN]
NoView == [state |-> "none", whole |-> FALSE, cred |-> "none", compose |-> FALSE]
LoginForm == [NoView EXCEPT !.state = "login"]

(* setTimeout armed, fetch under way, or neither. *)
Watches == {"off", "waiting", "polling"}
Tabs == [build : Builds \cup {None}, shown : Views, watch : Watches]
Blank == [build |-> None, shown |-> NoView, watch |-> "off"]

Kinds == {"page", "poll", "credential", "list", "notices"}
GetSteps == {"idle", "sent", "queued", "record", "log", "find", "decrypt",
             "findCompose", "readCompose", "rows", "states", "isFile", "readFile", "answered"}
Answers == {"none", "ok", "notFound", "error", "login"}
Badges == {"absent", "running"} \cup Readable \cup Terminal
Gets ==
  [kind : Kinds, pc : GetSteps, build : Builds \cup {None}, view : Views,
   left : SUBSET Builds, badge : [Builds -> Badges], answer : Answers]
NoGet ==
  [kind |-> "page", pc |-> "idle", build |-> None, view |-> NoView, left |-> {},
   badge |-> [b \in Builds |-> "absent"], answer |-> "none"]

PageTypeOK ==
  /\ get \in Gets
  /\ tab \in Tabs
  /\ drops \in 0..MaxDrops

PageInit ==
  /\ Init
  /\ get = NoGet
  /\ tab = Blank
  /\ drops = 0

-----------------------------------------------------------------------------
(* The browser *)

Ask(kind, b) ==
  /\ get.pc = "idle"
  /\ get' = [NoGet EXCEPT !.kind = kind, !.build = b, !.pc = "sent"]

(* The page is opened, or opened again: its script goes with it. *)
OpenPage(b) ==
  /\ pc[b] # "new"
  /\ Ask("page", b)
  /\ tab' = [Blank EXCEPT !.build = b]
  /\ UNCHANGED <<vars, drops>>

OpenOther ==
  /\ \/ Ask("list", None)
     \/ \E b \in Builds, kind \in {"credential", "notices"} : pc[b] # "new" /\ Ask(kind, b)
  /\ UNCHANGED <<vars, tab, drops>>

(* A poll of a console that is down fails and is sent again later. *)
SendPoll ==
  /\ up = "serving"
  /\ tab.watch = "waiting"
  /\ Ask("poll", tab.build)
  /\ tab' = [tab EXCEPT !.watch = "polling"]
  /\ UNCHANGED <<vars, drops>>

-----------------------------------------------------------------------------
(* The server *)

Go(from, to) == get.pc = from /\ get' = [get EXCEPT !.pc = to]

Answer(from, what) ==
  get.pc = from /\ get' = [get EXCEPT !.pc = "answered", !.answer = what]

PageOrder_LogFirst == <<"log", "record", "find">>

(* _build_page_context: the record, then the log, then the rest. *)
PageOrder == <<"record", "log", "find">>

AfterRead(step) == PageOrder[1 + CHOOSE i \in 1..2 : PageOrder[i] = step]

(* require_login runs on the event loop, the handler itself on a thread.  The
   session may have ended since the last request, or begun again. *)
Admit ==
  /\ EventLoopFree
  /\ Go("sent", "queued") \/ Answer("sent", "login")
  /\ UNCHANGED <<vars, tab, drops>>

(* list_credentials builds the Fernet, which raises on an empty key, before
   glob takes the names of the credentials as they are now.  Where there is
   no key there is no credential either, and the listing is empty; the key
   it makes is ListingMakesKey. *)
ListRows ==
  IF key \in {"filling", "empty"}
  THEN Answer("queued", "error")
  ELSE get' = [get EXCEPT !.pc = "rows", !.left = {b \in Builds : cred[b] # "none"}]

StartThread ==
  /\ ThreadFree
  /\ get.pc = "queued"
  /\ \/ get.kind \in {"page", "poll"} /\ Go("queued", PageOrder[1])
     \/ get.kind = "credential" /\ Go("queued", "find")
     \/ get.kind = "notices" /\ Go("queued", "isFile")
     \/ get.kind = "list" /\ ListRows
  /\ UNCHANGED <<vars, tab, drops>>

(* load: no record, no page. *)
ReadRecord ==
  /\ get.pc = "record"
  /\ IF status[get.build].state = "none"
     THEN Answer("record", "notFound")
     ELSE get' = [get EXCEPT !.pc = AfterRead("record"), !.view.state = status[get.build].state]
  /\ UNCHANGED <<vars, tab, drops>>

(* read_log returns nothing for a file that is gone; the log gets its last
   line before the task that writes it has ended. *)
LogWhole(b) == pc[b] = "over" /\ "log" \in files[b]

ReadLog ==
  /\ get.pc = "log"
  /\ get' = [get EXCEPT !.pc = AfterRead("log"), !.view.whole = LogWhole(get.build)]
  /\ UNCHANGED <<vars, tab, drops>>

(* A build page does without a credential, its own page does not. *)
WithoutCredential(from) ==
  IF get.kind = "credential" THEN Answer(from, "notFound") ELSE Go(from, "findCompose")

FindCredential ==
  /\ get.pc = "find"
  /\ IF cred[get.build] = "none" THEN WithoutCredential("find") ELSE Go("find", "decrypt")
  /\ UNCHANGED <<vars, tab, drops>>

Decrypt_TornRaises ==
  /\ get.pc = "decrypt"
  /\ IF cred[get.build] \in Readable
     THEN get' = [get EXCEPT !.pc = "findCompose", !.view.cred = cred[get.build]]
     ELSE Answer("decrypt", "error")
  /\ UNCHANGED <<vars, tab, drops>>

(* load_credential found the file.  Now the Fernet raises if the key is
   empty and the read if the file is gone; what does not decrypt is no
   credential. *)
Decrypt ==
  /\ get.pc = "decrypt"
  /\ \/ /\ key # "whole" \/ cred[get.build] = "none"
        /\ Answer("decrypt", "error")
     \/ /\ key = "whole" /\ cred[get.build] = "torn"
        /\ WithoutCredential("decrypt")
     \/ /\ key = "whole" /\ cred[get.build] \in Readable
        /\ get' = [get EXCEPT !.pc = "findCompose", !.view.cred = cred[get.build]]
  /\ UNCHANGED <<vars, tab, drops>>

(* _build_dir_flags: exists, then read_text.  The other flags only ask
   whether a file is there, and read_ports has a default for every error. *)
FindCompose ==
  /\ get.pc = "findCompose"
  /\ IF "compose" \in files[get.build]
     THEN Go("findCompose", "readCompose")
     ELSE Answer("findCompose", "ok")
  /\ UNCHANGED <<vars, tab, drops>>

ReadCompose ==
  /\ get.pc = "readCompose"
  /\ IF "compose" \in files[get.build]
     THEN get' = [get EXCEPT !.pc = "answered", !.answer = "ok", !.view.compose = TRUE]
     ELSE Answer("readCompose", "error")
  /\ UNCHANGED <<vars, tab, drops>>

(* download_build_notices, and download_build_conf alike: is_file, then
   read_text. *)
FindFile ==
  /\ get.pc = "isFile"
  /\ IF "notices" \in files[get.build]
     THEN Go("isFile", "readFile")
     ELSE Answer("isFile", "notFound")
  /\ UNCHANGED <<vars, tab, drops>>

ReadFile ==
  /\ get.pc = "readFile"
  /\ Answer("readFile", IF "notices" \in files[get.build] THEN "ok" ELSE "error")
  /\ UNCHANGED <<vars, tab, drops>>

ReadRow_TornRaises(b) ==
  /\ get.pc = "rows" /\ b \in get.left
  /\ IF cred[b] \in Readable
     THEN get' = [get EXCEPT !.left = @ \ {b}, !.badge[b] = cred[b]]
     ELSE Answer("rows", "error")
  /\ UNCHANGED <<vars, tab, drops>>

(* With the Fernet it has: a name that is gone by now fails the whole
   listing, a file that does not decrypt is left out of it. *)
ReadRow(b) ==
  /\ get.pc = "rows" /\ b \in get.left
  /\ CASE cred[b] = "none" -> Answer("rows", "error")
       [] cred[b] = "torn" -> get' = [get EXCEPT !.left = @ \ {b}]
       [] OTHER -> get' = [get EXCEPT !.left = @ \ {b}, !.badge[b] = cred[b]]
  /\ UNCHANGED <<vars, tab, drops>>

RowsRead ==
  /\ get.pc = "rows" /\ get.left = {}
  /\ get' = [get EXCEPT !.pc = "states",
                        !.left = {b \in Builds : get.badge[b] # "absent"}]
  /\ UNCHANGED <<vars, tab, drops>>

(* The record's state, or what the credential remembers. *)
ReadState(b) ==
  /\ get.pc = "states" /\ b \in get.left
  /\ get' = [get EXCEPT !.left = @ \ {b},
                        !.badge[b] = IF status[b].state = "none" THEN @ ELSE status[b].state]
  /\ UNCHANGED <<vars, tab, drops>>

StatesRead ==
  /\ get.left = {} /\ Answer("states", "ok")
  /\ UNCHANGED <<vars, tab, drops>>

Handler ==
  \/ Admit \/ StartThread
  \/ ReadRecord \/ ReadLog \/ FindCredential \/ Decrypt \/ FindCompose \/ ReadCompose
  \/ \E b \in Builds : ReadRow(b) \/ ReadState(b)
  \/ RowsRead \/ StatesRead \/ FindFile \/ ReadFile

-----------------------------------------------------------------------------
(* The answer *)

PollsOn_UntilSucceeded(view) == view.state \notin {"succeeded", "login", "none"}

(* The page polls while the fragment it shows says running. *)
PollsOn(view) == view.state = "running"

Show(view) ==
  [tab EXCEPT !.shown = view, !.watch = IF PollsOn(view) THEN "waiting" ELSE "off"]

(* What becomes of the tab.  fetch follows the redirect to the login page,
   which answers 200: its form goes where the progress was.  Any other
   answer but 2xx ends the watch and leaves the page as it is. *)
TabAfter ==
  CASE get.kind \notin {"page", "poll"} -> tab
    [] get.kind \in {"page", "poll"} /\ get.answer = "ok" -> Show(get.view)
    [] get.kind = "poll" /\ get.answer = "login" -> Show(LoginForm)
    [] get.kind = "poll" /\ get.answer \notin {"ok", "login"} -> [tab EXCEPT !.watch = "off"]
    [] get.kind = "page" /\ get.answer # "ok" -> Blank

Deliver ==
  /\ get.pc = "answered"
  /\ get' = NoGet
  /\ tab' = TabAfter
  /\ UNCHANGED <<vars, drops>>

(* The connection is gone: catch() polls again, a new page stays blank. *)
Lose ==
  /\ get' = NoGet
  /\ tab' = IF get.kind = "poll" THEN [tab EXCEPT !.watch = "waiting"]
            ELSE IF get.kind = "page" THEN Blank ELSE tab

DropAnswer ==
  /\ get.pc = "answered"
  /\ drops < MaxDrops
  /\ drops' = drops + 1
  /\ Lose
  /\ UNCHANGED vars

-----------------------------------------------------------------------------
(* Composition *)

(* A step of the console; when it dies, the request it serves is lost. *)
Console ==
  /\ Next
  /\ IF up # "down" /\ up' = "down" /\ get.pc \notin {"idle", "answered"}
     THEN Lose
     ELSE UNCHANGED <<get, tab>>
  /\ UNCHANGED drops

PageNext ==
  \/ Console
  \/ \E b \in Builds : OpenPage(b)
  \/ OpenOther \/ SendPoll
  \/ Handler \/ Deliver \/ DropAnswer

(* Timers fire and requests are served; a timer waits while other requests
   come and go, so sending is strongly fair. *)
PageSpec ==
  /\ PageInit /\ [][PageNext]_allVars
  /\ Fairness
  /\ SF_allVars(SendPoll) /\ WF_allVars(Handler) /\ WF_allVars(Deliver)

-----------------------------------------------------------------------------
(* Properties *)

(* A page that shows an ended build needs no reload: it reads the record
   first and the rest after it, so until a removal of the build begins it
   says what the record says, with the log if there is one; of a success or
   a failure with the whole log and a password, for a success the one of
   that success, and the compose file, which the worker wrote before it. *)
EndedPageIsComplete ==
  LET b == tab.build
      v == tab.shown IN
  v.state \in Terminal /\ b \notin doomed =>
    /\ v.state = status[b].state /\ v.whole = ("log" \in files[b])
    /\ v.state # "interrupted" => v.whole
    /\ v.state = "failed" => v.cred # "none"
    /\ v.state = "succeeded" => v.cred = "ok" /\ v.compose = (b \in Composed)

(* A page is left spinning, no poll to follow, only when the removal of its
   build has begun: no crash, torn credential or lost answer ends the watch
   of a build that is kept ("A dropped poll shouldn't end the watch"). *)
SpinnerIsOfDeleted ==
  tab.watch = "off" /\ tab.shown.state = "running" => tab.build \in doomed

(* A request answers 500 for one of two reasons: it reads a build whose
   removal has begun, or it lists the credentials while the key is empty,
   which a crash in the creation of the key leaves it for good.  No crash
   or write at any other step makes one fail. *)
ErrorHasCause ==
  [][get.answer # "error" /\ get'.answer = "error" =>
       IF get.kind = "list"
       THEN key \in {"filling", "empty"} \/ get.left \cap doomed # {}
       ELSE get.build \in doomed]_allVars

(* Every watch ends: the page that polls sees the build conclude, across
   lost answers, a crash and a restart. *)
WatchSettles == tab.watch # "off" ~> tab.watch = "off"
=============================================================================
