-------------------------------- MODULE Secrets --------------------------------
(***************************************************************************)
(* The three files under secrets/: the hash of the console password, made  *)
(* once at start-up and shown once; the key that signs session cookies,    *)
(* made by the first request that needs it; and the master key of the      *)
(* stored credentials, made by whoever asks first, on the event loop or on *)
(* a pool thread.  Each is checked for and then created, with write_bytes, *)
(* which truncates the file before it fills it, and a crash may come       *)
(* between any two of these steps.                                         *)
(***************************************************************************)
EXTENDS Integers, FiniteSets

CONSTANTS
  Callers,        \* calls of _load_or_create_key that can be under way at once
  Savers,         \* those of save_credential; the others list credentials
  MaxAge,         \* SESSION_MAX_AGE_SECONDS, in ticks of the clock
  MaxClock,       \* bound on the clock
  MaxCrashes,     \* bound: how often the console dies
  MaxRemovals     \* bound: how often the operator removes a file of the two
                  \* the documentation says may be removed

ASSUME CallersAssumption == Savers \subseteq Callers
ASSUME LimitsAssumption ==
  MaxAge \in Nat /\ MaxClock \in Nat /\ MaxCrashes \in Nat /\ MaxRemovals \in Nat

VARIABLES
  up,             \* "down", a step of start-up, "serving", or "keying"
  crashes, removals,
  minted,         \* secrets made so far
  password,       \* console-password.json: a file, see Contents
  printed,        \* passwords the operator has seen in the log
  cut,            \* history: the console died before it printed this one
  sessionKey,     \* console-session.key
  cookie,         \* what the browser sends
  clock,
  master,         \* master.key
  caller,         \* caller[c]: where in _load_or_create_key c is
  sealed,         \* keys the credentials on disk are encrypted with
  raced           \* history: two callers found no master key at once

passwordVars == <<password, printed, cut>>
sessionVars == <<sessionKey, cookie, clock>>
masterVars == <<master, caller, sealed, raced>>
boundVars == <<crashes, removals>>
vars == <<up, boundVars, minted, passwordVars, sessionVars, masterVars>>

-----------------------------------------------------------------------------
(* Secrets are numbered as they are made.  No file is 0; a file cut short
   is -1, empty. *)
Absent == 0
Torn == -1
Contents == Nat \cup {Torn}

BootSteps == {"booting", "hashing", "storing", "printing"}
CallerSteps == {"idle", "making", "filling", "made", "failed"}

TypeOK ==
  /\ up \in {"down", "serving", "keying"} \cup BootSteps
  /\ crashes \in 0..MaxCrashes /\ removals \in 0..MaxRemovals /\ minted \in Nat
  /\ password \in Contents /\ printed \subseteq Nat \ {0} /\ cut \in BOOLEAN
  /\ sessionKey \in Contents
  /\ cookie \in [key : Contents, issued : Nat]
  /\ clock \in 0..MaxClock
  /\ master \in Contents
  /\ caller \in [Callers -> [pc : CallerSteps, key : Contents]]
  /\ sealed \subseteq Nat \ {0}
  /\ raced \in BOOLEAN

NoCookie == [key |-> Absent, issued |-> 0]
Idle == [pc |-> "idle", key |-> Absent]

Init ==
  /\ up = "booting" /\ crashes = 0 /\ removals = 0 /\ minted = 0
  /\ password = Absent /\ printed = {} /\ cut = FALSE
  /\ sessionKey = Absent /\ cookie = NoCookie /\ clock = 0
  /\ master = Absent /\ caller = [c \in Callers |-> Idle]
  /\ sealed = {} /\ raced = FALSE

-----------------------------------------------------------------------------
(* Start-up: ensure_password, then print *)

Boot(from, to) == up = from /\ up' = to

(* The password of an earlier start stays, whatever is in its file. *)
FindPassword ==
  /\ Boot("booting", IF password = Absent THEN "hashing" ELSE "serving")
  /\ UNCHANGED <<boundVars, minted, passwordVars, sessionVars, masterVars>>

TruncatePassword ==
  /\ Boot("hashing", "storing")
  /\ password' = Torn
  /\ UNCHANGED <<boundVars, minted, printed, cut, sessionVars, masterVars>>

StorePassword_ServesFirst ==
  /\ Boot("storing", "serving")
  /\ minted' = minted + 1 /\ password' = minted'
  /\ UNCHANGED <<boundVars, printed, cut, sessionVars, masterVars>>

(* A password nobody has seen. *)
StorePassword ==
  /\ Boot("storing", "printing")
  /\ minted' = minted + 1 /\ password' = minted'
  /\ UNCHANGED <<boundVars, printed, cut, sessionVars, masterVars>>

PrintPassword ==
  /\ Boot("printing", "serving")
  /\ printed' = printed \cup {password}
  /\ UNCHANGED <<boundVars, minted, password, cut, sessionVars, masterVars>>

-----------------------------------------------------------------------------
(* Sessions.  load_session_key is only called on the event loop, which is
   busy ("keying") while it fills the file: a crash alone comes between. *)

TruncateSessionKey ==
  /\ Boot("serving", "keying")
  /\ sessionKey = Absent
  /\ sessionKey' = Torn
  /\ UNCHANGED <<boundVars, minted, passwordVars, cookie, clock, masterVars>>

FillSessionKey ==
  /\ Boot("keying", "serving")
  /\ minted' = minted + 1 /\ sessionKey' = minted'
  /\ UNCHANGED <<boundVars, passwordVars, cookie, clock, masterVars>>

(* verify_session: the signature, then 0 <= now - issued <= max_age.  An
   empty file is a key like any other. *)
Verified ==
  /\ cookie.key # Absent /\ cookie.key = sessionKey
  /\ clock - cookie.issued \in 0..MaxAge

(* POST /login with a password the operator has; the record has to parse.
   The session is signed with the key on disk, made first if need be. *)
LogIn ==
  /\ up = "serving" /\ sessionKey # Absent
  /\ password \in printed
  /\ cookie' = [key |-> sessionKey, issued |-> clock]
  /\ UNCHANGED <<up, boundVars, minted, passwordVars, sessionKey, clock,
                 masterVars>>

LogOut ==
  /\ up = "serving"
  /\ cookie' = NoCookie
  /\ UNCHANGED <<up, boundVars, minted, passwordVars, sessionKey, clock,
                 masterVars>>

(* Time passes, or the host's clock is set. *)
ClockMoves ==
  /\ clock' \in {clock - 1, clock + 1} \cap 0..MaxClock
  /\ UNCHANGED <<up, boundVars, minted, passwordVars, sessionKey, cookie,
                 masterVars>>

-----------------------------------------------------------------------------
(* _load_or_create_key and what its caller does with the key *)

Call(c, from, to, key) ==
  /\ up \in {"serving", "keying"}
  /\ caller[c].pc = from
  /\ caller' = [caller EXCEPT ![c] = [pc |-> to, key |-> key]]

FindMaster_AlwaysMakes(c) ==
  /\ Call(c, "idle", "making", Absent)
  /\ UNCHANGED <<up, boundVars, minted, passwordVars, sessionVars, master, sealed,
                 raced>>

FindMaster_AnyContent(c) ==
  /\ IF master = Absent THEN Call(c, "idle", "making", Absent)
                        ELSE Call(c, "idle", "made", master)
  /\ UNCHANGED <<up, boundVars, minted, passwordVars, sessionVars, master, sealed, raced>>

(* exists, then read; a key cut short is no Fernet key, and raises. *)
FindMaster(c) ==
  /\ CASE master = Absent -> Call(c, "idle", "making", Absent)
       [] master = Torn -> Call(c, "idle", "failed", Absent)
       [] OTHER -> Call(c, "idle", "made", master)
  /\ raced' = (raced \/ (master = Absent /\ \E o \in Callers : caller[o].pc = "making"))
  /\ UNCHANGED <<up, boundVars, minted, passwordVars, sessionVars, master, sealed>>

TruncateMaster(c) ==
  /\ Call(c, "making", "filling", minted + 1)
  /\ minted' = minted + 1
  /\ master' = Torn
  /\ UNCHANGED <<up, boundVars, passwordVars, sessionVars, sealed, raced>>

FillMaster(c) ==
  /\ Call(c, "filling", "made", caller[c].key)
  /\ master' = caller[c].key
  /\ UNCHANGED <<up, boundVars, minted, passwordVars, sessionVars, sealed, raced>>

(* A saver leaves a credential encrypted with the key it holds. *)
UseMaster(c) ==
  /\ Call(c, "made", "idle", Absent)
  /\ sealed' = IF c \in Savers THEN sealed \cup {caller[c].key} ELSE sealed
  /\ UNCHANGED <<up, boundVars, minted, passwordVars, sessionVars, master, raced>>

(* The request that got the torn key ends with a 500. *)
GiveUp(c) ==
  /\ Call(c, "failed", "idle", Absent)
  /\ UNCHANGED <<up, boundVars, minted, passwordVars, sessionVars, master, sealed,
                 raced>>

MasterKey(c) ==
  FindMaster(c) \/ TruncateMaster(c) \/ FillMaster(c) \/ UseMaster(c) \/ GiveUp(c)

-----------------------------------------------------------------------------
(* The operator and the process *)

(* "To rotate: delete secrets/console-password.json, restart." *)
RemovePassword ==
  /\ removals < MaxRemovals /\ removals' = removals + 1
  /\ up = "serving"
  /\ password' = Absent /\ cut' = FALSE
  /\ UNCHANGED <<up, crashes, minted, printed, sessionVars, masterVars>>

RemoveSessionKey ==
  /\ removals < MaxRemovals /\ removals' = removals + 1
  /\ up = "serving"
  /\ sessionKey' = Absent
  /\ UNCHANGED <<up, crashes, minted, passwordVars, cookie, clock, masterVars>>

(* A crash or a stop: the calls under way are lost, the files stay. *)
Crash ==
  /\ up # "down"
  /\ crashes < MaxCrashes /\ crashes' = crashes + 1
  /\ up' = "down"
  /\ cut' = (cut \/ up \in {"storing", "printing"})
  /\ caller' = [c \in Callers |-> Idle]
  /\ UNCHANGED <<removals, minted, password, printed, sessionVars, master, sealed, raced>>

Restart_NewSessionKey ==
  /\ Boot("down", "booting")
  /\ sessionKey' = Absent
  /\ UNCHANGED <<boundVars, minted, passwordVars, cookie, clock, masterVars>>

Restart ==
  /\ Boot("down", "booting")
  /\ UNCHANGED <<boundVars, minted, passwordVars, sessionVars, masterVars>>

Next ==
  \/ FindPassword \/ TruncatePassword \/ StorePassword \/ PrintPassword
  \/ TruncateSessionKey \/ FillSessionKey \/ LogIn \/ LogOut \/ ClockMoves
  \/ \E c \in Callers : MasterKey(c)
  \/ RemovePassword \/ RemoveSessionKey \/ Crash \/ Restart

Spec == Init /\ [][Next]_vars

-----------------------------------------------------------------------------
(* Properties *)

(* Whenever the console serves and has a password file, the operator was
   shown the password that is in it, unless the console died between
   storing this very password and printing it: no other crash, restart or
   rotation locks the operator out. *)
LockoutNeedsCrash ==
  up \in {"serving", "keying"} /\ password # Absent /\ ~cut => password \in printed

(* Every credential on disk opens with the master key on disk, whichever
   callers came first and wherever the console died, unless two of them
   found no key at once: then one key overwrites the other. *)
SealedIsReadable == ~raced => sealed \subseteq {master}

(* A session goes on until its time is over, the browser's cookie or the
   signing key is removed: no crash, restart or new password ends it.
   (While a key is being written no request is looked at.) *)
SessionSurvives ==
  [][Verified /\ up # "keying" /\ ~Verified' =>
       clock' # clock \/ cookie' # cookie \/ removals' # removals]_vars
=============================================================================
