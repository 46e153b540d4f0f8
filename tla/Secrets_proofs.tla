----------------------------- MODULE Secrets_proofs -----------------------------
(***************************************************************************)
(* Who is locked out, what stays readable and which sessions go on, for    *)
(* any number of callers, crashes and removed files.                       *)
(***************************************************************************)
EXTENDS Secrets, TLAPS

(* Between the two steps at which a crash cuts a password off, the one on
   disk has been shown. *)
ShownUnlessCut ==
  /\ up \notin {"storing", "printing"} /\ password # Absent /\ ~cut => password \in printed
  /\ up = "printing" => password \in Nat \ {0}

(* A key in a caller's hands is a key ... *)
HeldKeys ==
  \A c \in Callers : caller[c].pc \in {"filling", "made"} => caller[c].key \in Nat \ {0}

(* ... and, unless two callers raced, the one on disk: a single caller makes
   it, and while it does nobody has another one. *)
OneKey ==
  ~raced =>
    /\ \A c, o \in Callers :
         caller[c].pc \in {"making", "filling"} /\ caller[o].pc \in {"making", "filling"} => c = o
    /\ \A c \in Callers : /\ caller[c].pc = "making" => master = Absent
                          /\ caller[c].pc = "filling" => master = Torn
                          /\ caller[c].pc = "made" => caller[c].key = master
    /\ sealed \subseteq {master}

IInv == TypeOK /\ ShownUnlessCut /\ HeldKeys /\ OneKey

-----------------------------------------------------------------------------

LEMMA InitIInv == Init => IInv
<1> SUFFICES ASSUME Init PROVE IInv
  OBVIOUS
<1>1. TypeOK
  <2>1. cookie \in [key : Contents, issued : Nat]
    BY DEF Init, NoCookie, Contents, Absent
  <2>2. caller \in [Callers -> [pc : CallerSteps, key : Contents]]
    BY DEF Init, Idle, CallerSteps, Contents, Absent
  <2>3. crashes \in 0..MaxCrashes /\ removals \in 0..MaxRemovals /\ clock \in 0..MaxClock
    BY LimitsAssumption DEF Init
  <2>4. cut \in BOOLEAN /\ raced \in BOOLEAN
    BY DEF Init
  <2> QED BY <2>1, <2>2, <2>3, <2>4 DEF Init, TypeOK, BootSteps, Contents, Absent
<1>2. ShownUnlessCut BY DEF Init, ShownUnlessCut
<1>3. \A c \in Callers : caller[c].pc = "idle" BY DEF Init, Idle
<1>4. HeldKeys BY <1>3 DEF HeldKeys
<1>5. OneKey BY <1>3 DEF OneKey, Init
<1> QED BY <1>1, <1>2, <1>4, <1>5 DEF IInv

(* Start-up makes and shows the password. *)
LEMMA PasswordStep ==
  ASSUME IInv, FindPassword \/ TruncatePassword \/ StorePassword \/ PrintPassword
  PROVE  IInv'
<1> USE DEF IInv, Boot
<1>1. UNCHANGED <<boundVars, cut, sessionVars, masterVars>>
  BY DEF FindPassword, TruncatePassword, StorePassword, PrintPassword, passwordVars
<1>2. TypeOK'
  <2>1. up' \in BootSteps \cup {"serving"}
    BY DEF FindPassword, TruncatePassword, StorePassword, PrintPassword, BootSteps
  <2>2. password' \in Contents /\ minted' \in Nat
    BY DEF TypeOK, FindPassword, TruncatePassword, StorePassword, PrintPassword, passwordVars,
       Contents, Torn
  <2>3. printed' \subseteq Nat \ {0}
    BY DEF TypeOK, ShownUnlessCut, FindPassword, TruncatePassword, StorePassword, PrintPassword,
       passwordVars
  <2> QED BY <1>1, <2>1, <2>2, <2>3 DEF TypeOK, boundVars, sessionVars, masterVars
<1>3. ShownUnlessCut'
  BY <1>1 DEF TypeOK, ShownUnlessCut, FindPassword, TruncatePassword, StorePassword,
     PrintPassword, passwordVars
<1>4. HeldKeys' BY <1>1 DEF HeldKeys, masterVars
<1>5. OneKey' BY <1>1 DEF OneKey, masterVars
<1> QED BY <1>2, <1>3, <1>4, <1>5

(* Sessions, the clock and the removal of a file. *)
LEMMA SessionStep ==
  ASSUME IInv, \/ TruncateSessionKey \/ FillSessionKey \/ LogIn \/ LogOut \/ ClockMoves
               \/ RemovePassword \/ RemoveSessionKey
  PROVE  IInv'
<1> USE DEF IInv, Boot
<1>1. UNCHANGED <<crashes, printed, masterVars>>
  BY DEF TruncateSessionKey, FillSessionKey, LogIn, LogOut, ClockMoves, RemovePassword,
     RemoveSessionKey, passwordVars, boundVars
<1>2. TypeOK'
  <2>1. up' \in {up, "keying", "serving"} /\ cut' \in {cut, FALSE} /\ minted' \in {minted, minted + 1}
    BY DEF TruncateSessionKey, FillSessionKey, LogIn, LogOut, ClockMoves, RemovePassword,
       RemoveSessionKey, passwordVars
  <2>2. password' \in {password, Absent} /\ sessionKey' \in {sessionKey, Torn, Absent, minted + 1}
    BY DEF TruncateSessionKey, FillSessionKey, LogIn, LogOut, ClockMoves, RemovePassword,
       RemoveSessionKey, passwordVars, sessionVars
  <2>3. removals' \in 0..MaxRemovals
    BY LimitsAssumption
    DEF TypeOK, TruncateSessionKey, FillSessionKey, LogIn, LogOut, ClockMoves, RemovePassword,
        RemoveSessionKey, boundVars
  <2>4. clock' \in 0..MaxClock
    BY DEF TypeOK, TruncateSessionKey, FillSessionKey, LogIn, LogOut, ClockMoves, RemovePassword,
       RemoveSessionKey, sessionVars
  <2>5. cookie' \in {cookie, NoCookie, [key |-> sessionKey, issued |-> clock]}
    BY DEF TruncateSessionKey, FillSessionKey, LogIn, LogOut, ClockMoves, RemovePassword,
       RemoveSessionKey, sessionVars
  <2>6. NoCookie \in [key : Contents, issued : Nat] /\ {Absent, Torn} \subseteq Contents
    BY DEF NoCookie, Contents, Absent, Torn
  <2>7. [key |-> sessionKey, issued |-> clock] \in [key : Contents, issued : Nat]
    BY LimitsAssumption DEF TypeOK
  <2>8. cookie' \in [key : Contents, issued : Nat]
    BY <2>5, <2>6, <2>7 DEF TypeOK
  <2>9. up' \in {"down", "serving", "keying"} \cup BootSteps /\ cut' \in BOOLEAN
    BY <2>1 DEF TypeOK
  <2>10. password' \in Contents /\ sessionKey' \in Contents /\ minted' \in Nat
    BY <2>1, <2>2, <2>6 DEF TypeOK, Contents
  <2> QED BY <1>1, <2>3, <2>4, <2>8, <2>9, <2>10 DEF TypeOK, masterVars
<1>3. ShownUnlessCut'
  BY <1>1 DEF ShownUnlessCut, TruncateSessionKey, FillSessionKey, LogIn, LogOut, ClockMoves,
     RemovePassword, RemoveSessionKey, passwordVars
<1>4. HeldKeys' BY <1>1 DEF HeldKeys, masterVars
<1>5. OneKey' BY <1>1 DEF OneKey, masterVars
<1> QED BY <1>2, <1>3, <1>4, <1>5

(* The process dies, at any step of start-up and of any caller, and comes
   back. *)
LEMMA ProcessStep ==
  ASSUME IInv, Crash \/ Restart
  PROVE  IInv'
<1> USE DEF IInv
<1>1. CASE Crash
  <2>1. TypeOK'
    BY <1>1, LimitsAssumption
    DEF TypeOK, Crash, sessionVars, BootSteps, Idle, CallerSteps, Contents, Absent
  <2>2. ShownUnlessCut' BY <1>1 DEF ShownUnlessCut, Crash
  <2>3. \A c \in Callers : caller'[c].pc = "idle" BY <1>1 DEF Crash, Idle
  <2>4. HeldKeys' BY <2>3 DEF HeldKeys
  <2>5. OneKey' BY <1>1, <2>3 DEF Crash, OneKey
  <2> QED BY <2>1, <2>2, <2>4, <2>5
<1>2. CASE Restart
  <2>1. TypeOK'
    BY <1>2 DEF TypeOK, Restart, Boot, boundVars, passwordVars, sessionVars, masterVars, BootSteps
  <2>2. ShownUnlessCut' BY <1>2 DEF ShownUnlessCut, Restart, Boot, passwordVars
  <2>3. HeldKeys' BY <1>2 DEF HeldKeys, Restart, masterVars
  <2>4. OneKey' BY <1>2 DEF OneKey, Restart, masterVars
  <2> QED BY <2>1, <2>2, <2>3, <2>4
<1> QED BY <1>1, <1>2

(* A call moves its own caller only. *)
LEMMA CallMoves ==
  ASSUME TypeOK, NEW c \in Callers, NEW from, NEW to \in CallerSteps, NEW key \in Contents,
         Call(c, from, to, key)
  PROVE  /\ caller[c].pc = from
         /\ caller' \in [Callers -> [pc : CallerSteps, key : Contents]]
         /\ caller'[c].pc = to /\ caller'[c].key = key
         /\ \A o \in Callers \ {c} : caller'[o] = caller[o]
BY DEF Call, TypeOK

(* The master key is looked for, made, used. *)
LEMMA MasterStep ==
  ASSUME IInv, NEW c \in Callers, MasterKey(c)
  PROVE  IInv'
<1> USE DEF IInv
<1>1. UNCHANGED <<up, boundVars, passwordVars, sessionVars>>
  BY DEF MasterKey, FindMaster, TruncateMaster, FillMaster, UseMaster, GiveUp
<1>2. ShownUnlessCut' BY <1>1 DEF ShownUnlessCut, passwordVars
<1>3. ASSUME caller' \in [Callers -> [pc : CallerSteps, key : Contents]], minted' \in Nat,
             master' \in Contents, sealed' \subseteq Nat \ {0}, raced' \in BOOLEAN
      PROVE  TypeOK'
  BY <1>1, <1>3 DEF TypeOK, boundVars, passwordVars, sessionVars
<1>4. /\ Absent = 0 /\ Torn = -1 /\ Contents = Nat \cup {-1}
      /\ {"idle", "making", "filling", "made", "failed"} = CallerSteps
  BY DEF Absent, Torn, Contents, CallerSteps
<1>5. /\ minted \in Nat /\ master \in Contents /\ sealed \subseteq Nat \ {0} /\ raced \in BOOLEAN
      /\ caller \in [Callers -> [pc : CallerSteps, key : Contents]]
  BY DEF TypeOK
<1>6. CASE FindMaster(c)
  <2>1. UNCHANGED <<minted, master, sealed>> BY <1>6 DEF FindMaster
  <2>2. PICK to \in {"making", "failed", "made"}, key \in Contents :
          /\ Call(c, "idle", to, key)
          /\ to = "making" => master = Absent
          /\ to = "made" => master = key /\ key \in Nat \ {0}
    <3>1. CASE master = Absent
      <4>1. Call(c, "idle", "making", Absent) /\ Absent \in Contents
        BY <1>4, <1>6, <3>1 DEF FindMaster
      <4> QED BY <3>1, <4>1
    <3>2. CASE master = Torn
      <4>1. Call(c, "idle", "failed", Absent) /\ Absent \in Contents
        BY <1>4, <1>6, <3>2 DEF FindMaster
      <4> QED BY <4>1
    <3>3. CASE master # Absent /\ master # Torn
      <4>1. master \in Nat \ {0} BY <1>4, <1>5, <3>3
      <4>2. Call(c, "idle", "made", master) BY <1>6, <3>3 DEF FindMaster
      <4> QED BY <1>5, <3>3, <4>1, <4>2
    <3> QED BY <3>1, <3>2, <3>3
  <2>3. /\ caller' \in [Callers -> [pc : CallerSteps, key : Contents]]
        /\ caller'[c].pc = to /\ caller'[c].key = key
        /\ \A o \in Callers \ {c} : caller'[o] = caller[o]
    <3>1. TypeOK /\ to \in CallerSteps /\ Call(c, "idle", to, key) BY <1>4, <2>2
    <3> QED BY <3>1, CallMoves
  <2>4. raced' = (raced \/ (master = Absent /\ \E o \in Callers : caller[o].pc = "making"))
    BY <1>6 DEF FindMaster
  <2>5. TypeOK' BY <1>3, <1>5, <2>1, <2>3, <2>4
  <2>6. HeldKeys' BY <2>2, <2>3 DEF HeldKeys
  <2>7. OneKey'
    <3> SUFFICES ASSUME ~raced' PROVE OneKey'
      BY DEF OneKey
    <3>1. ~raced BY <2>4
    <3>2. to = "making" => \A o \in Callers : caller[o].pc \notin {"making", "filling"}
      <4>1. Absent # Torn BY <1>4
      <4> QED BY <2>2, <2>4, <3>1, <4>1 DEF OneKey
    <3>3. \A x, o \in Callers :
            caller'[x].pc \in {"making", "filling"} /\ caller'[o].pc \in {"making", "filling"} => x = o
      BY <2>3, <3>1, <3>2 DEF OneKey
    <3>4. \A o \in Callers : /\ caller'[o].pc = "making" => master' = Absent
                             /\ caller'[o].pc = "filling" => master' = Torn
                             /\ caller'[o].pc = "made" => caller'[o].key = master'
      BY <2>1, <2>2, <2>3, <3>1 DEF OneKey
    <3>5. sealed' \subseteq {master'} BY <2>1, <3>1 DEF OneKey
    <3> QED BY <3>3, <3>4, <3>5 DEF OneKey
  <2> QED BY <1>2, <2>5, <2>6, <2>7
<1>7. CASE TruncateMaster(c)
  <2>1. /\ Call(c, "making", "filling", minted + 1) /\ minted + 1 \in Contents
        /\ minted + 1 \in Nat \ {0}
        /\ minted' = minted + 1 /\ master' = Torn /\ UNCHANGED <<sealed, raced>>
    BY <1>4, <1>5, <1>7 DEF TruncateMaster
  <2>2. /\ caller[c].pc = "making"
        /\ caller' \in [Callers -> [pc : CallerSteps, key : Contents]]
        /\ caller'[c].pc = "filling" /\ caller'[c].key = minted + 1
        /\ \A o \in Callers \ {c} : caller'[o] = caller[o]
    BY <1>4, <2>1, CallMoves
  <2>3. TypeOK' BY <1>3, <1>4, <1>5, <2>1, <2>2
  <2>4. HeldKeys' BY <2>1, <2>2 DEF HeldKeys
  <2>5. ASSUME ~raced PROVE sealed = {} /\ \A o \in Callers : caller[o].pc # "made"
    BY <1>4, <1>5, <2>2, <2>5 DEF OneKey, HeldKeys
  <2>6. OneKey' BY <1>4, <2>1, <2>2, <2>5 DEF OneKey
  <2> QED BY <1>2, <2>3, <2>4, <2>6
<1>8. CASE FillMaster(c)
  <2>1. /\ Call(c, "filling", "made", caller[c].key) /\ caller[c].key \in Contents
        /\ master' = caller[c].key /\ UNCHANGED <<minted, sealed, raced>>
    BY <1>5, <1>8 DEF FillMaster
  <2>2. /\ caller[c].pc = "filling"
        /\ caller' \in [Callers -> [pc : CallerSteps, key : Contents]]
        /\ caller'[c].pc = "made" /\ caller'[c].key = caller[c].key
        /\ \A o \in Callers \ {c} : caller'[o] = caller[o]
    BY <1>4, <2>1, CallMoves
  <2>3. TypeOK' BY <1>3, <1>5, <2>1, <2>2
  <2>4. HeldKeys' BY <2>1, <2>2 DEF HeldKeys
  <2>5. ASSUME ~raced PROVE sealed = {} /\ \A o \in Callers : caller[o].pc # "made"
    BY <1>4, <1>5, <2>2, <2>5 DEF OneKey, HeldKeys
  <2>6. OneKey' BY <2>1, <2>2, <2>5 DEF OneKey
  <2> QED BY <1>2, <2>3, <2>4, <2>6
<1>9. CASE UseMaster(c)
  <2>1. /\ Call(c, "made", "idle", Absent) /\ Absent \in Contents
        /\ sealed' \subseteq sealed \cup {caller[c].key} /\ UNCHANGED <<minted, master, raced>>
    BY <1>4, <1>9 DEF UseMaster
  <2>2. /\ caller[c].pc = "made"
        /\ caller' \in [Callers -> [pc : CallerSteps, key : Contents]]
        /\ caller'[c].pc = "idle"
        /\ \A o \in Callers \ {c} : caller'[o] = caller[o]
    BY <1>4, <2>1, CallMoves
  <2>3. caller[c].key \in Nat \ {0} BY <2>2 DEF HeldKeys
  <2>4. TypeOK' BY <1>3, <1>5, <2>1, <2>2, <2>3
  <2>5. HeldKeys' BY <2>2 DEF HeldKeys
  <2>6. OneKey' BY <2>1, <2>2 DEF OneKey
  <2> QED BY <1>2, <2>4, <2>5, <2>6
<1>10. CASE GiveUp(c)
  <2>1. /\ Call(c, "failed", "idle", Absent) /\ Absent \in Contents
        /\ UNCHANGED <<minted, master, sealed, raced>>
    BY <1>4, <1>10 DEF GiveUp
  <2>2. /\ caller' \in [Callers -> [pc : CallerSteps, key : Contents]]
        /\ caller'[c].pc = "idle"
        /\ \A o \in Callers \ {c} : caller'[o] = caller[o]
    BY <1>4, <2>1, CallMoves
  <2>3. TypeOK' BY <1>3, <1>5, <2>1, <2>2
  <2>4. HeldKeys' BY <2>2 DEF HeldKeys
  <2>5. OneKey' BY <2>1, <2>2 DEF OneKey
  <2> QED BY <1>2, <2>3, <2>4, <2>5
<1> QED BY <1>6, <1>7, <1>8, <1>9, <1>10 DEF MasterKey

(* Types, who has been shown which password and who holds which key. *)
THEOREM SecretsInvariance == Spec => []IInv
<1>1. Init => IInv BY InitIInv
<1>2. IInv /\ [Next]_vars => IInv'
  <2> SUFFICES ASSUME IInv, [Next]_vars PROVE IInv'
    OBVIOUS
  <2>1. CASE Next BY <2>1, PasswordStep, SessionStep, ProcessStep, MasterStep DEF Next
  <2>2. CASE UNCHANGED vars
    BY <2>2 DEF vars, boundVars, passwordVars, sessionVars, masterVars, IInv, TypeOK,
                ShownUnlessCut, HeldKeys, OneKey
  <2> QED BY <2>1, <2>2
<1> QED BY <1>1, <1>2, PTL DEF Spec

(* Every variable keeps its type. *)
THEOREM SecretsTypeCorrect == Spec => []TypeOK
<1>1. IInv => TypeOK BY DEF IInv
<1> QED BY <1>1, SecretsInvariance, PTL

(* Nobody is locked out by anything but a crash between storing a password
   and printing it. *)
THEOREM NoOtherLockout == Spec => []LockoutNeedsCrash
<1>1. IInv => LockoutNeedsCrash BY DEF IInv, ShownUnlessCut, LockoutNeedsCrash
<1> QED BY <1>1, SecretsInvariance, PTL

(* Unless two callers found no key at once, every credential opens with the
   key on disk, wherever the console died. *)
THEOREM CredentialsOpen == Spec => []SealedIsReadable
<1>1. IInv => SealedIsReadable BY DEF IInv, OneKey, SealedIsReadable
<1> QED BY <1>1, SecretsInvariance, PTL

(* No crash, restart, rotation or key of another kind ends a session. *)
THEOREM SessionsGoOn == Spec => SessionSurvives
<1>1. IInv /\ [Next]_vars =>
        [Verified /\ up # "keying" /\ ~Verified' =>
           clock' # clock \/ cookie' # cookie \/ removals' # removals]_vars
  <2> SUFFICES ASSUME IInv, [Next]_vars, Verified, up # "keying",
                      clock' = clock, cookie' = cookie, removals' = removals
               PROVE  Verified'
    OBVIOUS
  <2>1. sessionKey' = sessionKey
    <3>1. removals \in Nat /\ sessionKey # Absent
      BY DEF IInv, TypeOK, Verified
    <3>2. CASE RemovePassword \/ RemoveSessionKey
      BY <3>1, <3>2 DEF RemovePassword, RemoveSessionKey
    <3>3. CASE TruncateSessionKey \/ FillSessionKey
      BY <3>1, <3>3 DEF TruncateSessionKey, FillSessionKey, Boot
    <3>4. CASE \E c \in Callers : MasterKey(c)
      BY <3>4 DEF MasterKey, FindMaster, TruncateMaster, FillMaster, UseMaster, GiveUp,
         sessionVars
    <3>5. CASE UNCHANGED vars BY <3>5 DEF vars, sessionVars
    <3>6. CASE \/ FindPassword \/ TruncatePassword \/ StorePassword \/ PrintPassword
               \/ LogIn \/ LogOut \/ ClockMoves \/ Crash \/ Restart
      BY <3>6 DEF FindPassword, TruncatePassword, StorePassword, PrintPassword, LogIn, LogOut,
         ClockMoves, Crash, Restart, sessionVars
    <3> QED BY <3>2, <3>3, <3>4, <3>5, <3>6 DEF Next
  <2> QED BY <2>1 DEF Verified
<1> QED BY <1>1, SecretsInvariance, PTL DEF Spec, SessionSurvives
===============================================================================
