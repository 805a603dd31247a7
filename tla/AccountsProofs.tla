--------------------------- MODULE AccountsProofs ---------------------------
(***************************************************************************)
(* Theorems about Accounts for any number of tokens, codes and requests:   *)
(* its tables are well typed, the marks of a set-up are never ahead of the *)
(* set-up, a code is used up only by a new password, a verification is     *)
(* never undone, and what is due to a user is under way.                   *)
(***************************************************************************)
EXTENDS Accounts, TLAPS

-----------------------------------------------------------------------------
(* What a request holds.  A reset has a code in hand, and one that stored   *)
(* its password is counted for it; the marks it will write are true unless  *)
(* it is about to make the rows itself.                                     *)

CodeInHand(q) ==
  /\ req[q].pc \in {"resetting", "checking", "marking"} => req[q].item \in Code
  /\ req[q].pc \in {"checking", "marking"} => req[q].item \in setBy
  /\ req[q].pc = "resetting" => "password" \in req[q].changed

(* The password that was stored is in the row until another request stores  *)
(* one.                                                                     *)
PasswordInHand(q) ==
  req[q].pc = "checking" /\ user.password # req[q].write.password => req[q].item \in overtaken

MarksInHand(q) ==
  /\ req[q].write.courier =>
       {"courier", "vehicle"} \subseteq fleet \/ req[q].pc \in {"courier", "vehicle"}
  /\ req[q].write.terminal =>
       {"courier", "terminal"} \subseteq fleet \/ req[q].pc = "terminal"
  /\ req[q].pc \in {"vehicle", "terminal", "activating"} => "courier" \in fleet

InHand(q) == CodeInHand(q) /\ PasswordInHand(q) /\ MarksInHand(q)

(* A step of q that replaces the password notes whose it was.               *)
Tells(q) ==
  /\ overtaken \subseteq overtaken'
  /\ user'.password = user.password \/ Overtaken(q) \subseteq overtaken'

(* The tables, without the requests.                                        *)
TablesOK ==
  /\ row \in {"none", "made", "deleted"}
  /\ user \in UserRow
  /\ token \in [Token -> TokenStatus]
  /\ code \in [Code -> CodeStatus]
  /\ letter \in LetterStatus
  /\ fleet \subseteq Part
  /\ setBy \subseteq Code /\ overtaken \subseteq Code
  /\ begun \in 0..MaxRequests /\ stops \in 0..MaxStops
  /\ MarksAreTrue /\ UsedCodeChangedPassword

AccountsInv == AccountsTypeOK /\ TablesOK /\ \A q \in Request : InHand(q)

(* A step of one request.                                                   *)
Handles(q) ==
  \/ Register(q) \/ Verify(q) \/ SignIn(q) \/ Reset(q)
  \/ PatchUser(q) \/ PatchStatus(q) \/ PostCourier(q) \/ PostTerminal(q)
  \/ Stop(q)

(* A step that touches no request in progress.                              *)
Aside ==
  \/ Logout \/ DeleteUser \/ ExpireLetter
  \/ \E c \in Code : ForgotPassword(c) \/ ExpireCode(c)

LEMMA NextSplits == Next <=> (\E q \in Request : Handles(q)) \/ Aside
BY DEF Next, Handles, Aside

-----------------------------------------------------------------------------
(* Records                                                                 *)

LEMMA RecordsTyped ==
  /\ NewUser \in UserRow /\ Idle \in Requests
  /\ Idle.pc = "idle" /\ Idle.write = NewUser /\ Idle.item = Nil
  /\ ~NewUser.courier /\ ~NewUser.terminal
BY DEF NewUser, UserRow, UserStatus, Idle, Requests

Stage ==
  {"idle", "mailing", "login", "resetting", "checking", "marking", "revoking", "storing",
   "opening", "deleting", "verifying", "courier", "vehicle", "terminal", "activating"}

(* Going on changes only where a request is.                                *)
LEMMA GoesOn ==
  ASSUME AccountsTypeOK, NEW q \in Request, NEW pc \in Stage, Goes(q, pc)
  PROVE  /\ req' \in [Request -> Requests]
         /\ req'[q].pc = pc /\ req'[q].write = req[q].write
         /\ req'[q].changed = req[q].changed /\ req'[q].item = req[q].item
         /\ \A p \in Request \ {q} : req'[p] = req[p]
<1>1. req[q] \in Requests
  BY DEF AccountsTypeOK
<1>2. /\ [req[q] EXCEPT !.pc = pc] \in Requests
      /\ [req[q] EXCEPT !.pc = pc].pc = pc
      /\ [req[q] EXCEPT !.pc = pc].write = req[q].write
      /\ [req[q] EXCEPT !.pc = pc].changed = req[q].changed
      /\ [req[q] EXCEPT !.pc = pc].item = req[q].item
  BY <1>1 DEF Requests, Stage
<1>3. req' = [req EXCEPT ![q] = [req[q] EXCEPT !.pc = pc]]
  BY DEF Goes, AccountsTypeOK
<1> QED BY <1>2, <1>3 DEF AccountsTypeOK

LEMMA EndsIdle ==
  ASSUME AccountsTypeOK, NEW q \in Request, Ends(q)
  PROVE  /\ req' \in [Request -> Requests] /\ req'[q] = Idle
         /\ \A p \in Request \ {q} : req'[p] = req[p]
BY RecordsTyped DEF AccountsTypeOK, Ends

LEMMA ReadsRow ==
  ASSUME AccountsTypeOK, NEW q \in Request, NEW pc \in Stage, NEW write \in UserRow,
         NEW changed \in SUBSET Column, Reads(q, pc, write, changed)
  PROVE  /\ req' \in [Request -> Requests]
         /\ req'[q].pc = pc /\ req'[q].write = write
         /\ \A p \in Request \ {q} : req'[p] = req[p]
<1>1. [pc |-> pc, write |-> write, changed |-> changed, item |-> Nil] \in Requests
  BY DEF Requests, Stage
<1> QED BY <1>1 DEF AccountsTypeOK, Reads

(* A request that has an item in hand.                                      *)
Holds(rec, pc, write, item) ==
  rec \in Requests /\ rec.pc = pc /\ rec.write = write /\ rec.item = item

LEMMA HoldingTyped ==
  ASSUME NEW pc \in Stage, NEW item \in Token \cup Code
  PROVE  /\ Holds([Idle EXCEPT !.pc = pc, !.item = item], pc, NewUser, item)
         /\ \A write \in UserRow, changed \in SUBSET Column :
              Holds([pc |-> pc, write |-> write, changed |-> changed, item |-> item],
                    pc, write, item)
<1>1. Idle \in Requests
  BY RecordsTyped
<1>2. Idle.write = NewUser
  BY RecordsTyped
<1>3. Holds([Idle EXCEPT !.pc = pc, !.item = item], pc, NewUser, item)
  BY <1>1, <1>2 DEF Holds, Requests, Stage
<1>4. \A write \in UserRow, changed \in SUBSET Column :
        Holds([pc |-> pc, write |-> write, changed |-> changed, item |-> item],
              pc, write, item)
  BY DEF Holds, Requests, Stage
<1> QED BY <1>3, <1>4

(* An update of the row writes columns that the request has or that are     *)
(* there, and never the verification.                                       *)
LEMMA StoresColumns ==
  ASSUME AccountsTypeOK, NEW q \in Request, Stores(q)
  PROVE  /\ user' \in UserRow
         /\ user'.verified = user.verified
         /\ user'.courier => req[q].write.courier \/ user.courier
         /\ user'.terminal => req[q].write.terminal \/ user.terminal
         /\ "password" \in req[q].changed => user'.password = req[q].write.password
<1>1. req[q].write \in UserRow /\ req[q].changed \subseteq Column /\ user \in UserRow
  BY DEF AccountsTypeOK, Requests
<1>2. PICK columns \in {Column, req[q].changed} :
        user' = [f \in DOMAIN user |-> IF f \in columns THEN req[q].write[f] ELSE user[f]]
  BY <1>1 DEF Stores
<1>3. DOMAIN user = {"status", "verified", "courier", "terminal", "password"}
  BY <1>1 DEF UserRow
<1>4. /\ user'.status \in UserStatus /\ user'.courier \in BOOLEAN
      /\ user'.terminal \in BOOLEAN /\ user'.verified = user.verified
      /\ user'.password \in Password \cup {Nil}
      /\ user.verified \in BOOLEAN
      /\ user'.courier => req[q].write.courier \/ user.courier
      /\ user'.terminal => req[q].write.terminal \/ user.terminal
  BY <1>1, <1>2, <1>3 DEF UserRow, Column
<1>5. user' = [status |-> user'.status, verified |-> user'.verified,
               courier |-> user'.courier, terminal |-> user'.terminal,
               password |-> user'.password]
  BY <1>2, <1>3
<1>6. user' \in UserRow
  BY <1>4, <1>5 DEF UserRow
<1>7. "password" \in req[q].changed => user'.password = req[q].write.password
  BY <1>2, <1>3 DEF Column
<1> QED BY <1>4, <1>6, <1>7

-----------------------------------------------------------------------------
(* The invariant                                                           *)

(* What the other requests have in hand stays true while rows are added.    *)
LEMMA OthersKeep ==
  ASSUME AccountsInv, NEW q \in Request, TablesOK', req' \in [Request -> Requests],
         \A p \in Request \ {q} : req'[p] = req[p],
         fleet \subseteq fleet', setBy \subseteq setBy', Tells(q), InHand(q)'
  PROVE  AccountsInv'
<1>1. ASSUME NEW p \in Request \ {q} PROVE InHand(p)'
  <2>1. InHand(p) /\ req'[p] = req[p]
    BY DEF AccountsInv
  <2>2. CodeInHand(p)' /\ MarksInHand(p)'
    BY <2>1 DEF InHand, CodeInHand, MarksInHand
  <2>3. PasswordInHand(p)'
    <3>1. CASE user'.password = user.password
      BY <2>1, <3>1 DEF InHand, PasswordInHand, Tells
    <3>2. CASE Overtaken(q) \subseteq overtaken'
      BY <2>1, <3>2 DEF InHand, CodeInHand, PasswordInHand, Overtaken
    <3> QED BY <3>1, <3>2 DEF Tells
  <2> QED BY <2>2, <2>3 DEF InHand
<1>2. AccountsTypeOK'
  BY DEF TablesOK, AccountsTypeOK
<1> QED BY <1>1, <1>2 DEF AccountsInv

LEMMA IdleHasNothing ==
  ASSUME NEW q \in Request, req'[q] = Idle
  PROVE  InHand(q)'
BY RecordsTyped DEF InHand, CodeInHand, PasswordInHand, MarksInHand

LEMMA EndsKeeps ==
  ASSUME AccountsInv, NEW q \in Request, Ends(q), TablesOK', Tells(q),
         fleet \subseteq fleet', setBy \subseteq setBy'
  PROVE  AccountsInv'
BY EndsIdle, IdleHasNothing, OthersKeep DEF AccountsInv

(* A request that goes on to a stage where no more is asked of it.          *)
LEMMA GoesKeeps ==
  ASSUME AccountsInv, NEW q \in Request, TablesOK', Tells(q),
         fleet \subseteq fleet', setBy \subseteq setBy',
         NEW pc \in Stage \ {"resetting", "checking", "marking", "vehicle", "terminal",
                             "activating"},
         req[q].pc \notin {"courier", "vehicle", "terminal"},
         Goes(q, pc)
  PROVE  AccountsInv'
<1>1. /\ req' \in [Request -> Requests]
      /\ req'[q].pc = pc /\ req'[q].write = req[q].write
      /\ \A p \in Request \ {q} : req'[p] = req[p]
  BY GoesOn DEF AccountsInv
<1>2. InHand(q)'
  BY <1>1 DEF AccountsInv, InHand, CodeInHand, PasswordInHand, MarksInHand
<1> QED BY <1>1, <1>2, OthersKeep

LEMMA Counted ==
  ASSUME AccountsInv
  PROVE  /\ begun \in 0..MaxRequests
         /\ \A q \in Request : Opens(q) => begun' \in 0..MaxRequests
BY BoundsAreCounts DEF AccountsInv, TablesOK, Opens

LEMMA SameTables ==
  ASSUME AccountsInv, UNCHANGED <<tables, history, stops>>, begun' \in 0..MaxRequests
  PROVE  /\ TablesOK' /\ UNCHANGED <<fleet, history>>
         /\ \A q \in Request : Tells(q)
BY DEF AccountsInv, TablesOK, MarksAreTrue, UsedCodeChangedPassword, tables, history, Tells

(* The row was read when the marks in it were true.                         *)
LEMMA ReadsKeeps ==
  ASSUME AccountsInv, NEW q \in Request, UNCHANGED <<tables, history, stops>>, Begins(q),
         NEW pc \in Stage \ {"resetting", "checking", "marking", "vehicle", "activating"},
         NEW write \in UserRow, NEW changed \in SUBSET Column,
         write.courier => user.courier \/ pc = "courier",
         write.terminal => user.terminal \/ pc = "terminal",
         pc = "terminal" => "courier" \in fleet,
         Reads(q, pc, write, changed)
  PROVE  AccountsInv'
<1>1. /\ req' \in [Request -> Requests]
      /\ req'[q].pc = pc /\ req'[q].write = write
      /\ \A p \in Request \ {q} : req'[p] = req[p]
  BY ReadsRow DEF AccountsInv
<1>2. TablesOK' /\ UNCHANGED <<fleet, history>> /\ Tells(q)
  BY Counted, SameTables DEF Begins, Opens
<1>3. InHand(q)'
  BY <1>1, <1>2 DEF AccountsInv, TablesOK, MarksAreTrue, InHand, CodeInHand,
                    PasswordInHand, MarksInHand
<1> QED BY <1>1, <1>2, <1>3, OthersKeep DEF history

LEMMA HoldsKeeps ==
  ASSUME AccountsInv, NEW q \in Request, TablesOK', UNCHANGED <<fleet, history>>,
         Tells(q), NEW pc \in {"login", "resetting", "marking"},
         NEW write, NEW item, NEW rec,
         write.courier => user.courier, write.terminal => user.terminal,
         pc \in {"resetting", "marking"} => item \in Code,
         pc = "marking" => item \in setBy,
         Holds(rec, pc, write, item), pc = "resetting" => "password" \in rec.changed,
         req' = [req EXCEPT ![q] = rec]
  PROVE  AccountsInv'
<1>1. /\ req' \in [Request -> Requests]
      /\ req'[q].pc = pc /\ req'[q].write = write /\ req'[q].item = item
      /\ req'[q] = rec
      /\ \A p \in Request \ {q} : req'[p] = req[p]
  BY DEF Holds, AccountsInv, AccountsTypeOK
<1>2. /\ write.courier => {"courier", "vehicle"} \subseteq fleet
      /\ write.terminal => {"courier", "terminal"} \subseteq fleet
  BY DEF AccountsInv, TablesOK, MarksAreTrue
<1>3. InHand(q)'
  BY <1>1, <1>2 DEF InHand, CodeInHand, PasswordInHand, MarksInHand, history
<1> QED BY <1>1, <1>3, OthersKeep DEF history

(* An update of the row keeps its marks true.                               *)
LEMMA StoresKeeps ==
  ASSUME AccountsInv, NEW q \in Request, Stores(q), setBy \subseteq setBy',
         req[q].pc \in {"resetting", "storing"}, setBy' \subseteq Code,
         overtaken' = overtaken \cup Overtaken(q),
         UNCHANGED <<row, token, code, letter, fleet, bounds>>
  PROVE  TablesOK' /\ Tells(q)
<1>1. /\ user' \in UserRow
      /\ user'.courier => req[q].write.courier \/ user.courier
      /\ user'.terminal => req[q].write.terminal \/ user.terminal
  BY StoresColumns DEF AccountsInv
<1>2. /\ req[q].write.courier => {"courier", "vehicle"} \subseteq fleet
      /\ req[q].write.terminal => {"courier", "terminal"} \subseteq fleet
  BY DEF AccountsInv, InHand, MarksInHand
<1>3. MarksAreTrue'
  BY <1>1, <1>2 DEF AccountsInv, TablesOK, MarksAreTrue
<1>4. UsedCodeChangedPassword'
  BY DEF AccountsInv, TablesOK, UsedCodeChangedPassword
<1>5. Overtaken(q) \subseteq Code
  BY DEF Overtaken
<1> QED BY <1>1, <1>3, <1>4, <1>5 DEF AccountsInv, TablesOK, Tells, bounds

(* A step that leaves the password, and the history of the codes, alone.    *)
LEMMA QuietTells ==
  ASSUME NEW q \in Request, UNCHANGED history, user'.password = user.password
  PROVE  Tells(q)
BY DEF Tells, history

LEMMA RegisterKeeps ==
  ASSUME AccountsInv, NEW q \in Request, Register(q)
  PROVE  AccountsInv'
<1>1. begun' \in 0..MaxRequests
  BY Counted DEF Register, RegisterUser, StoreLetter, bounds
<1>2. TablesOK' /\ UNCHANGED <<fleet, history>> /\ Tells(q)
  BY <1>1, QuietTells
     DEF Register, RegisterUser, StoreLetter, CreateLetter, AccountsInv, TablesOK,
         LetterStatus, MarksAreTrue, UsedCodeChangedPassword, history, bounds
<1>3. CASE RegisterUser(q)
  BY <1>2, <1>3, GoesKeeps DEF RegisterUser, Opens, Stage, history
<1>4. CASE StoreLetter(q)
  BY <1>2, <1>4, EndsKeeps DEF StoreLetter, history
<1> QED BY <1>3, <1>4 DEF Register

LEMMA VerifyKeeps ==
  ASSUME AccountsInv, NEW q \in Request, Verify(q)
  PROVE  AccountsInv'
<1>0. begun' \in 0..MaxRequests
  BY Counted DEF Verify, VerifyToken, Begins, ReadLetters, DeleteLetters, VerifyEmail, bounds
<1>1. [user EXCEPT !.verified = TRUE] \in UserRow
  BY DEF AccountsInv, TablesOK, UserRow
<1>2. /\ [user EXCEPT !.verified = TRUE].courier = user.courier
      /\ [user EXCEPT !.verified = TRUE].terminal = user.terminal
      /\ [user EXCEPT !.verified = TRUE].password = user.password
  BY DEF AccountsInv, TablesOK, UserRow
<1>3. CASE VerifyToken(q)
  BY <1>0, <1>3, SameTables, GoesKeeps DEF VerifyToken, Begins, Opens, Stage, history
<1>4. CASE ReadLetters(q)
  <2>1. TablesOK' /\ UNCHANGED <<fleet, history>> /\ Tells(q)
    BY <1>0, <1>4, SameTables DEF ReadLetters, bounds
  <2> QED BY <1>4, <2>1, GoesKeeps, EndsKeeps DEF ReadLetters, Stage, history
<1>5. CASE DeleteLetters(q)
  <2>1. TablesOK' /\ UNCHANGED <<fleet, history>> /\ Tells(q)
    BY <1>5, QuietTells
       DEF DeleteLetters, AccountsInv, TablesOK, LetterStatus, MarksAreTrue,
           UsedCodeChangedPassword, history, bounds
  <2> QED BY <1>5, <2>1, GoesKeeps DEF DeleteLetters, Stage, history
<1>6. CASE VerifyEmail(q)
  <2>1. TablesOK' /\ UNCHANGED <<fleet, history>> /\ Tells(q)
    BY <1>1, <1>2, <1>6, QuietTells
       DEF VerifyEmail, AccountsInv, TablesOK, MarksAreTrue, UsedCodeChangedPassword,
           history, bounds
  <2> QED BY <1>6, <2>1, EndsKeeps DEF VerifyEmail, history
<1> QED BY <1>3, <1>4, <1>5, <1>6 DEF Verify

LEMMA SignInKeeps ==
  ASSUME AccountsInv, NEW q \in Request, SignIn(q)
  PROVE  AccountsInv'
<1>1. ASSUME NEW t \in Token, Login(q, t) PROVE AccountsInv'
  <2>1. Holds([Idle EXCEPT !.pc = "login", !.item = t], "login", NewUser, t)
    BY HoldingTyped DEF Stage
  <2>2. TablesOK' /\ UNCHANGED <<fleet, history>> /\ Tells(q)
    BY <1>1, Counted, SameTables DEF Login, Begins, Opens
  <2> QED BY <1>1, <2>1, <2>2, RecordsTyped, HoldsKeeps DEF Login
<1>2. CASE UpdateLastLogin(q)
  <2>1. token' \in [Token -> TokenStatus]
    BY <1>2 DEF UpdateLastLogin, CreateToken, AccountsInv, TablesOK, TokenStatus
  <2>2. TablesOK' /\ UNCHANGED <<fleet, history>> /\ Tells(q)
    BY <1>2, <2>1, QuietTells
       DEF UpdateLastLogin, AccountsInv, TablesOK, MarksAreTrue, UsedCodeChangedPassword,
           history, bounds
  <2> QED BY <1>2, <2>2, EndsKeeps DEF UpdateLastLogin, history
<1> QED BY <1>1, <1>2 DEF SignIn

LEMMA RevokedTyped ==
  ASSUME AccountsInv
  PROVE  Revoked \in [Token -> TokenStatus]
BY DEF Revoked, AccountsInv, TablesOK, TokenStatus

(* The password is in the row when the request goes on to verify it.        *)
LEMMA ResetStoresKeeps ==
  ASSUME AccountsInv, NEW q \in Request, ResetStores(q), Exists,
         "password" \in req[q].changed
  PROVE  AccountsInv'
<1>1. req[q].item \in Code /\ req[q].pc = "resetting"
  BY DEF AccountsInv, InHand, CodeInHand, ResetStores
<1>2. /\ Stores(q) /\ setBy' = setBy \cup {req[q].item} /\ Goes(q, "checking")
      /\ overtaken' = overtaken \cup Overtaken(q)
  BY DEF ResetStores
<1>3. setBy' \subseteq Code
  BY <1>1, <1>2 DEF AccountsInv, TablesOK
<1>4. TablesOK' /\ Tells(q)
  BY <1>1, <1>2, <1>3, StoresKeeps DEF ResetStores
<1>5. /\ req' \in [Request -> Requests]
      /\ req'[q].pc = "checking" /\ req'[q].write = req[q].write
      /\ req'[q].item = req[q].item
      /\ \A p \in Request \ {q} : req'[p] = req[p]
  BY <1>2, GoesOn DEF AccountsInv, Stage
<1>6. user'.password = req[q].write.password
  BY <1>2, StoresColumns DEF AccountsInv
<1>7. MarksInHand(q)'
  BY <1>1, <1>5 DEF AccountsInv, InHand, MarksInHand, ResetStores
<1>8. InHand(q)'
  BY <1>1, <1>2, <1>5, <1>6, <1>7 DEF InHand, CodeInHand, PasswordInHand
<1>9. fleet \subseteq fleet' /\ setBy \subseteq setBy'
  BY <1>2 DEF ResetStores
<1> QED BY <1>4, <1>5, <1>8, <1>9, OthersKeep

LEMMA ResetKeeps ==
  ASSUME AccountsInv, NEW q \in Request, Reset(q)
  PROVE  AccountsInv'
<1>0. InHand(q) /\ user \in UserRow
  BY DEF AccountsInv, TablesOK
<1>1. ASSUME NEW c \in Code, NEW new \in Password, ResetPassword(q, c, new)
      PROVE  AccountsInv'
  <2> DEFINE write == [user EXCEPT !.password = new]
             rec == [pc |-> "resetting", write |-> write, changed |-> {"password"},
                     item |-> c]
  <2>1. write \in UserRow /\ write.courier = user.courier /\ write.terminal = user.terminal
    BY <1>0 DEF UserRow
  <2>2. Holds(rec, "resetting", write, c)
    BY <2>1, HoldingTyped DEF Stage, Column
  <2>3. TablesOK' /\ UNCHANGED <<fleet, history>> /\ Tells(q)
    BY <1>1, Counted, SameTables DEF ResetPassword, Begins, Opens
  <2>4. req' = [req EXCEPT ![q] = rec]
    BY <1>1 DEF ResetPassword
  <2> QED BY <2>1, <2>2, <2>3, <2>4, HoldsKeeps
<1>2. CASE ResetStores(q) /\ Exists
  BY <1>0, <1>2, ResetStoresKeeps DEF InHand, CodeInHand, ResetStores
<1>3. CASE ResetStores(q) /\ ~Exists
  <2>1. UNCHANGED <<tables, history, bounds>>
    BY <1>3 DEF ResetStores, tables
  <2>2. TablesOK' /\ UNCHANGED <<fleet, history>> /\ Tells(q)
    BY <2>1, Counted, SameTables DEF bounds
  <2> QED BY <1>3, <2>2, EndsKeeps DEF ResetStores, history
<1>4. CASE VerifyPassword(q)
  <2>1. TablesOK' /\ UNCHANGED <<fleet, history>> /\ Tells(q)
    BY <1>4, Counted, SameTables DEF VerifyPassword, bounds
  <2>2. CASE Ends(q)
    BY <2>1, <2>2, EndsKeeps DEF history
  <2>3. CASE req' = [req EXCEPT ![q] = [Idle EXCEPT !.pc = "marking", !.item = req[q].item]]
    <3>1. req[q].item \in Code /\ req[q].item \in setBy
      BY <1>0, <1>4 DEF VerifyPassword, InHand, CodeInHand
    <3>2. Holds([Idle EXCEPT !.pc = "marking", !.item = req[q].item], "marking", NewUser,
                req[q].item)
      BY <3>1, HoldingTyped DEF Stage
    <3> QED BY <2>1, <2>3, <3>1, <3>2, RecordsTyped, HoldsKeeps
  <2> QED BY <1>4, <2>2, <2>3 DEF VerifyPassword
<1>5. CASE MarkAsUsed(q)
  <2>1. req[q].item \in setBy
    BY <1>0, <1>5 DEF MarkAsUsed, InHand, CodeInHand
  <2>2. /\ code' \in [Code -> CodeStatus]
        /\ \A c \in Code : code'[c] = code[c] \/ c = req[q].item
    BY <1>5 DEF MarkAsUsed, AccountsInv, TablesOK, CodeStatus
  <2>3. UsedCodeChangedPassword'
    BY <1>5, <2>1, <2>2 DEF MarkAsUsed, AccountsInv, TablesOK, UsedCodeChangedPassword,
                            history
  <2>4. TablesOK' /\ UNCHANGED <<fleet, history>> /\ Tells(q)
    BY <1>5, <2>2, <2>3, QuietTells
       DEF MarkAsUsed, AccountsInv, TablesOK, MarksAreTrue, history, bounds
  <2> QED BY <1>5, <2>4, GoesKeeps DEF MarkAsUsed, Stage, history
<1>6. CASE RevokeUserTokens(q)
  <2>1. TablesOK' /\ UNCHANGED <<fleet, history>> /\ Tells(q)
    BY <1>6, RevokedTyped, QuietTells
       DEF RevokeUserTokens, AccountsInv, TablesOK, MarksAreTrue, UsedCodeChangedPassword,
           history, bounds
  <2> QED BY <1>6, <2>1, EndsKeeps DEF RevokeUserTokens, history
<1> QED BY <1>1, <1>2, <1>3, <1>4, <1>5, <1>6 DEF Reset

LEMMA PatchKeeps ==
  ASSUME AccountsInv, NEW q \in Request, PatchUser(q) \/ PatchStatus(q)
  PROVE  AccountsInv'
<1>0. user \in UserRow
  BY DEF AccountsInv, TablesOK
<1>1. CASE UpdateUser(q)
  BY <1>0, <1>1, ReadsKeeps DEF UpdateUser, Stage
<1>5. ASSUME NEW new \in Password, ChangePassword(q, new) PROVE AccountsInv'
  <2>1. /\ [user EXCEPT !.password = new] \in UserRow
        /\ [user EXCEPT !.password = new].courier = user.courier
        /\ [user EXCEPT !.password = new].terminal = user.terminal
    BY <1>0 DEF UserRow
  <2> QED BY <1>5, <2>1, ReadsKeeps DEF ChangePassword, Stage, Column
<1>2. ASSUME NEW status \in Chosen, UpdateUserStatus(q, status) PROVE AccountsInv'
  <2>1. /\ [user EXCEPT !.status = status] \in UserRow
        /\ [user EXCEPT !.status = status].courier = user.courier
        /\ [user EXCEPT !.status = status].terminal = user.terminal
    BY <1>0, ChosenAreStatuses DEF UserRow, UserStatus
  <2> QED BY <1>2, <2>1, ReadsKeeps DEF UpdateUserStatus, Stage, Column
<1>3. CASE StoreUser(q) /\ Exists
  <2>1. TablesOK' /\ Tells(q)
    BY <1>3, StoresKeeps DEF StoreUser, AccountsInv, TablesOK
  <2> QED BY <1>3, <2>1, EndsKeeps DEF StoreUser
<1>4. CASE StoreUser(q) /\ ~Exists
  <2>1. UNCHANGED <<tables, history, bounds>>
    BY <1>4 DEF StoreUser, tables, history
  <2>2. TablesOK' /\ UNCHANGED <<fleet, history>> /\ Tells(q)
    BY <2>1, Counted, SameTables DEF bounds
  <2> QED BY <1>4, <2>2, EndsKeeps DEF StoreUser, history
<1> QED BY <1>1, <1>2, <1>3, <1>4, <1>5 DEF PatchUser, PatchStatus

LEMMA FleetKeeps ==
  ASSUME AccountsInv, UNCHANGED <<row, user, token, code, letter, history, bounds>>,
         fleet \subseteq fleet', fleet' \subseteq Part
  PROVE  TablesOK' /\ \A q \in Request : Tells(q)
BY DEF AccountsInv, TablesOK, MarksAreTrue, UsedCodeChangedPassword, history, bounds, Tells

LEMMA CourierKeeps ==
  ASSUME AccountsInv, NEW q \in Request, PostCourier(q)
  PROVE  AccountsInv'
<1>0. InHand(q) /\ user \in UserRow /\ fleet \subseteq Part /\ AccountsTypeOK
  BY DEF AccountsInv, TablesOK
<1>1. CASE SetupCourier(q)
  <2>1. /\ [user EXCEPT !.courier = TRUE] \in UserRow
        /\ [user EXCEPT !.courier = TRUE].terminal = user.terminal
    BY <1>0 DEF UserRow
  <2> QED BY <1>1, <2>1, ReadsKeeps DEF SetupCourier, Stage, Column
<1>2. CASE CreateCourier(q) /\ fleet' # fleet
  <2>1. /\ Goes(q, "vehicle") /\ fleet' = fleet \cup {"courier"}
        /\ UNCHANGED <<row, user, token, code, letter, history, bounds>>
    BY <1>2 DEF CreateCourier
  <2>2. /\ req' \in [Request -> Requests]
        /\ req'[q].pc = "vehicle" /\ req'[q].write = req[q].write
        /\ \A p \in Request \ {q} : req'[p] = req[p]
    BY <1>0, <2>1, GoesOn DEF Stage
  <2>3. TablesOK' /\ Tells(q)
    BY <1>0, <2>1, FleetKeeps DEF Part
  <2>4. req[q].pc = "courier"
    BY <1>2 DEF CreateCourier
  <2>5. InHand(q)'
    BY <1>0, <2>1, <2>2, <2>4 DEF InHand, CodeInHand, PasswordInHand, MarksInHand
  <2> QED BY <2>1, <2>2, <2>3, <2>5, OthersKeep DEF history
<1>3. CASE CreateCourier(q) /\ fleet' = fleet
  <2>1. Ends(q) /\ UNCHANGED <<tables, history, bounds>>
    BY <1>3 DEF CreateCourier, tables
  <2>2. TablesOK' /\ UNCHANGED <<fleet, history>> /\ Tells(q)
    BY <2>1, Counted, SameTables DEF bounds
  <2> QED BY <2>1, <2>2, EndsKeeps DEF history
<1>4. CASE CreateDefaultVehicle(q)
  <2>1. /\ Goes(q, "storing") /\ fleet' = fleet \cup {"vehicle"}
        /\ UNCHANGED <<row, user, token, code, letter, history, bounds>>
        /\ req[q].pc = "vehicle"
    BY <1>4 DEF CreateDefaultVehicle
  <2>2. /\ req' \in [Request -> Requests]
        /\ req'[q].pc = "storing" /\ req'[q].write = req[q].write
        /\ \A p \in Request \ {q} : req'[p] = req[p]
    BY <1>0, <2>1, GoesOn DEF Stage
  <2>3. TablesOK' /\ Tells(q)
    BY <1>0, <2>1, FleetKeeps DEF Part
  <2>4. InHand(q)'
    BY <1>0, <2>1, <2>2 DEF InHand, CodeInHand, PasswordInHand, MarksInHand
  <2> QED BY <2>1, <2>2, <2>3, <2>4, OthersKeep DEF history
<1> QED BY <1>1, <1>2, <1>3, <1>4 DEF PostCourier

LEMMA TerminalKeeps ==
  ASSUME AccountsInv, NEW q \in Request, PostTerminal(q)
  PROVE  AccountsInv'
<1>0. InHand(q) /\ user \in UserRow /\ fleet \subseteq Part /\ AccountsTypeOK
  BY DEF AccountsInv, TablesOK
<1>1. CASE SetupTerminal(q)
  <2>1. /\ [user EXCEPT !.terminal = TRUE] \in UserRow
        /\ [user EXCEPT !.terminal = TRUE].courier = user.courier
    BY <1>0 DEF UserRow
  <2> QED BY <1>1, <2>1, ReadsKeeps DEF SetupTerminal, Stage, Column
<1>2. CASE CreateHub(q)
  <2>1. /\ Goes(q, "activating") /\ fleet' = fleet \cup {"terminal"}
        /\ UNCHANGED <<row, user, token, code, letter, history, bounds>>
        /\ req[q].pc = "terminal"
    BY <1>2 DEF CreateHub
  <2>2. /\ req' \in [Request -> Requests]
        /\ req'[q].pc = "activating" /\ req'[q].write = req[q].write
        /\ \A p \in Request \ {q} : req'[p] = req[p]
    BY <1>0, <2>1, GoesOn DEF Stage
  <2>3. TablesOK' /\ Tells(q)
    BY <1>0, <2>1, FleetKeeps DEF Part
  <2>4. InHand(q)'
    BY <1>0, <2>1, <2>2 DEF InHand, CodeInHand, PasswordInHand, MarksInHand
  <2> QED BY <2>1, <2>2, <2>3, <2>4, OthersKeep DEF history
<1>3. CASE ActivateUser(q)
  <2>1. /\ [user EXCEPT !.status = "active"] \in UserRow
        /\ [user EXCEPT !.status = "active"].courier = user.courier
        /\ [user EXCEPT !.status = "active"].terminal = user.terminal
        /\ [user EXCEPT !.status = "active"].password = user.password
    BY <1>0 DEF UserRow, UserStatus
  <2>2. TablesOK' /\ UNCHANGED <<fleet, history>> /\ Tells(q)
    BY <1>3, <2>1, QuietTells
       DEF ActivateUser, AccountsInv, TablesOK, MarksAreTrue, UsedCodeChangedPassword,
           history, bounds
  <2> DEFINE more == IF req[q].write.status = "active" THEN {} ELSE {"status"}
             rec == [req[q] EXCEPT !.pc = "storing", !.changed = @ \cup more]
  <2>3. req[q] \in Requests
    BY <1>0 DEF AccountsTypeOK
  <2>4. more \subseteq Column
    BY DEF Column
  <2>5. req' = [req EXCEPT ![q] = rec]
    BY <1>3 DEF ActivateUser
  <2> HIDE DEF more
  <2>6. rec \in Requests /\ rec.pc = "storing" /\ rec.write = req[q].write
    BY <2>3, <2>4 DEF Requests
  <2> HIDE DEF rec
  <2>7. /\ req' \in [Request -> Requests] /\ req'[q] = rec
        /\ \A p \in Request \ {q} : req'[p] = req[p]
    BY <1>0, <2>5, <2>6 DEF AccountsTypeOK
  <2>8. req[q].pc = "activating"
    BY <1>3 DEF ActivateUser
  <2>9. InHand(q)'
    BY <1>0, <2>2, <2>6, <2>7, <2>8 DEF InHand, CodeInHand, PasswordInHand, MarksInHand
  <2> QED BY <2>2, <2>6, <2>7, <2>9, OthersKeep DEF history
<1> QED BY <1>1, <1>2, <1>3 DEF PostTerminal

LEMMA StopKeeps ==
  ASSUME AccountsInv, NEW q \in Request, Stop(q)
  PROVE  AccountsInv'
<1>1. stops' \in 0..MaxStops
  <2>1. stops \in 0..MaxStops
    BY DEF AccountsInv, TablesOK
  <2>2. stops < MaxStops /\ stops' = stops + 1
    BY DEF Stop
  <2> QED BY <2>1, <2>2, BoundsAreCounts
<1>2. UNCHANGED <<tables, history, begun>>
  BY DEF Stop
<1>3. TablesOK' /\ UNCHANGED <<fleet, history>> /\ Tells(q)
  BY <1>1, <1>2, QuietTells
     DEF AccountsInv, TablesOK, MarksAreTrue, UsedCodeChangedPassword, tables, history
<1> QED BY <1>3, EndsKeeps DEF Stop, history

(* Tokens, codes and letters run out or are dropped beside the requests.    *)
LEMMA AsideKeeps ==
  ASSUME AccountsInv, Aside \/ UNCHANGED vars
  PROVE  AccountsInv'
<1>1. UNCHANGED <<user, fleet, history, req, bounds>>
  BY DEF Aside, Logout, DeleteUser, ExpireLetter, ForgotPassword, ExpireCode, vars, tables
<1>2. row' \in {"none", "made", "deleted"} /\ letter' \in LetterStatus
  BY DEF Aside, Logout, DeleteUser, ExpireLetter, ForgotPassword, ExpireCode, vars, tables,
         AccountsInv, TablesOK, LetterStatus
<1>3. token' \in [Token -> TokenStatus]
  BY RevokedTyped
     DEF Aside, Logout, DeleteUser, ExpireLetter, ForgotPassword, ExpireCode, vars, tables,
         Revoked, AccountsInv, TablesOK
<1>4. /\ code' \in [Code -> CodeStatus]
      /\ \A c \in Code : code'[c] = "used" => code[c] = "used"
  <2>1. code \in [Code -> CodeStatus]
    BY DEF AccountsInv, TablesOK
  <2>2. CASE UNCHANGED code
    BY <2>1, <2>2
  <2>3. CASE code' = [c \in Code |-> IF code[c] = "sent" THEN "expired" ELSE code[c]]
    BY <2>1, <2>3 DEF CodeStatus
  <2>4. CASE \E c \in Code : code' \in {[code EXCEPT ![c] = "sent"],
                                        [code EXCEPT ![c] = "expired"]}
    BY <2>1, <2>4 DEF CodeStatus
  <2> QED BY <2>2, <2>3, <2>4
          DEF Aside, Logout, DeleteUser, ExpireLetter, ForgotPassword, CreateCode,
              ExpireCode, vars, tables
<1>5. TablesOK'
  BY <1>1, <1>2, <1>3, <1>4 DEF AccountsInv, TablesOK, MarksAreTrue,
                                UsedCodeChangedPassword, history, bounds
<1>6. \A q \in Request : InHand(q)'
  BY <1>1 DEF AccountsInv, InHand, CodeInHand, PasswordInHand, MarksInHand, history
<1> QED BY <1>1, <1>5, <1>6 DEF AccountsInv, AccountsTypeOK, TablesOK

LEMMA InitHolds == Init => AccountsInv
<1> SUFFICES ASSUME Init PROVE AccountsInv
  OBVIOUS
<1>1. begun \in 0..MaxRequests /\ stops \in 0..MaxStops
  <2>1. begun = 0 /\ stops = 0
    BY DEF Init
  <2> QED BY <2>1, BoundsAreCounts
<1>2. /\ token \in [Token -> TokenStatus] /\ code \in [Code -> CodeStatus]
      /\ letter \in LetterStatus /\ user = NewUser /\ fleet = {} /\ setBy = {}
      /\ overtaken = {}
      /\ req = [q \in Request |-> Idle] /\ row = "none"
      /\ \A c \in Code : code[c] = "none"
  BY DEF Init, TokenStatus, CodeStatus, LetterStatus
<1>3. TablesOK
  BY <1>1, <1>2, RecordsTyped DEF TablesOK, MarksAreTrue, UsedCodeChangedPassword
<1>4. \A q \in Request : InHand(q)
  BY <1>2, RecordsTyped DEF InHand, CodeInHand, PasswordInHand, MarksInHand
<1> QED BY <1>2, <1>3, <1>4, RecordsTyped DEF AccountsInv, AccountsTypeOK, TablesOK

LEMMA NextHolds ==
  ASSUME AccountsInv, [Next]_vars
  PROVE  AccountsInv'
<1>1. ASSUME NEW q \in Request, Handles(q) PROVE AccountsInv'
  BY <1>1, RegisterKeeps, VerifyKeeps, SignInKeeps, ResetKeeps, PatchKeeps, CourierKeeps,
     TerminalKeeps, StopKeeps DEF Handles
<1> QED BY <1>1, AsideKeeps, NextSplits

LEMMA InvHolds == Spec => []AccountsInv
BY InitHolds, NextHolds, PTL DEF Spec

(* Rows and requests hold the statuses the code knows.                      *)
THEOREM AccountsTypeCorrect == Spec => []AccountsTypeOK
<1>1. AccountsInv => AccountsTypeOK
  BY DEF AccountsInv
<1> QED BY <1>1, InvHolds, PTL

(* The marks of the user row are never ahead of the courier, the vehicle    *)
(* and the terminal, however many requests overlap.                         *)
THEOREM NoMarkAhead == Spec => []MarksAreTrue
<1>1. AccountsInv => MarksAreTrue
  BY DEF AccountsInv, TablesOK
<1> QED BY <1>1, InvHolds, PTL

(* Every reset code that is used up has changed the password.               *)
THEOREM NoCodeWasted == Spec => []UsedCodeChangedPassword
<1>1. AccountsInv => UsedCodeChangedPassword
  BY DEF AccountsInv, TablesOK
<1> QED BY <1>1, InvHolds, PTL

-----------------------------------------------------------------------------
(* Verification                                                            *)

LEMMA StepVerified ==
  ASSUME AccountsTypeOK, [Next]_vars
  PROVE  user.verified => user'.verified
<1>1. user \in UserRow
  BY DEF AccountsTypeOK
<1>2. CASE UNCHANGED user
  BY <1>2
<1>3. CASE \E q \in Request : Stores(q)
  BY <1>3, StoresColumns
<1>4. CASE \E q \in Request : VerifyEmail(q) \/ ActivateUser(q)
  BY <1>1, <1>4 DEF VerifyEmail, ActivateUser, UserRow
<1>5. CASE Aside \/ UNCHANGED vars
  BY <1>2, <1>5
     DEF Aside, Logout, DeleteUser, ExpireLetter, ForgotPassword, ExpireCode, vars, tables
<1>6. ASSUME NEW q \in Request, Handles(q) PROVE user.verified => user'.verified
  <2>1. CASE Register(q) \/ SignIn(q) \/ PostCourier(q) \/ Stop(q)
    BY <1>2, <2>1 DEF Register, RegisterUser, StoreLetter, SignIn, Login, UpdateLastLogin,
         PostCourier, SetupCourier, CreateCourier, CreateDefaultVehicle, Stop, tables
  <2>2. CASE Verify(q) \/ PostTerminal(q)
    BY <1>2, <1>4, <2>2 DEF Verify, VerifyToken, ReadLetters, DeleteLetters,
         PostTerminal, SetupTerminal, CreateHub, tables
  <2>3. CASE Reset(q) \/ PatchUser(q) \/ PatchStatus(q)
    BY <1>2, <1>3, <2>3 DEF Reset, ResetPassword, ResetStores, VerifyPassword, MarkAsUsed,
         RevokeUserTokens, PatchUser, ChangePassword, UpdateUser, StoreUser, PatchStatus,
         UpdateUserStatus, tables
  <2> QED BY <1>6, <2>1, <2>2, <2>3 DEF Handles
<1> QED BY <1>5, <1>6, NextSplits

(* No request that overlaps undoes the verification of the e-mail.          *)
THEOREM VerifiedForGood == Spec => VerificationStays
<1>1. ASSUME AccountsInv, [Next]_vars
      PROVE  [user.verified => user'.verified]_vars
  BY <1>1, StepVerified DEF AccountsInv
<1> QED BY <1>1, InvHolds, PTL DEF Spec, VerificationStays

-----------------------------------------------------------------------------
(* What is due                                                             *)

(* A request that is cut off, or whose user is deleted, owes nothing.       *)
Excused == stops > 0 \/ ~Exists

(* The request that deleted the token is still to write the verification.   *)
LetterAnswered ==
  letter = "gone" => user.verified \/ Excused \/ \E q \in Request : req[q].pc = "verifying"

(* The request that stored a password is still to mark its code, unless     *)
(* another replaced that password first.                                    *)
CodeAnswered(c) ==
  c \in setBy =>
    \/ code[c] = "used" \/ c \in overtaken \/ Excused
    \/ \E q \in Request : req[q].pc \in {"checking", "marking"} /\ req[q].item = c

AnswersDue == LetterAnswered /\ \A c \in Code : CodeAnswered(c)

(* Nothing is there, or under way, before the registration.                 *)
Fresh ==
  row = "none" => letter = "none" /\ setBy = {} /\ \A q \in Request : req[q].pc = "idle"

DueInv == AccountsInv /\ Fresh /\ AnswersDue

(* A step of q leaves the other requests where they are.                    *)
LEMMA OnlyOneMoves ==
  ASSUME AccountsInv, NEW q \in Request, Handles(q)
  PROVE  \A p \in Request \ {q} : req'[p] = req[p]
<1>1. req \in [Request -> Requests]
  BY DEF AccountsInv, AccountsTypeOK
<1>2. CASE \E rec : req' = [req EXCEPT ![q] = rec]
  BY <1>1, <1>2
<1>3. \E rec : req' = [req EXCEPT ![q] = rec]
  <2>1. CASE Register(q) \/ Verify(q) \/ SignIn(q) \/ Reset(q)
    BY <2>1 DEF Register, RegisterUser, StoreLetter, Verify, VerifyToken, ReadLetters,
         DeleteLetters, VerifyEmail, SignIn, Login, UpdateLastLogin, Reset, ResetPassword,
         ResetStores, VerifyPassword, MarkAsUsed, RevokeUserTokens, Goes, Ends
  <2>2. CASE PatchUser(q) \/ PatchStatus(q) \/ Stop(q)
    BY <2>2 DEF PatchUser, ChangePassword, UpdateUser, StoreUser, PatchStatus,
         UpdateUserStatus, Stop,
         Reads, Ends
  <2>3. CASE PostCourier(q) \/ PostTerminal(q)
    BY <2>3 DEF PostCourier, SetupCourier, CreateCourier, CreateDefaultVehicle,
         PostTerminal, SetupTerminal, CreateHub, ActivateUser, Reads, Goes, Ends
  <2> QED BY <2>1, <2>2, <2>3 DEF Handles
<1> QED BY <1>2, <1>3

(* A user that is gone, and a cut, stay so.                                 *)
LEMMA ExcuseStays ==
  ASSUME AccountsInv, [Next]_vars, row # "none"
  PROVE  /\ row' # "none"
         /\ Excused => Excused'
<1>0. stops \in Nat /\ row \in {"none", "made", "deleted"}
  BY BoundsAreCounts DEF AccountsInv, TablesOK
<1>1. stops' \in {stops, stops + 1} /\ row' \in {row, "deleted"}
  <2>1. ASSUME NEW q \in Request, Handles(q)
        PROVE  stops' \in {stops, stops + 1} /\ row' = row
    <3>1. CASE Register(q) \/ Verify(q) \/ SignIn(q) \/ Reset(q)
      BY <3>1 DEF Register, RegisterUser, StoreLetter, Verify, VerifyToken, ReadLetters,
           DeleteLetters, VerifyEmail, SignIn, Login, UpdateLastLogin, Reset, ResetPassword,
           ResetStores, VerifyPassword, MarkAsUsed, RevokeUserTokens, tables, history, bounds
    <3>2. CASE PatchUser(q) \/ PatchStatus(q) \/ Stop(q)
      BY <3>2 DEF PatchUser, ChangePassword, UpdateUser, StoreUser, PatchStatus,
         UpdateUserStatus, Stop,
           tables, history, bounds
    <3>3. CASE PostCourier(q) \/ PostTerminal(q)
      BY <3>3 DEF PostCourier, SetupCourier, CreateCourier, CreateDefaultVehicle,
           PostTerminal, SetupTerminal, CreateHub, ActivateUser, tables, history, bounds
    <3> QED BY <2>1, <3>1, <3>2, <3>3 DEF Handles
  <2>2. CASE Aside \/ UNCHANGED vars
    BY <2>2 DEF Aside, Logout, DeleteUser, ExpireLetter, ForgotPassword, ExpireCode, vars,
         tables, history, bounds
  <2> QED BY <2>1, <2>2, NextSplits
<1> QED BY <1>0, <1>1 DEF Excused, Exists

LEMMA NothingYet ==
  ASSUME AccountsInv, Fresh, [Next]_vars, row = "none"
  PROVE  UNCHANGED <<letter, setBy>> /\ (row' = "none" => UNCHANGED req)
<1>1. letter = "none" /\ setBy = {} /\ \A q \in Request : req[q].pc = "idle"
  BY DEF Fresh
<1>2. ASSUME NEW q \in Request, Handles(q)
      PROVE  RegisterUser(q)
  <2>1. CASE Register(q) \/ Verify(q) \/ SignIn(q) \/ Reset(q)
    BY <1>1, <2>1 DEF Register, StoreLetter, Verify, VerifyToken, ReadLetters,
         DeleteLetters, VerifyEmail, SignIn, Login, UpdateLastLogin, Reset, ResetPassword,
         ResetStores, VerifyPassword, MarkAsUsed, RevokeUserTokens, Begins, Opens, Exists
  <2>2. CASE PatchUser(q) \/ PatchStatus(q) \/ Stop(q)
    BY <1>1, <2>2 DEF PatchUser, ChangePassword, UpdateUser, StoreUser, PatchStatus,
         UpdateUserStatus, Stop, Begins, Opens, Exists
  <2>3. CASE PostCourier(q) \/ PostTerminal(q)
    BY <1>1, <2>3 DEF PostCourier, SetupCourier, CreateCourier, CreateDefaultVehicle,
         PostTerminal, SetupTerminal, CreateHub, ActivateUser, Begins, Opens, Exists
  <2> QED BY <1>2, <2>1, <2>2, <2>3 DEF Handles
<1>3. CASE Aside \/ UNCHANGED vars
  BY <1>1, <1>3 DEF Aside, Logout, DeleteUser, ExpireLetter, ForgotPassword, ExpireCode,
       vars, tables, history, bounds, Exists
<1> QED BY <1>2, <1>3, NextSplits DEF RegisterUser, history

(* A request that is to verify or to mark does so or is cut off.            *)
LEMMA DueIsNext ==
  ASSUME NEW q \in Request, Handles(q)
  PROVE  /\ req[q].pc = "verifying" => VerifyEmail(q) \/ Stop(q)
         /\ req[q].pc = "checking" => VerifyPassword(q) \/ Stop(q)
         /\ req[q].pc = "marking" => MarkAsUsed(q) \/ Stop(q)
<1>1. CASE Register(q) \/ Verify(q)
  BY <1>1 DEF Register, RegisterUser, StoreLetter, Verify, VerifyToken, ReadLetters,
       DeleteLetters, VerifyEmail, Begins, Opens
<1>2. CASE SignIn(q)
  BY <1>2 DEF SignIn, Login, UpdateLastLogin, Begins, Opens
<1>3. CASE Reset(q)
  <2>1. \/ req[q].pc \in {"idle", "resetting", "revoking"}
        \/ VerifyPassword(q) /\ req[q].pc = "checking"
        \/ MarkAsUsed(q) /\ req[q].pc = "marking"
    BY <1>3 DEF Reset, ResetPassword, ResetStores, VerifyPassword, MarkAsUsed,
         RevokeUserTokens, Begins, Opens
  <2> QED BY <2>1
<1>4. CASE PatchUser(q) \/ PatchStatus(q) \/ Stop(q)
  BY <1>4 DEF PatchUser, ChangePassword, UpdateUser, StoreUser, PatchStatus,
         UpdateUserStatus, Begins, Opens
<1>5. CASE PostCourier(q) \/ PostTerminal(q)
  BY <1>5 DEF PostCourier, SetupCourier, CreateCourier, CreateDefaultVehicle,
       PostTerminal, SetupTerminal, CreateHub, ActivateUser, Begins, Opens
<1> QED BY <1>1, <1>2, <1>3, <1>4, <1>5 DEF Handles

(* Only the request that owes it deletes the token or stores a password.    *)
LEMMA DueIsNew ==
  ASSUME AccountsInv, [Next]_vars
  PROVE  /\ letter' = "gone" => letter = "gone" \/ \E q \in Request : DeleteLetters(q)
         /\ setBy' = setBy \/ \E q \in Request : ResetStores(q) /\ Exists
<1>1. ASSUME NEW q \in Request, Handles(q)
      PROVE  /\ letter' \in {letter, "open"} \/ DeleteLetters(q)
             /\ setBy' = setBy \/ (ResetStores(q) /\ Exists)
  <2>1. CASE Register(q) \/ Verify(q)
    BY <2>1 DEF Register, RegisterUser, StoreLetter, CreateLetter, Verify, VerifyToken,
         ReadLetters, DeleteLetters, VerifyEmail, tables, history, bounds
  <2>2. CASE SignIn(q) \/ Reset(q)
    BY <2>2 DEF SignIn, Login, UpdateLastLogin, Reset, ResetPassword, ResetStores,
         VerifyPassword, MarkAsUsed, RevokeUserTokens, tables, history, bounds
  <2>3. CASE PatchUser(q) \/ PatchStatus(q) \/ Stop(q)
    BY <2>3 DEF PatchUser, ChangePassword, UpdateUser, StoreUser, PatchStatus,
         UpdateUserStatus, Stop, tables, history, bounds
  <2>4. CASE PostCourier(q) \/ PostTerminal(q)
    BY <2>4 DEF PostCourier, SetupCourier, CreateCourier, CreateDefaultVehicle,
         PostTerminal, SetupTerminal, CreateHub, ActivateUser, tables, history, bounds
  <2> QED BY <1>1, <2>1, <2>2, <2>3, <2>4 DEF Handles
<1>2. CASE Aside \/ UNCHANGED vars
  BY <1>2 DEF Aside, Logout, DeleteUser, ExpireLetter, ForgotPassword, ExpireCode, vars,
       tables, history, bounds
<1> QED BY <1>1, <1>2, NextSplits

(* What a step leaves undone was done or excused, or is still to be done.   *)
LEMMA StillDue ==
  ASSUME AccountsInv, [Next]_vars, row # "none", NEW p \in Request
  PROVE  /\ req[p].pc = "verifying" =>
              \/ req'[p].pc = "verifying"
              \/ user'.verified \/ Excused'
         /\ \A c \in Code : req[p].pc \in {"checking", "marking"} /\ req[p].item = c =>
              \/ req'[p].pc \in {"checking", "marking"} /\ req'[p].item = c
              \/ code'[c] = "used" \/ c \in overtaken' \/ Excused'
<1>0. user \in UserRow /\ code \in [Code -> CodeStatus] /\ stops \in Nat
  BY BoundsAreCounts DEF AccountsInv, TablesOK
<1>1. CASE req'[p] = req[p]
  BY <1>1
<1>2. CASE VerifyEmail(p)
  BY <1>0, <1>2 DEF VerifyEmail, UserRow, Excused, Exists
<1>3. CASE MarkAsUsed(p)
  BY <1>0, <1>3 DEF MarkAsUsed, Excused, Exists
<1>7. CASE VerifyPassword(p)
  <2>1. CASE ~Exists
    BY <1>7, <2>1 DEF VerifyPassword, tables, history, bounds, Excused, Exists
  <2>2. CASE user.password # req[p].write.password
    <3>1. req[p].item \in overtaken
      BY <1>7, <2>2 DEF VerifyPassword, AccountsInv, InHand, PasswordInHand
    <3> QED BY <1>7, <3>1 DEF VerifyPassword, history
  <2>3. CASE Exists /\ user.password = req[p].write.password
    <3>1. req' = [req EXCEPT ![p] = [Idle EXCEPT !.pc = "marking", !.item = req[p].item]]
      BY <1>7, <2>3 DEF VerifyPassword
    <3>2. req[p].item \in Code
      BY <1>7 DEF VerifyPassword, AccountsInv, InHand, CodeInHand
    <3>3. Holds([Idle EXCEPT !.pc = "marking", !.item = req[p].item], "marking", NewUser,
                req[p].item)
      BY <3>2, HoldingTyped DEF Stage
    <3>4. req'[p].pc = "marking" /\ req'[p].item = req[p].item
      BY <3>1, <3>3 DEF Holds, AccountsInv, AccountsTypeOK
    <3> QED BY <1>7, <3>4 DEF VerifyPassword
  <2> QED BY <2>1, <2>2, <2>3
<1>4. CASE Stop(p)
  <2>1. stops' > 0
    BY <1>0, <1>4 DEF Stop
  <2> QED BY <2>1 DEF Excused
<1>5. CASE Aside \/ UNCHANGED vars
  BY <1>1, <1>5 DEF Aside, Logout, DeleteUser, ExpireLetter, ForgotPassword, ExpireCode,
       vars
<1>6. ASSUME NEW q \in Request, Handles(q)
      PROVE  \/ req'[p] = req[p]
             \/ req[p].pc \notin {"verifying", "checking", "marking"}
             \/ VerifyEmail(p) \/ VerifyPassword(p) \/ MarkAsUsed(p) \/ Stop(p)
  BY <1>6, OnlyOneMoves, DueIsNext
<1> QED BY <1>1, <1>2, <1>3, <1>4, <1>5, <1>6, <1>7, NextSplits

LEMMA UsedStays ==
  ASSUME AccountsInv, [Next]_vars, NEW c \in Code, code[c] = "used"
  PROVE  code'[c] = "used"
<1>0. code \in [Code -> CodeStatus]
  BY DEF AccountsInv, TablesOK
<1>1. CASE UNCHANGED code
  BY <1>1
<1>2. CASE \E q \in Request : MarkAsUsed(q)
  BY <1>0, <1>2 DEF MarkAsUsed
<1>3. CASE Aside \/ UNCHANGED vars
  BY <1>0, <1>3 DEF Aside, Logout, DeleteUser, ExpireLetter, ForgotPassword, CreateCode,
       ExpireCode, vars, tables, history, bounds
<1>4. ASSUME NEW q \in Request, Handles(q)
      PROVE  UNCHANGED code \/ MarkAsUsed(q)
  <2>1. CASE Register(q) \/ Verify(q)
    BY <2>1 DEF Register, RegisterUser, StoreLetter, Verify, VerifyToken, ReadLetters,
         DeleteLetters, VerifyEmail, tables, history, bounds
  <2>2. CASE SignIn(q) \/ Reset(q)
    BY <2>2 DEF SignIn, Login, UpdateLastLogin, Reset, ResetPassword, ResetStores,
         VerifyPassword, RevokeUserTokens, tables, history, bounds
  <2>3. CASE PatchUser(q) \/ PatchStatus(q) \/ Stop(q)
    BY <2>3 DEF PatchUser, ChangePassword, UpdateUser, StoreUser, PatchStatus,
         UpdateUserStatus, Stop, tables, history, bounds
  <2>4. CASE PostCourier(q) \/ PostTerminal(q)
    BY <2>4 DEF PostCourier, SetupCourier, CreateCourier, CreateDefaultVehicle,
         PostTerminal, SetupTerminal, CreateHub, ActivateUser, tables, history, bounds
  <2> QED BY <1>4, <2>1, <2>2, <2>3, <2>4 DEF Handles
<1> QED BY <1>1, <1>2, <1>3, <1>4, NextSplits

LEMMA OvertakenStays ==
  ASSUME AccountsInv, [Next]_vars
  PROVE  overtaken \subseteq overtaken'
<1>1. ASSUME NEW q \in Request, Handles(q)
      PROVE  overtaken \subseteq overtaken'
  <2>1. CASE Register(q) \/ Verify(q)
    BY <2>1 DEF Register, RegisterUser, StoreLetter, Verify, VerifyToken, ReadLetters,
         DeleteLetters, VerifyEmail, history
  <2>2. CASE SignIn(q) \/ Reset(q)
    BY <2>2 DEF SignIn, Login, UpdateLastLogin, Reset, ResetPassword, ResetStores,
         VerifyPassword, MarkAsUsed, RevokeUserTokens, history
  <2>3. CASE PatchUser(q) \/ PatchStatus(q) \/ Stop(q)
    BY <2>3 DEF PatchUser, ChangePassword, UpdateUser, StoreUser, PatchStatus,
         UpdateUserStatus, Stop, history
  <2>4. CASE PostCourier(q) \/ PostTerminal(q)
    BY <2>4 DEF PostCourier, SetupCourier, CreateCourier, CreateDefaultVehicle,
         PostTerminal, SetupTerminal, CreateHub, ActivateUser, history
  <2> QED BY <1>1, <2>1, <2>2, <2>3, <2>4 DEF Handles
<1>2. CASE Aside \/ UNCHANGED vars
  BY <1>2 DEF Aside, Logout, DeleteUser, ExpireLetter, ForgotPassword, ExpireCode, vars,
       history
<1> QED BY <1>1, <1>2, NextSplits

LEMMA DueHolds ==
  ASSUME DueInv, [Next]_vars
  PROVE  DueInv'
<1>0. AccountsInv /\ AccountsInv'
  BY NextHolds DEF DueInv
<1>1. CASE row = "none"
  <2>1. UNCHANGED <<letter, setBy>> /\ (row' = "none" => UNCHANGED req)
    BY <1>0, <1>1, NothingYet DEF DueInv
  <2>2. letter = "none" /\ setBy = {} /\ \A q \in Request : req[q].pc = "idle"
    BY <1>1 DEF DueInv, Fresh
  <2> QED BY <1>0, <2>1, <2>2 DEF DueInv, Fresh, AnswersDue, LetterAnswered, CodeAnswered
<1>2. CASE row # "none"
  <2>1. row' # "none" /\ (Excused => Excused')
    BY <1>0, <1>2, ExcuseStays
  <2>2. LetterAnswered'
    <3>1. CASE \E q \in Request : DeleteLetters(q)
      <4>1. PICK q \in Request : DeleteLetters(q)
        BY <3>1
      <4>2. req'[q].pc = "verifying"
        BY <1>0, <4>1, GoesOn DEF DeleteLetters, AccountsInv, Stage
      <4> QED BY <4>2 DEF LetterAnswered
    <3>2. CASE letter = "gone"
      <4>1. user.verified => user'.verified
        BY <1>0, StepVerified DEF AccountsInv
      <4> QED BY <1>0, <1>2, <2>1, <3>2, <4>1, StillDue
              DEF DueInv, AnswersDue, LetterAnswered
    <3> QED BY <1>0, <3>1, <3>2, DueIsNew DEF LetterAnswered
  <2>3. ASSUME NEW c \in Code, c \in setBy'
        PROVE  CodeAnswered(c)'
    <3>1. CASE c \in setBy
      <4>1. overtaken \subseteq overtaken'
        BY <1>0, OvertakenStays
      <4> QED BY <1>0, <1>2, <2>1, <3>1, <4>1, StillDue, UsedStays
              DEF DueInv, AnswersDue, CodeAnswered
    <3>2. ASSUME NEW q \in Request, ResetStores(q), Exists, c \notin setBy
          PROVE  CodeAnswered(c)'
      <4>1. req[q].item = c /\ req[q].pc = "resetting"
        BY <2>3, <3>2 DEF ResetStores
      <4>2. Goes(q, "checking")
        BY <3>2 DEF ResetStores
      <4>3. req'[q].pc = "checking" /\ req'[q].item = c
        BY <1>0, <4>1, <4>2, GoesOn DEF AccountsInv, Stage
      <4> QED BY <4>3 DEF CodeAnswered
    <3> QED BY <1>0, <2>3, <3>1, <3>2, DueIsNew
  <2>4. AnswersDue'
    BY <2>2, <2>3 DEF AnswersDue, CodeAnswered
  <2> QED BY <1>0, <2>1, <2>4 DEF DueInv, Fresh
<1> QED BY <1>1, <1>2

(* A verification token is deleted only by a request that verified the      *)
(* e-mail or is about to, and a reset code that changed the password is     *)
(* marked or about to be, unless another request replaced that password     *)
(* before it was verified, a request was cut off or the user deleted: what  *)
(* fairness then makes happen (auth_service_impl.py:317-333,                *)
(* verification_token_service.py:110-131).                                  *)
THEOREM WhatIsDueIsPending == Spec => []AnswersDue
<1>1. Init => DueInv
  <2>1. Init => Fresh /\ AnswersDue
    BY RecordsTyped DEF Init, Fresh, AnswersDue, LetterAnswered, CodeAnswered
  <2> QED BY <2>1, InitHolds DEF DueInv
<1>2. DueInv => AnswersDue
  BY DEF DueInv
<1> QED BY <1>1, <1>2, DueHolds, PTL DEF Spec
=============================================================================
