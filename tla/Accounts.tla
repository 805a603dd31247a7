------------------------------ MODULE Accounts ------------------------------
(***************************************************************************)
(* One user of the system: its row, its refresh tokens, its password reset *)
(* codes, its e-mail verification and the courier, vehicle and terminal    *)
(* that it sets up (core/services/user_service.py, auth_service_impl.py,   *)
(* verification_token_service.py, courier_service.py and                   *)
(* terminal_service.py).                                                   *)
(*                                                                         *)
(* One step per commit of a repository; requests overlap, and one may end  *)
(* after any of its commits.  An update of the user row writes all fields  *)
(* as the request read them, or, when the session still holds that row,    *)
(* the fields that differ from it.                                         *)
(*                                                                         *)
(* Limits: names and addresses are left out, and a password is a model     *)
(* value whose hash it verifies; so are the failures of the mail server.   *)
(* The refresh of an access token is no action: it commits nothing, so its *)
(* revocation and its new token are rolled back.  Nor is the request for   *)
(* another verification mail, which calls the service with an argument     *)
(* that it does not take and fails.                                        *)
(***************************************************************************)
EXTENDS Naturals

CONSTANTS
  Token,       \* refresh tokens
  Code,        \* password reset codes
  Password,    \* the passwords that are chosen after the registration
  Request,     \* slots for requests that overlap
  Nil,
  Chosen,      \* the statuses that an instance lets an administrator set
  MaxRequests, \* bounds of the model on the requests that are begun
  MaxStops     \* and on those that are cut off

ASSUME NilIsFree == Nil \notin Token \cup Code \cup Password
ASSUME ChosenAreStatuses == Chosen \subseteq {"active", "inactive", "deleted"}
ASSUME BoundsAreCounts == MaxRequests \in Nat /\ MaxStops \in Nat

VARIABLES
  row,       \* whether the row of the user is there
  user,      \* its fields
  token,     \* table refresh_tokens
  code,      \* table password_reset_codes
  letter,    \* its row in user_verification_tokens
  fleet,     \* which of its courier, vehicle and terminal have a row
  setBy,     \* the codes that changed the password
  overtaken, \* those whose password another request replaced before it was verified
  req,       \* requests in progress
  begun,     \* how many were begun
  stops      \* how many were cut off

tables == <<row, user, token, code, letter, fleet>>
history == <<setBy, overtaken>>
bounds == <<begun, stops>>
vars == <<tables, history, req, bounds>>

UserStatus == {"active", "inactive", "deleted"}
TokenStatus == {"none", "live", "revoked"}
CodeStatus == {"none", "sent", "expired", "used"}
LetterStatus == {"none", "open", "expired", "gone"}
Part == {"courier", "vehicle", "terminal"}

UserRow ==
  [status: UserStatus, verified: BOOLEAN,
   courier: BOOLEAN,     \* is_courier_profile_completed
   terminal: BOOLEAN,    \* is_terminal_setup_completed
   password: Password \cup {Nil}]   \* Nil: that of the registration

(* The fields that an update of the row writes.                             *)
Column == {"status", "courier", "terminal", "password"}

Requests ==
  [pc: {"idle", "mailing", "login", "resetting", "checking", "marking", "revoking",
        "storing", "opening", "deleting", "verifying", "courier", "vehicle", "terminal",
        "activating"},
   write: UserRow,           \* the row as the request will store it
   changed: SUBSET Column,   \* where it differs from the one in the session
   item: Token \cup Code \cup {Nil}]

NewUser ==
  [status |-> "inactive", verified |-> FALSE, courier |-> FALSE, terminal |-> FALSE,
   password |-> Nil]

Idle == [pc |-> "idle", write |-> NewUser, changed |-> {}, item |-> Nil]

(* Before registration nothing is there.                                    *)
Init ==
  /\ row = "none"
  /\ user = NewUser
  /\ token = [t \in Token |-> "none"]
  /\ code = [c \in Code |-> "none"]
  /\ letter = "none"
  /\ fleet = {}
  /\ setBy = {}
  /\ overtaken = {}
  /\ req = [q \in Request |-> Idle]
  /\ begun = 0 /\ stops = 0

-----------------------------------------------------------------------------
(* Repositories                                                            *)

Exists == row = "made"

Goes(q, pc) == req' = [req EXCEPT ![q].pc = pc]
Ends(q) == req' = [req EXCEPT ![q] = Idle]
Opens(q) == req[q].pc = "idle" /\ begun < MaxRequests /\ begun' = begun + 1
Begins(q) == Opens(q) /\ Exists

(* get_by_id: the request goes on with the row as it is, changed here.      *)
Reads(q, pc, write, changed) ==
  req' = [req EXCEPT ![q] = [pc |-> pc, write |-> write, changed |-> changed,
                             item |-> Nil]]

(* Mutant of Stores: the verification is written with the other fields.     *)
StoresEverything(q) == user' = req[q].write

(* UserRepositoryImp.update: every column, or those that differ from the    *)
(* row in the session; the verification of the e-mail is no such column.    *)
Stores(q) ==
  \E columns \in {Column, req[q].changed} :
    user' = [f \in DOMAIN user |->
      IF f \in columns THEN req[q].write[f] ELSE user[f]]

(* The codes whose requests will no longer find the password they stored.   *)
Overtaken(q) ==
  {c \in Code : \E p \in Request \ {q} :
     req[p].pc = "checking" /\ req[p].item = c /\ user'.password # req[p].write.password}

(* A row for a user that was deleted cannot be made.                        *)
CreateToken(t) == token' = IF Exists THEN [token EXCEPT ![t] = "live"] ELSE token
CreateCode(c) == code' = [code EXCEPT ![c] = "sent"]
CreateLetter == letter' = IF Exists THEN "open" ELSE letter

Revoked == [t \in Token |-> IF token[t] = "live" THEN "revoked" ELSE token[t]]

-----------------------------------------------------------------------------
(* Registration and verification                                           *)

(* The mail is sent with a token that is stored after the user.             *)
RegisterUser(q) ==
  /\ row = "none"
  /\ Opens(q)
  /\ row' = "made"
  /\ Goes(q, "mailing")
  /\ UNCHANGED <<user, token, code, letter, fleet, history, stops>>

StoreLetter(q) ==
  /\ req[q].pc = "mailing"
  /\ CreateLetter
  /\ Ends(q)
  /\ UNCHANGED <<row, user, token, code, fleet, history, bounds>>

ExpireLetter ==
  /\ letter = "open"
  /\ letter' = "expired"
  /\ UNCHANGED <<row, user, token, code, fleet, history, req, bounds>>

(* verify_token, verify_user_email: the token is looked up and checked, the *)
(* user's tokens are looked up, deleted, and then the row is written.       *)
VerifyToken(q) ==
  /\ Begins(q)
  /\ letter = "open"
  /\ Goes(q, "opening")
  /\ UNCHANGED <<tables, history, stops>>

ReadLetters(q) ==
  /\ req[q].pc = "opening"
  /\ IF letter \in {"open", "expired"} THEN Goes(q, "deleting") ELSE Ends(q)
  /\ UNCHANGED <<tables, history, bounds>>

DeleteLetters(q) ==
  /\ req[q].pc = "deleting"
  /\ letter' = "gone"
  /\ Goes(q, "verifying")
  /\ UNCHANGED <<row, user, token, code, fleet, history, bounds>>

(* Mutant of VerifyEmail: the tokens were deleted, and that was all.        *)
VerifyNothing(q) ==
  /\ req[q].pc = "verifying"
  /\ Ends(q)
  /\ UNCHANGED <<tables, history, bounds>>

VerifyEmail(q) ==
  /\ req[q].pc = "verifying"
  /\ user' = IF Exists THEN [user EXCEPT !.verified = TRUE] ELSE user
  /\ Ends(q)
  /\ UNCHANGED <<row, token, code, letter, fleet, history, bounds>>

-----------------------------------------------------------------------------
(* Sessions                                                                *)

(* The password is verified, and then the token and the time of the login   *)
(* are committed together.                                                  *)
Login(q, t) ==
  /\ Begins(q)
  /\ token[t] = "none"
  /\ \A r \in Request : req[r].item # t
  /\ req' = [req EXCEPT ![q] = [Idle EXCEPT !.pc = "login", !.item = t]]
  /\ UNCHANGED <<tables, history, stops>>

UpdateLastLogin(q) ==
  /\ req[q].pc = "login"
  /\ CreateToken(req[q].item)
  /\ Ends(q)
  /\ UNCHANGED <<row, user, code, letter, fleet, history, bounds>>

Logout ==
  /\ Exists
  /\ token' = Revoked
  /\ UNCHANGED <<row, user, code, letter, fleet, history, req, bounds>>

-----------------------------------------------------------------------------
(* Passwords                                                               *)

ForgotPassword(c) ==
  /\ Exists
  /\ code[c] = "none"
  /\ CreateCode(c)
  /\ UNCHANGED <<row, user, token, letter, fleet, history, req, bounds>>

ExpireCode(c) ==
  /\ code[c] = "sent"
  /\ code' = [code EXCEPT ![c] = "expired"]
  /\ UNCHANGED <<row, user, token, letter, fleet, history, req, bounds>>

(* Mutant of ResetPassword: the code is marked as soon as it is checked.    *)
ResetPasswordMarksFirst(q, c, new) ==
  /\ Begins(q)
  /\ code[c] = "sent"
  /\ code' = [code EXCEPT ![c] = "used"]
  /\ req' = [req EXCEPT ![q] =
       [pc |-> "resetting", write |-> [user EXCEPT !.password = new],
        changed |-> {"password"}, item |-> c]]
  /\ UNCHANGED <<row, user, token, letter, fleet, history, stops>>

(* reset_password: the code is checked, the row is stored, the password is  *)
(* verified against the row as it then is, the code is marked and the       *)
(* sessions are revoked, with a commit of each.                             *)
ResetPassword(q, c, new) ==
  /\ Begins(q)
  /\ code[c] = "sent"
  /\ req' = [req EXCEPT ![q] =
       [pc |-> "resetting", write |-> [user EXCEPT !.password = new],
        changed |-> {"password"}, item |-> c]]
  /\ UNCHANGED <<tables, history, stops>>

ResetStores(q) ==
  /\ req[q].pc = "resetting"
  /\ IF Exists
     THEN /\ Stores(q)
          /\ setBy' = setBy \cup {req[q].item}
          /\ overtaken' = overtaken \cup Overtaken(q)
          /\ Goes(q, "checking")
     ELSE Ends(q) /\ UNCHANGED <<user, history>>
  /\ UNCHANGED <<row, token, code, letter, fleet, bounds>>

(* The row is fetched again.  Where another request has stored a password   *)
(* since, the reset answers that it failed, and leaves code and sessions.   *)
VerifyPassword(q) ==
  /\ req[q].pc = "checking"
  /\ IF Exists /\ user.password = req[q].write.password
     THEN req' = [req EXCEPT ![q] = [Idle EXCEPT !.pc = "marking", !.item = req[q].item]]
     ELSE Ends(q)
  /\ UNCHANGED <<tables, history, bounds>>

(* Mutant of MarkAsUsed: a code that is marked ends the request.            *)
MarkAsUsedLast(q) ==
  /\ req[q].pc = "marking"
  /\ code' = IF Exists THEN [code EXCEPT ![req[q].item] = "used"] ELSE code
  /\ Ends(q)
  /\ UNCHANGED <<row, user, token, letter, fleet, history, bounds>>

(* A code that was deleted with its user is not found, which is ignored.    *)
MarkAsUsed(q) ==
  /\ req[q].pc = "marking"
  /\ code' = IF Exists THEN [code EXCEPT ![req[q].item] = "used"] ELSE code
  /\ Goes(q, "revoking")
  /\ UNCHANGED <<row, user, token, letter, fleet, history, bounds>>

RevokeUserTokens(q) ==
  /\ req[q].pc = "revoking"
  /\ token' = Revoked
  /\ Ends(q)
  /\ UNCHANGED <<row, user, code, letter, fleet, history, bounds>>

-----------------------------------------------------------------------------
(* Other writers of the row                                                *)

(* The password, in a row that holds the other fields too.                  *)
ChangePassword(q, new) ==
  /\ Begins(q)
  /\ Reads(q, "storing", [user EXCEPT !.password = new], {"password"})
  /\ UNCHANGED <<tables, history, stops>>

(* update_user changes fields that are left out.                            *)
UpdateUser(q) ==
  /\ Begins(q)
  /\ Reads(q, "storing", user, {})
  /\ UNCHANGED <<tables, history, stops>>

UpdateUserStatus(q, status) ==
  /\ Begins(q)
  /\ Reads(q, "storing", [user EXCEPT !.status = status], {"status"})
  /\ UNCHANGED <<tables, history, stops>>

StoreUser(q) ==
  /\ req[q].pc = "storing"
  /\ IF Exists
     THEN Stores(q) /\ overtaken' = overtaken \cup Overtaken(q)
     ELSE UNCHANGED <<user, overtaken>>
  /\ Ends(q)
  /\ UNCHANGED <<row, token, code, letter, fleet, setBy, bounds>>

(* Tokens and codes go with the row; the row of a courier prevents it.      *)
DeleteUser ==
  /\ Exists
  /\ fleet = {}
  /\ row' = "deleted"
  /\ token' = [t \in Token |-> IF token[t] = "live" THEN "revoked" ELSE token[t]]
  /\ code' = [c \in Code |-> IF code[c] = "sent" THEN "expired" ELSE code[c]]
  /\ letter' = IF letter = "open" THEN "expired" ELSE letter
  /\ UNCHANGED <<user, fleet, history, req, bounds>>

-----------------------------------------------------------------------------
(* Set-up                                                                  *)

(* setup_courier: the courier, which is unique to the user, its default     *)
(* vehicle, and the mark in the user row.                                   *)
SetupCourier(q) ==
  /\ Begins(q)
  /\ "courier" \notin fleet
  /\ Reads(q, "courier", [user EXCEPT !.courier = TRUE], {"courier"})
  /\ UNCHANGED <<tables, history, stops>>

(* Mutant of CreateCourier: the mark is stored before the vehicle is made.  *)
CreateCourierOnly(q) ==
  /\ req[q].pc = "courier"
  /\ IF Exists /\ "courier" \notin fleet
     THEN fleet' = fleet \cup {"courier"} /\ Goes(q, "storing")
     ELSE Ends(q) /\ UNCHANGED fleet
  /\ UNCHANGED <<row, user, token, code, letter, history, bounds>>

CreateCourier(q) ==
  /\ req[q].pc = "courier"
  /\ IF Exists /\ "courier" \notin fleet
     THEN fleet' = fleet \cup {"courier"} /\ Goes(q, "vehicle")
     ELSE Ends(q) /\ UNCHANGED fleet
  /\ UNCHANGED <<row, user, token, code, letter, history, bounds>>

CreateDefaultVehicle(q) ==
  /\ req[q].pc = "vehicle"
  /\ fleet' = fleet \cup {"vehicle"}
  /\ Goes(q, "storing")
  /\ UNCHANGED <<row, user, token, code, letter, history, bounds>>

(* setup_terminal: the terminal, the status of the user, and then the row   *)
(* as it was read before the status was written, with its mark.             *)
SetupTerminal(q) ==
  /\ Begins(q)
  /\ "courier" \in fleet
  /\ Reads(q, "terminal", [user EXCEPT !.terminal = TRUE], {"terminal"})
  /\ UNCHANGED <<tables, history, stops>>

CreateHub(q) ==
  /\ req[q].pc = "terminal"
  /\ fleet' = fleet \cup {"terminal"}
  /\ Goes(q, "activating")
  /\ UNCHANGED <<row, user, token, code, letter, history, bounds>>

(* Mutant of ActivateUser: a status that the enum lacks.                    *)
ActivateUserAsVerified(q) ==
  /\ req[q].pc = "activating"
  /\ user' = [user EXCEPT !.status = "verified"]
  /\ Goes(q, "storing")
  /\ UNCHANGED <<row, token, code, letter, fleet, history, bounds>>

ActivateUser(q) ==
  /\ req[q].pc = "activating"
  /\ user' = [user EXCEPT !.status = "active"]
  /\ req' = [req EXCEPT ![q] = [req[q] EXCEPT !.pc = "storing",
       !.changed = @ \cup (IF req[q].write.status = "active" THEN {} ELSE {"status"})]]
  /\ UNCHANGED <<row, token, code, letter, fleet, history, bounds>>

-----------------------------------------------------------------------------
Stop(q) ==
  /\ req[q].pc # "idle"
  /\ stops < MaxStops
  /\ stops' = stops + 1
  /\ Ends(q)
  /\ UNCHANGED <<tables, history, begun>>

(* One operator for each endpoint; those that store the row share the step. *)
Register(q) == RegisterUser(q) \/ StoreLetter(q)

Verify(q) == VerifyToken(q) \/ ReadLetters(q) \/ DeleteLetters(q) \/ VerifyEmail(q)

SignIn(q) == (\E t \in Token : Login(q, t)) \/ UpdateLastLogin(q)

Reset(q) ==
  \/ \E c \in Code, new \in Password : ResetPassword(q, c, new)
  \/ ResetStores(q) \/ VerifyPassword(q) \/ MarkAsUsed(q) \/ RevokeUserTokens(q)

PatchUser(q) ==
  \/ \E new \in Password : ChangePassword(q, new)
  \/ UpdateUser(q) \/ StoreUser(q)

PatchStatus(q) == \E status \in Chosen : UpdateUserStatus(q, status)

PostCourier(q) == SetupCourier(q) \/ CreateCourier(q) \/ CreateDefaultVehicle(q)

PostTerminal(q) == SetupTerminal(q) \/ CreateHub(q) \/ ActivateUser(q)

Next ==
  \/ \E q \in Request :
       \/ Register(q) \/ Verify(q) \/ SignIn(q) \/ Reset(q)
       \/ PatchUser(q) \/ PatchStatus(q) \/ PostCourier(q) \/ PostTerminal(q)
       \/ Stop(q)
  \/ Logout \/ DeleteUser \/ ExpireLetter
  \/ \E c \in Code : ForgotPassword(c) \/ ExpireCode(c)

(* The steps of a request that was begun.                                   *)
Continues(q) ==
  \/ StoreLetter(q) \/ ReadLetters(q) \/ DeleteLetters(q) \/ VerifyEmail(q)
  \/ UpdateLastLogin(q)
  \/ ResetStores(q) \/ VerifyPassword(q) \/ MarkAsUsed(q) \/ RevokeUserTokens(q)
  \/ StoreUser(q)
  \/ CreateCourier(q) \/ CreateDefaultVehicle(q) \/ CreateHub(q) \/ ActivateUser(q)

(* A request that was begun goes on until it ends or is cut off: between    *)
(* two commits it only waits for the database.                              *)
Fairness == \A q \in Request : WF_vars(Continues(q))

Spec == Init /\ [][Next]_vars /\ Fairness

-----------------------------------------------------------------------------
(* Properties                                                              *)

(* Rows and requests hold the statuses the code knows.                      *)
AccountsTypeOK ==
  /\ row \in {"none", "made", "deleted"}
  /\ user \in UserRow
  /\ token \in [Token -> TokenStatus]
  /\ code \in [Code -> CodeStatus]
  /\ letter \in LetterStatus
  /\ fleet \subseteq Part
  /\ setBy \subseteq Code /\ overtaken \subseteq Code
  /\ req \in [Request -> Requests]
  /\ begun \in 0..MaxRequests /\ stops \in 0..MaxStops

(* The marks in the user row, which decide where the app goes on, are never *)
(* ahead of the rows they stand for, however often the row is overwritten   *)
(* with an older one and wherever a set-up is cut off                       *)
(* (courier_service.py:91-100, terminal_service.py:99-107).                 *)
MarksAreTrue ==
  /\ user.courier => {"courier", "vehicle"} \subseteq fleet
  /\ user.terminal => {"courier", "terminal"} \subseteq fleet

(* A code is used up only by a password that was stored: a reset that fails *)
(* or is cut off before leaves it usable (auth_service_impl.py:317-333).    *)
UsedCodeChangedPassword == \A c \in Code : code[c] = "used" => c \in setBy

(* No request that overlaps undoes the verification of the e-mail, although *)
(* each stores the whole row (user_repository.py:118-136, 309-325).         *)
VerificationStays == [][user.verified => user'.verified]_vars

(* A reset that stored its password marks its code and ends the sessions    *)
(* that were open, unless another request replaces that password before it  *)
(* is verified, the reset is cut off or the user is deleted; one that finds *)
(* its password may lose it later and still does both                       *)
(* (auth_service_impl.py:317-337).                                          *)
ResetEndsSessions ==
  \A q \in Request, c \in Code, t \in Token :
    req[q].pc \in {"checking", "marking"} /\ req[q].item = c /\ token[t] = "live"
      ~> \/ token[t] = "revoked" /\ code[c] = "used"
         \/ req[q].pc = "checking" /\ user.password # req[q].write.password
         \/ stops > 0
         \/ ~Exists

(* A verification token that is gone has verified the e-mail, unless the    *)
(* request was cut off (verification_token_service.py:110-131).             *)
LetterIsNotWasted == letter = "gone" ~> user.verified \/ stops > 0 \/ ~Exists
=============================================================================
