------------------------------ MODULE Accounts ------------------------------
(***************************************************************************)
(* auth-service: an account is opened by proving an e-mail address with a  *)
(* code sent to it and registering a passkey, its address is changed by    *)
(* proving another one, and each login with the passkey adds a session     *)
(* with a refresh token.  What a flow knows between two requests is in     *)
(* Redis under a key that expires; codes go through a stream to the e-mail *)
(* worker of notification-service.  Each step is one Redis command or SQL  *)
(* statement, with the reads made just before it.  Passkeys and the random *)
(* ids, codes and challenges are taken to be unique.                       *)
(***************************************************************************)
EXTENDS Naturals, FiniteSets

CONSTANTS User,      \* ids of accounts, each generated once
          Address,   \* e-mail addresses
          Ticket,    \* registration ids with their codes, codes of changes, challenges
          Token,     \* refresh tokens
          Handler,   \* requests in flight at once
          NoUser, NoAddress, NoTicket,
          Mixes,     \* what a behaviour is about: the requests clients issue, the
                     \* failures that may be, and the accounts there are at its start
          MaxFaults  \* bound on errors and crashes

ASSUME NullsAssumption == NoUser \notin User /\ NoAddress \notin Address /\ NoTicket \notin Ticket
ASSUME MixAssumption ==
  \A m \in Mixes : \A o \in m.open :
    /\ o.user \in User /\ o.addr \in Address /\ o.code \in Ticket
    /\ \A p \in m.open \ {o} : o.user # p.user /\ o.addr # p.addr /\ o.code # p.code
ASSUME FaultAssumption == MaxFaults \in Nat

VARIABLES
  ops,          \* the requests clients issue in this behaviour
  email,        \* users.email, NoAddress without a row
  registration, \* registration:<id>, the address its code was made for
  verified,     \* verified:<id>, the address the code was presented for
  regSession,   \* webauthn:reg:<id>, the account to be
  change,       \* email_change:<user>: the new address and its code
  login,        \* webauthn:login:<user>: the challenge
  token,        \* refresh_tokens: whose each is
  known,        \* ids, codes, challenges and tokens generated so far
  asked,        \* per challenge, the account and address of the client that has it
  proof,        \* ghost: per account, the code its address was proven with
  passkey,      \* ghost: per token, whose passkey opened the session
  mail, post,   \* pinz:auth:email:tasks: not read, and read by the e-mail worker
  inbox,        \* per code, the address it was delivered to
  req,          \* the requests in flight
  faults

redisVars == <<registration, verified, regSession, change, login>>
rowVars   == <<email, token>>
ghostVars == <<known, asked, proof, passkey>>
mailVars  == <<mail, post, inbox>>
accountVars == <<ops, rowVars, redisVars, ghostVars, mailVars, req, faults>>

------------------------------------------------------------------------------

Live(u)      == email[u] # NoAddress
Taken(a)     == \E u \in User : email[u] = a
TakenByOther(u, a) == \E v \in User \ {u} : email[v] = a

\* What is generated next: any id is as good as another, as is any idle handler.
Some(S)  == CHOOSE x \in S : TRUE
CanMake(S)  == ~(S \subseteq known)
New(S)      == Some(S \ known)

NoChange  == [to |-> NoAddress, code |-> NoTicket]
NoAsk     == [user |-> NoUser, addr |-> NoAddress]
NoRequest == [pc |-> "idle", user |-> NoUser, addr |-> NoAddress, code |-> NoTicket]
Idle(h)     == req[h].pc = "idle"
At(h, pc)   == req[h].pc = pc
Goto(h, pc) == req' = [req EXCEPT ![h].pc = pc]
Finish(h)   == req' = [req EXCEPT ![h] = NoRequest]

Begin(h, op, pc, u, a, t) ==
  /\ op \in ops /\ Idle(h) /\ h = Some({i \in Handler : Idle(i)})
  /\ req' = [req EXCEPT ![h] = [pc |-> pc, user |-> u, addr |-> a, code |-> t]]

Fault == "fail" \in ops /\ faults < MaxFaults /\ faults' = faults + 1

\* The request has a code only if its message was read.
Received(t) == inbox[t] # NoAddress

------------------------------------------------------------------------------
(* SubmitEmail: the address is free; the key, the e-mail.                   *)

SubmitEmail(h, a) ==
  /\ ~Taken(a) /\ CanMake(Ticket)
  /\ Begin(h, "register", "storeCode", NoUser, a, New(Ticket))
  /\ known' = known \cup {New(Ticket)}
  /\ UNCHANGED <<ops, rowVars, redisVars, asked, proof, passkey, mailVars, faults>>

StoreCode(h) ==
  /\ At(h, "storeCode")
  /\ registration' = [registration EXCEPT ![req[h].code] = req[h].addr]
  /\ Goto(h, "enqueue")
  /\ UNCHANGED <<ops, rowVars, verified, regSession, change, login, ghostVars, mailVars, faults>>

\* XADD; a failure is logged and the client told that all is well.
Enqueue(h) ==
  LET r == req[h] IN
  /\ At(h, "enqueue")
  /\ \/ mail' = mail \cup {[to |-> r.addr, code |-> r.code, user |-> r.user]} /\ UNCHANGED faults
     \/ Fault /\ UNCHANGED mail
  /\ Finish(h)
  /\ UNCHANGED <<ops, rowVars, redisVars, ghostVars, post, inbox>>

(* VerifyEmailCode, with the right code; a wrong one changes nothing.       *)
VerifyEmailCode(h, t) ==
  /\ registration[t] # NoAddress /\ Received(t)
  /\ Begin(h, "register", "setVerified", NoUser, registration[t], t)
  /\ UNCHANGED <<ops, rowVars, redisVars, ghostVars, mailVars, faults>>

SetVerified(h) ==
  /\ At(h, "setVerified")
  /\ verified' = [verified EXCEPT ![req[h].code] = req[h].addr]
  /\ Goto(h, "dropCode")
  /\ UNCHANGED <<ops, rowVars, registration, regSession, change, login, ghostVars, mailVars, faults>>

\* An error of a deletion is not looked at.
DropCode(h) ==
  /\ At(h, "dropCode")
  /\ \/ registration' = [registration EXCEPT ![req[h].code] = NoAddress] /\ UNCHANGED faults
     \/ Fault /\ UNCHANGED registration
  /\ Finish(h)
  /\ UNCHANGED <<ops, rowVars, verified, regSession, change, login, ghostVars, mailVars>>

(* PasskeyRegisterBegin: an id for the account to be.                       *)
PasskeyRegisterBegin(h, t) ==
  /\ verified[t] # NoAddress /\ CanMake(User)
  /\ Begin(h, "register", "storeRegSession", New(User), NoAddress, t)
  /\ known' = known \cup {New(User)}
  /\ UNCHANGED <<ops, rowVars, redisVars, asked, proof, passkey, mailVars, faults>>

StoreRegSession(h) ==
  /\ At(h, "storeRegSession")
  /\ regSession' = [regSession EXCEPT ![req[h].code] = req[h].user]
  /\ Finish(h)
  /\ UNCHANGED <<ops, rowVars, registration, verified, change, login, ghostVars, mailVars, faults>>

(* PasskeyRegisterFinish, with a passkey for the session in Redis: one for  *)
(* a session begun before it is refused.                                    *)
PasskeyRegisterFinish(h, t) ==
  /\ verified[t] # NoAddress /\ regSession[t] # NoUser
  /\ Begin(h, "register", "createUser", regSession[t], verified[t], t)
  /\ UNCHANGED <<ops, rowVars, redisVars, ghostVars, mailVars, faults>>

\* One transaction: the id and the address are unique.
CreateUserWithCredential(h) ==
  LET r == req[h] IN
  /\ At(h, "createUser")
  /\ IF ~Live(r.user) /\ ~Taken(r.addr)
       THEN /\ email' = [email EXCEPT ![r.user] = r.addr]
            /\ proof' = [proof EXCEPT ![r.user] = r.code]
            /\ Goto(h, "dropSession")
       ELSE UNCHANGED <<email, proof>> /\ Finish(h)
  /\ UNCHANGED <<ops, token, redisVars, known, asked, passkey, mailVars, faults>>

DropSession(h) ==
  /\ At(h, "dropSession")
  /\ \/ /\ verified' = [verified EXCEPT ![req[h].code] = NoAddress]
        /\ regSession' = [regSession EXCEPT ![req[h].code] = NoUser]
        /\ UNCHANGED faults
     \/ Fault /\ UNCHANGED <<verified, regSession>>
  /\ Goto(h, "addSession")
  /\ UNCHANGED <<ops, rowVars, registration, change, login, ghostVars, mailVars>>

\* Whose passkey the client that sent the request has.
PasskeyOf(r) == IF asked[r.code] # NoAsk THEN asked[r.code].user ELSE r.user

\* issueTokens; a session needs the row of its user.
AddSession(h) ==
  LET r == req[h]
      k == New(Token) IN
  /\ At(h, "addSession") /\ CanMake(Token)
  /\ IF Live(r.user)
       THEN /\ token' = [token EXCEPT ![k] = r.user]
            /\ passkey' = [passkey EXCEPT ![k] = PasskeyOf(r)]
            /\ known' = known \cup {k}
       ELSE UNCHANGED <<token, passkey, known>>
  /\ Finish(h)
  /\ UNCHANGED <<ops, email, redisVars, asked, proof, mailVars, faults>>

------------------------------------------------------------------------------
(* ChangeEmail and ConfirmEmailChange.  Access tokens outlive the account.  *)

WasOpened(u) == proof[u] # NoTicket

ChangeEmail(h, u, a) ==
  /\ WasOpened(u) /\ ~TakenByOther(u, a) /\ CanMake(Ticket)
  /\ Begin(h, "change", "storeChange", u, a, New(Ticket))
  /\ known' = known \cup {New(Ticket)}
  /\ UNCHANGED <<ops, rowVars, redisVars, asked, proof, passkey, mailVars, faults>>

StoreChange(h) ==
  LET r == req[h] IN
  /\ At(h, "storeChange")
  /\ change' = [change EXCEPT ![r.user] = [to |-> r.addr, code |-> r.code]]
  /\ Goto(h, "enqueue")
  /\ UNCHANGED <<ops, rowVars, registration, verified, regSession, login, ghostVars, mailVars, faults>>

ConfirmEmailChange(h, u) ==
  /\ change[u] # NoChange /\ Received(change[u].code)
  /\ Begin(h, "change", "updateEmail", u, change[u].to, change[u].code)
  /\ UNCHANGED <<ops, rowVars, redisVars, ghostVars, mailVars, faults>>

\* mutant: the new address is read again when it is written
UpdateEmailAsStored(h) ==
  LET u == req[h].user
      a == IF change[u] = NoChange THEN req[h].addr ELSE change[u].to IN
  /\ At(h, "updateEmail")
  /\ IF Live(u) /\ ~TakenByOther(u, a)
       THEN /\ email' = [email EXCEPT ![u] = a]
            /\ proof' = [proof EXCEPT ![u] = req[h].code]
            /\ Goto(h, "dropChange")
       ELSE UNCHANGED <<email, proof>> /\ Finish(h)
  /\ UNCHANGED <<ops, token, redisVars, known, asked, passkey, mailVars, faults>>
UpdateEmail(h) ==
  LET r == req[h] IN
  /\ At(h, "updateEmail")
  /\ IF Live(r.user) /\ ~TakenByOther(r.user, r.addr)
       THEN /\ email' = [email EXCEPT ![r.user] = r.addr]
            /\ proof' = [proof EXCEPT ![r.user] = r.code]
            /\ Goto(h, "dropChange")
       ELSE UNCHANGED <<email, proof>> /\ Finish(h)
  /\ UNCHANGED <<ops, token, redisVars, known, asked, passkey, mailVars, faults>>

DropChange(h) ==
  /\ At(h, "dropChange")
  /\ \/ change' = [change EXCEPT ![req[h].user] = NoChange] /\ UNCHANGED faults
     \/ Fault /\ UNCHANGED change
  /\ Finish(h)
  /\ UNCHANGED <<ops, rowVars, registration, verified, regSession, login, ghostVars, mailVars>>

------------------------------------------------------------------------------
(* PasskeyLoginBegin and PasskeyLoginFinish: the client names the address   *)
(* again, which may by then be another account's.                           *)

PasskeyLoginBegin(h, u) ==
  /\ Live(u) /\ CanMake(Ticket)
  /\ Begin(h, "login", "storeLogin", u, email[u], New(Ticket))
  /\ known' = known \cup {New(Ticket)}
  /\ UNCHANGED <<ops, rowVars, redisVars, asked, proof, passkey, mailVars, faults>>

StoreLogin(h) ==
  LET r == req[h] IN
  /\ At(h, "storeLogin")
  /\ login' = [login EXCEPT ![r.user] = r.code]
  /\ asked' = [asked EXCEPT ![r.code] = [user |-> r.user, addr |-> r.addr]]
  /\ Finish(h)
  /\ UNCHANGED <<ops, rowVars, registration, verified, regSession, change, known, proof, passkey, mailVars, faults>>

\* mutant: the session is found by its challenge, not by its account
LoginFinishByChallenge(h, t) ==
  \E u \in User :
    /\ asked[t] # NoAsk /\ email[u] = asked[t].addr /\ login[asked[t].user] = t
    /\ Begin(h, "login", "dropLogin", u, email[u], t)
    /\ UNCHANGED <<ops, rowVars, redisVars, ghostVars, mailVars, faults>>
\* The challenge must be the one in the session of the account that has the
\* address, and the passkey that account's.
PasskeyLoginFinish(h, t) ==
  \E u \in User :
    /\ email[u] = asked[t].addr /\ login[u] = t /\ asked[t].user = u
    /\ Begin(h, "login", "dropLogin", u, email[u], t)
    /\ UNCHANGED <<ops, rowVars, redisVars, ghostVars, mailVars, faults>>

DropLogin(h) ==
  /\ At(h, "dropLogin")
  /\ \/ login' = [login EXCEPT ![req[h].user] = NoTicket] /\ UNCHANGED faults
     \/ Fault /\ UNCHANGED login
  /\ Goto(h, "addSession")
  /\ UNCHANGED <<ops, rowVars, registration, verified, regSession, change, ghostVars, mailVars>>

(* Logout: the token is found, then its row deleted.                        *)
Logout(k) ==
  /\ "login" \in ops /\ token[k] # NoUser
  /\ token' = [token EXCEPT ![k] = NoUser]
  /\ UNCHANGED <<ops, email, redisVars, ghostVars, mailVars, req, faults>>

\* mutant: the sessions of a deleted account stay
DeleteUserOnly(u) ==
  /\ "delete" \in ops /\ Live(u)
  /\ email' = [email EXCEPT ![u] = NoAddress]
  /\ UNCHANGED <<ops, token, redisVars, ghostVars, mailVars, req, faults>>
\* DeleteAccount: the row, with its sessions.
DeleteAccount(u) ==
  /\ "delete" \in ops /\ Live(u)
  /\ email' = [email EXCEPT ![u] = NoAddress]
  /\ token' = [k \in Token |-> IF token[k] = u THEN NoUser ELSE token[k]]
  /\ UNCHANGED <<ops, redisVars, ghostVars, mailVars, req, faults>>

\* A key's time to live passes.
KeyExpires ==
  /\ "expire" \in ops
  /\ \/ \E t \in Ticket :
          /\ registration' = [registration EXCEPT ![t] = NoAddress]
          /\ UNCHANGED <<verified, regSession, change, login>>
     \/ \E t \in Ticket :
          /\ verified' = [verified EXCEPT ![t] = NoAddress]
          /\ UNCHANGED <<registration, regSession, change, login>>
     \/ \E t \in Ticket :
          /\ regSession' = [regSession EXCEPT ![t] = NoUser]
          /\ UNCHANGED <<registration, verified, change, login>>
     \/ \E u \in User :
          /\ change' = [change EXCEPT ![u] = NoChange]
          /\ UNCHANGED <<registration, verified, regSession, login>>
     \/ \E u \in User :
          /\ login' = [login EXCEPT ![u] = NoTicket]
          /\ UNCHANGED <<registration, verified, regSession, change>>
  /\ UNCHANGED <<ops, rowVars, ghostVars, mailVars, req, faults>>

\* An error, a cancelled context or a crash between two steps.
HandlerFails(h) ==
  /\ ~Idle(h) /\ Fault
  /\ Finish(h)
  /\ UNCHANGED <<ops, rowVars, redisVars, ghostVars, mailVars>>

------------------------------------------------------------------------------
(* RunEmail: what is read is acknowledged, sent or not.                     *)

ReadMail ==
  /\ post = {} /\ mail # {}
  /\ post' = mail /\ mail' = {}
  /\ UNCHANGED <<ops, rowVars, redisVars, ghostVars, inbox, req, faults>>

\* mutant: only messages with a registration_id are sent
SendRegistrationsOnly(m) ==
  /\ m \in post
  /\ inbox' = IF m.user = NoUser THEN [inbox EXCEPT ![m.code] = m.to] ELSE inbox
  /\ post' = post \ {m}
  /\ UNCHANGED <<ops, rowVars, redisVars, ghostVars, mail, req, faults>>
SendVerificationCode(m) ==
  /\ m \in post
  /\ \/ inbox' = [inbox EXCEPT ![m.code] = m.to] /\ UNCHANGED faults
     \/ Fault /\ UNCHANGED inbox
  /\ post' = post \ {m}
  /\ UNCHANGED <<ops, rowVars, redisVars, ghostVars, mail, req>>

------------------------------------------------------------------------------

\* The accounts of the mix are open; their codes have been used.
AccountsInit ==
  \E m \in Mixes :
    LET Of(u)  == {o \in m.open : o.user = u}
        Sent(t) == {o \in m.open : o.code = t}
    IN
    /\ ops = m.ops
    /\ email = [u \in User |-> IF Of(u) = {} THEN NoAddress ELSE Some(Of(u)).addr]
    /\ proof = [u \in User |-> IF Of(u) = {} THEN NoTicket ELSE Some(Of(u)).code]
    /\ inbox = [t \in Ticket |-> IF Sent(t) = {} THEN NoAddress ELSE Some(Sent(t)).addr]
    /\ known = {o.user : o \in m.open} \cup {o.code : o \in m.open}
    /\ registration = [t \in Ticket |-> NoAddress]
    /\ verified = [t \in Ticket |-> NoAddress]
    /\ regSession = [t \in Ticket |-> NoUser]
    /\ change = [u \in User |-> NoChange]
    /\ login = [u \in User |-> NoTicket]
    /\ token = [k \in Token |-> NoUser]
    /\ asked = [t \in Ticket |-> NoAsk]
    /\ passkey = [k \in Token |-> NoUser]
    /\ mail = {} /\ post = {}
    /\ req = [h \in Handler |-> NoRequest]
    /\ faults = 0

AccountRequest(h) ==
  \/ \E a \in Address : SubmitEmail(h, a) \/ \E u \in User : ChangeEmail(h, u, a)
  \/ \E t \in Ticket : \/ VerifyEmailCode(h, t) \/ PasskeyRegisterBegin(h, t)
                        \/ PasskeyRegisterFinish(h, t) \/ PasskeyLoginFinish(h, t)
  \/ \E u \in User : ConfirmEmailChange(h, u) \/ PasskeyLoginBegin(h, u)

AccountStep(h) ==
  \/ StoreCode(h) \/ Enqueue(h) \/ SetVerified(h) \/ DropCode(h)
  \/ StoreRegSession(h) \/ CreateUserWithCredential(h) \/ DropSession(h) \/ AddSession(h)
  \/ StoreChange(h) \/ UpdateEmail(h) \/ DropChange(h)
  \/ StoreLogin(h) \/ DropLogin(h)

MailStep == ReadMail \/ \E m \in post : SendVerificationCode(m)

AccountsNext ==
  \/ \E h \in Handler : AccountRequest(h) \/ AccountStep(h) \/ HandlerFails(h)
  \/ \E u \in User : DeleteAccount(u)
  \/ \E k \in Token : Logout(k)
  \/ KeyExpires
  \/ MailStep

\* Requests run to their end and the e-mail worker keeps reading.
AccountsFairness == /\ \A h \in Handler : WF_accountVars(AccountStep(h))
                    /\ WF_accountVars(MailStep)

------------------------------------------------------------------------------
(* Properties                                                               *)

\* The address of an account is one to which a code was delivered that the account
\* then presented, and no two accounts have the same: also when changes of address
\* are begun, confirmed and overwritten at once, and codes are used twice.
EmailProven ==
  \A u \in User : Live(u) => /\ ~TakenByOther(u, email[u])
                              /\ proof[u] # NoTicket /\ inbox[proof[u]] = email[u]

\* A session belongs to the account whose passkey opened it, although addresses
\* move between accounts while a login is under way, and never outlives it.
SessionIsOwners ==
  \A k \in Token : token[k] # NoUser => token[k] = passkey[k] /\ Live(token[k])

\* A code that was put on its way is delivered, whichever of the flows it is for.
CodesArrive ==
  \A t \in Ticket :
    (faults = 0 /\ \E h \in Handler : At(h, "enqueue") /\ req[h].code = t)
      ~> (Received(t) \/ faults > 0)

\* A change of address that was asked for can be confirmed until it is replaced
\* or its time has passed.
ChangeIsKept ==
  [][\A u \in User : change[u] # NoChange /\ change'[u] = NoChange
       => proof[u] = change[u].code]_accountVars
=============================================================================
