------------------------- MODULE NotificationsProofs -------------------------
(***************************************************************************)
(* Accounts next to the notifications: addresses are proven and sessions   *)
(* belong to whose passkey opened them, for every number of accounts,      *)
(* addresses, codes, requests in flight and failures; and with at most one *)
(* failure nothing is pushed twice.                                        *)
(***************************************************************************)
EXTENDS Notifications, SequenceTheorems, TLAPS

------------------------------------------------------------------------------
(* The invariant                                                            *)

AddressOrNone == Address \cup {NoAddress}
UserOrNone    == User \cup {NoUser}
TicketOrNone  == Ticket \cup {NoTicket}
Mail          == [to : Address, code : Ticket, user : UserOrNone]

RowsOK ==
  /\ email \in [User -> AddressOrNone] /\ proof \in [User -> TicketOrNone]
  /\ registration \in [Ticket -> AddressOrNone] /\ verified \in [Ticket -> AddressOrNone]
  /\ regSession \in [Ticket -> UserOrNone]
  /\ change \in [User -> [to : AddressOrNone, code : TicketOrNone]]
  /\ \A u \in User : change[u] # NoChange => change[u].to \in Address /\ change[u].code \in Ticket
  /\ inbox \in [Ticket -> AddressOrNone] /\ mail \subseteq Mail /\ post \subseteq Mail
  /\ asked \in [Ticket -> [user : UserOrNone, addr : AddressOrNone]]
  /\ token \in [Token -> UserOrNone] /\ passkey \in [Token -> UserOrNone]

\* The statements of flows that carry a code for an address, and those that act
\* for an account.
CarryPcs == {"storeCode", "enqueue", "setVerified", "createUser", "storeChange", "updateEmail"}
UserPcs  == {"storeRegSession", "createUser", "dropSession", "addSession", "storeChange",
             "updateEmail", "dropChange", "storeLogin", "dropLogin"}
Pcs == {"idle", "dropCode"} \cup CarryPcs \cup UserPcs

RequestType == [pc : Pcs, user : UserOrNone, addr : AddressOrNone, code : TicketOrNone]
Armed(r) == /\ r.pc # "idle" => r.code \in Ticket
            /\ r.pc \in CarryPcs => r.addr \in Address
            /\ r.pc \in UserPcs => r.user \in User
RequestsOK == /\ req \in [Handler -> RequestType]
              /\ \A h \in Handler : Armed(req[h])

\* Code t was made for address a: some place of a flow says so.
Carries(r, t, a) == r.pc \in CarryPcs /\ r.code = t /\ r.addr = a
Promise(t, a) ==
  \/ registration[t] = a \/ verified[t] = a \/ inbox[t] = a
  \/ \E u \in User : change[u].to = a /\ change[u].code = t
  \/ \E m \in mail \cup post : m.to = a /\ m.code = t
  \/ \E h \in Handler : Carries(req[h], t, a)
\* Ticket t is the challenge of a login.
Challenge(t) == asked[t] # NoAsk \/ \E h \in Handler : At(h, "storeLogin") /\ req[h].code = t

OnePromise == \A t \in Ticket, a, b \in Address : Promise(t, a) /\ Promise(t, b) => a = b
Generated  == \A t \in Ticket :
                Challenge(t) \/ (\E a \in Address : Promise(t, a)) => t \in known
Apart      == \A t \in Ticket, a \in Address : Challenge(t) => ~Promise(t, a)
OneChallenge ==
  /\ \A h \in Handler : At(h, "storeLogin") => asked[req[h].code] = NoAsk
  /\ \A g, h \in Handler :
       At(g, "storeLogin") /\ At(h, "storeLogin") /\ req[g].code = req[h].code => g = h

\* What is verified or about to be written was sent to the address it is for.
IsPresented(r) == r.pc \in {"setVerified", "createUser", "updateEmail"} => inbox[r.code] = r.addr
Presented == /\ \A t \in Ticket : verified[t] # NoAddress => inbox[t] = verified[t]
             /\ \A h \in Handler : IsPresented(req[h])

\* A request about to open a session comes from a registration, or from a login
\* with a challenge of the account.
IsOwned(r) == r.pc \in {"dropSession", "dropLogin", "addSession"} =>
                \/ inbox[r.code] \in Address
                \/ asked[r.code] # NoAsk /\ asked[r.code].user = r.user
Owned == \A h \in Handler : IsOwned(req[h])

Codes == OnePromise /\ Generated /\ Apart
AccountsInv == /\ RowsOK /\ RequestsOK /\ Codes /\ OneChallenge /\ Presented /\ Owned
               /\ EmailProven /\ SessionIsOwners

------------------------------------------------------------------------------
(* Requests move                                                            *)

\* An idle handler is a sound request.
LEMMA NoRequestType == NoRequest \in RequestType /\ Armed(NoRequest)
BY DEF NoRequest, RequestType, Armed, Pcs, CarryPcs, UserPcs, UserOrNone, AddressOrNone,
   TicketOrNone

\* Only the request of one handler moves.
Others(h) == \A g \in Handler \ {h} : req'[g] = req[g]

\* The end of a request moves one handler, and leaves it idle.
LEMMA FinishMoves ==
  ASSUME RequestsOK, NEW h \in Handler, Finish(h)
  PROVE  RequestsOK' /\ Others(h) /\ req'[h] = NoRequest
BY NoRequestType DEF RequestsOK, Finish, Others

\* A request that goes on to its next statement keeps what it carries.
LEMMA GotoMoves ==
  ASSUME RequestsOK, NEW h \in Handler, NEW pc \in Pcs, Goto(h, pc), ~Idle(h),
         pc \in CarryPcs => req[h].addr \in Address, pc \in UserPcs => req[h].user \in User
  PROVE  /\ RequestsOK' /\ Others(h)
         /\ req'[h].pc = pc /\ req'[h].user = req[h].user
         /\ req'[h].addr = req[h].addr /\ req'[h].code = req[h].code
BY DEF RequestsOK, Goto, Others, RequestType, Armed, Idle

\* A request that begins does so at an idle handler.
LEMMA BeginMoves ==
  ASSUME RequestsOK, NEW h \in Handler, NEW op, NEW pc \in Pcs, NEW u \in UserOrNone,
         NEW a \in AddressOrNone, NEW t \in Ticket, Begin(h, op, pc, u, a, t),
         pc \in CarryPcs => a \in Address, pc \in UserPcs => u \in User
  PROVE  /\ RequestsOK' /\ Others(h) /\ Idle(h)
         /\ req'[h] = [pc |-> pc, user |-> u, addr |-> a, code |-> t]
BY DEF RequestsOK, Begin, Others, RequestType, Armed, TicketOrNone

------------------------------------------------------------------------------
(* Codes                                                                    *)

\* Steps that make no code leave the codes as they were.
LEMMA CodesKept ==
  ASSUME Codes, known \subseteq known',
         \A t \in Ticket, a \in Address : Promise(t, a)' => Promise(t, a),
         \A t \in Ticket : Challenge(t)' => Challenge(t)
  PROVE  Codes'
BY DEF Codes, OnePromise, Generated, Apart

\* A new code is promised to one address only.
LEMMA CodeMade ==
  ASSUME Codes, NEW new \in Ticket \ known, NEW addr \in Address, known' = known \cup {new},
         \A t \in Ticket, a \in Address : Promise(t, a)' => Promise(t, a) \/ (t = new /\ a = addr),
         \A t \in Ticket : Challenge(t)' => Challenge(t)
  PROVE  Codes'
BY DEF Codes, OnePromise, Generated, Apart

\* A new challenge is no code.
LEMMA ChallengeMade ==
  ASSUME Codes, NEW new \in Ticket \ known, known' = known \cup {new},
         \A t \in Ticket, a \in Address : Promise(t, a)' => Promise(t, a),
         \A t \in Ticket : Challenge(t)' => Challenge(t) \/ t = new
  PROVE  Codes'
BY DEF Codes, OnePromise, Generated, Apart

\* What is generated was not generated before.
LEMMA NewIsNew ==
  ASSUME NEW S, CanMake(S)
  PROVE  New(S) \in S \ known
BY DEF CanMake, New, Some

\* A step of one request that leaves the rows and what was delivered alone keeps the
\* invariant, if what it carries on is sound.
LEMMA RequestMoves ==
  ASSUME AccountsInv, NEW h \in Handler, RowsOK', RequestsOK', Others(h), Codes',
         UNCHANGED <<email, proof, token, passkey, inbox, asked>>,
         IsPresented(req[h])', IsOwned(req[h])',
         At(h, "storeLogin")' => ~Challenge(req'[h].code),
         \A t \in Ticket : verified'[t] \in {verified[t], NoAddress, inbox[t]}
  PROVE  AccountsInv'
<1> USE DEF AccountsInv
<1>1. OneChallenge'
  BY DEF OneChallenge, Others, At, Challenge
<1>2. Presented'
  <2>1. \A t \in Ticket : verified'[t] # NoAddress => inbox'[t] = verified'[t]
    BY DEF Presented
  <2>2. \A g \in Handler : IsPresented(req[g])'
    BY DEF Presented, Others, IsPresented
  <2>3. QED
    BY <2>1, <2>2 DEF Presented
<1>3. Owned'
  BY DEF Owned, Others, IsOwned
<1>4. EmailProven' /\ SessionIsOwners'
  BY DEF EmailProven, SessionIsOwners, Live, TakenByOther
<1>5. QED
  BY <1>1, <1>2, <1>3, <1>4

------------------------------------------------------------------------------
(* Registration                                                             *)

\* SubmitEmail keeps the invariant: the code it makes is new.
LEMMA Submitted ==
  ASSUME AccountsInv, NEW h \in Handler, NEW a \in Address, SubmitEmail(h, a)
  PROVE  AccountsInv'
<1> USE DEF AccountsInv
<1> DEFINE t == New(Ticket)
<1>1. t \in Ticket \ known
  BY NewIsNew DEF SubmitEmail
<1>2. /\ RequestsOK' /\ Others(h)
      /\ req'[h] = [pc |-> "storeCode", user |-> NoUser, addr |-> a, code |-> t]
  BY <1>1, BeginMoves DEF SubmitEmail, Pcs, CarryPcs, UserPcs, UserOrNone, AddressOrNone
<1>3. known' = known \cup {t} /\ UNCHANGED <<rowVars, redisVars, asked, proof, passkey, mailVars>>
  BY DEF SubmitEmail
<1> HIDE DEF t
<1>4. RowsOK'
  BY <1>3 DEF RowsOK, rowVars, redisVars, mailVars
<1>5. Codes'
  <2>1. \A x \in Ticket, b \in Address : Promise(x, b)' => Promise(x, b) \/ (x = t /\ b = a)
    BY <1>2, <1>3 DEF Promise, Carries, Others, redisVars, mailVars
  <2>2. \A x \in Ticket : Challenge(x)' => Challenge(x)
    BY <1>2, <1>3 DEF Challenge, Others, At
  <2>3. QED
    BY <1>1, <1>3, <2>1, <2>2, CodeMade
<1>6. QED
  BY <1>2, <1>3, <1>4, <1>5, RequestMoves
     DEF rowVars, redisVars, mailVars, IsPresented, IsOwned, At

\* A statement on Redis or the stream of e-mails, of a request that goes on or is
\* over: it stores no more than the request carries.
LEMMA Stores ==
  ASSUME AccountsInv, NEW h \in Handler, ~Idle(h), ~At(h, "storeLogin"), RowsOK', RequestsOK', Others(h),
         UNCHANGED <<email, proof, token, passkey, inbox, asked, known>>,
         \A t \in Ticket, a \in Address : Promise(t, a)' => Promise(t, a),
         ~At(h, "storeLogin")', IsPresented(req[h])', IsOwned(req[h])',
         \A t \in Ticket : verified'[t] \in {verified[t], NoAddress, inbox[t]}
  PROVE  AccountsInv'
<1>1. \A t \in Ticket : Challenge(t)' => Challenge(t)
  BY DEF Challenge, Others, At
<1>2. Codes'
  BY <1>1, CodesKept DEF AccountsInv
<1>3. QED
  BY <1>2, RequestMoves

\* The registration key holds what the request carries.
LEMMA CodeStored ==
  ASSUME AccountsInv, NEW h \in Handler, StoreCode(h)
  PROVE  AccountsInv'
<1> USE DEF AccountsInv
<1>1. At(h, "storeCode") /\ ~Idle(h) /\ req[h].addr \in Address /\ req[h].code \in Ticket
  BY DEF StoreCode, At, Idle, RequestsOK, Armed, CarryPcs
<1>2. /\ RequestsOK' /\ Others(h) /\ req'[h].pc = "enqueue"
      /\ req'[h].addr = req[h].addr /\ req'[h].code = req[h].code
  BY <1>1, GotoMoves DEF StoreCode, Pcs, CarryPcs, UserPcs
<1>3. /\ registration' = [registration EXCEPT ![req[h].code] = req[h].addr]
      /\ UNCHANGED <<rowVars, verified, regSession, change, login, ghostVars, mailVars>>
  BY DEF StoreCode
<1>4. RowsOK'
  BY <1>1, <1>3 DEF RowsOK, rowVars, ghostVars, mailVars, AddressOrNone
<1>5. \A t \in Ticket, a \in Address : Promise(t, a)' => Promise(t, a)
  BY <1>1, <1>2, <1>3 DEF Promise, Carries, CarryPcs, Others, At, mailVars, RowsOK
<1>6. QED
  BY <1>1, <1>2, <1>3, <1>4, <1>5, Stores
     DEF rowVars, ghostVars, mailVars, IsPresented, IsOwned, At

\* An e-mail holds what the request carries, and may be lost.
LEMMA Enqueued ==
  ASSUME AccountsInv, NEW h \in Handler, Enqueue(h)
  PROVE  AccountsInv'
<1> USE DEF AccountsInv
<1> DEFINE m == [to |-> req[h].addr, code |-> req[h].code, user |-> req[h].user]
<1>1. At(h, "enqueue") /\ ~Idle(h) /\ m \in Mail
  BY DEF Enqueue, At, Idle, RequestsOK, RequestType, Armed, CarryPcs, Mail
<1>2. RequestsOK' /\ Others(h) /\ req'[h] = NoRequest
  BY FinishMoves DEF Enqueue
<1>3. /\ mail' \in {mail, mail \cup {m}}
      /\ UNCHANGED <<rowVars, redisVars, ghostVars, post, inbox>>
  BY DEF Enqueue
<1>4. m.to = req[h].addr /\ m.code = req[h].code
  OBVIOUS
<1> HIDE DEF m
<1>5. RowsOK'
  BY <1>1, <1>3 DEF RowsOK, rowVars, redisVars, ghostVars
<1>6. \A t \in Ticket, a \in Address : Promise(t, a)' => Promise(t, a)
  BY <1>1, <1>2, <1>3, <1>4 DEF Promise, Carries, CarryPcs, Others, At, redisVars, NoRequest
<1>7. QED
  BY <1>1, <1>2, <1>3, <1>5, <1>6, Stores
     DEF rowVars, redisVars, ghostVars, IsPresented, IsOwned, At, NoRequest

\* A code that was received and is in Redis was made for one address, and went there.
LEMMA Verifies ==
  ASSUME AccountsInv, NEW h \in Handler, NEW t \in Ticket, VerifyEmailCode(h, t)
  PROVE  AccountsInv'
<1> USE DEF AccountsInv
<1>1. registration[t] \in Address /\ inbox[t] \in Address
  BY DEF VerifyEmailCode, Received, RowsOK, AddressOrNone
<1>2. inbox[t] = registration[t]
  <2>1. Promise(t, inbox[t]) /\ Promise(t, registration[t])
    BY DEF Promise
  <2>2. QED
    BY <1>1, <2>1 DEF Codes, OnePromise
<1>3. /\ RequestsOK' /\ Others(h) /\ Idle(h)
      /\ req'[h] = [pc |-> "setVerified", user |-> NoUser, addr |-> registration[t], code |-> t]
  BY <1>1, BeginMoves DEF VerifyEmailCode, Pcs, CarryPcs, UserPcs, UserOrNone, AddressOrNone
<1>4. UNCHANGED <<rowVars, redisVars, ghostVars, mailVars>>
  BY DEF VerifyEmailCode
<1>5. RowsOK'
  BY <1>4 DEF RowsOK, rowVars, redisVars, ghostVars, mailVars
<1>6. Codes'
  <2>1. \A x \in Ticket, a \in Address : Promise(x, a)' => Promise(x, a)
    BY <1>3, <1>4 DEF Promise, Carries, Others, redisVars, mailVars
  <2>2. \A x \in Ticket : Challenge(x)' => Challenge(x)
    BY <1>3, <1>4 DEF Challenge, Others, At, ghostVars
  <2>3. QED
    BY <1>4, <2>1, <2>2, CodesKept DEF ghostVars
<1>7. QED
  BY <1>2, <1>3, <1>4, <1>5, <1>6, RequestMoves
     DEF rowVars, redisVars, ghostVars, mailVars, IsPresented, IsOwned, At

\* What is marked verified was presented.
LEMMA VerifiedSet ==
  ASSUME AccountsInv, NEW h \in Handler, SetVerified(h)
  PROVE  AccountsInv'
<1> USE DEF AccountsInv
<1>1. At(h, "setVerified") /\ ~Idle(h) /\ req[h].addr \in Address /\ req[h].code \in Ticket
  BY DEF SetVerified, At, Idle, RequestsOK, Armed, CarryPcs
<1>2. inbox[req[h].code] = req[h].addr
  BY <1>1 DEF Presented, IsPresented, At
<1>3. /\ RequestsOK' /\ Others(h) /\ req'[h].pc = "dropCode"
  BY <1>1, GotoMoves DEF SetVerified, Pcs, CarryPcs, UserPcs
<1>4. /\ verified' = [verified EXCEPT ![req[h].code] = req[h].addr]
      /\ UNCHANGED <<rowVars, registration, regSession, change, login, ghostVars, mailVars>>
  BY DEF SetVerified
<1>5. RowsOK'
  BY <1>1, <1>4 DEF RowsOK, rowVars, ghostVars, mailVars, AddressOrNone
<1>6. \A t \in Ticket, a \in Address : Promise(t, a)' => Promise(t, a)
  BY <1>1, <1>3, <1>4 DEF Promise, Carries, CarryPcs, Others, At, mailVars, RowsOK
<1>7. \A t \in Ticket : verified'[t] \in {verified[t], inbox[t]}
  BY <1>1, <1>2, <1>4 DEF RowsOK
<1>8. QED
  BY <1>1, <1>3, <1>4, <1>5, <1>6, <1>7, Stores
     DEF rowVars, ghostVars, mailVars, IsPresented, IsOwned, At

\* The key of a code goes, or stays after an error.
LEMMA CodeDropped ==
  ASSUME AccountsInv, NEW h \in Handler, DropCode(h)
  PROVE  AccountsInv'
<1> USE DEF AccountsInv
<1>1. At(h, "dropCode") /\ ~Idle(h)
  BY DEF DropCode, At, Idle
<1>2. RequestsOK' /\ Others(h) /\ req'[h] = NoRequest
  BY FinishMoves DEF DropCode
<1>3. /\ registration' \in {registration, [registration EXCEPT ![req[h].code] = NoAddress]}
      /\ UNCHANGED <<rowVars, verified, regSession, change, login, ghostVars, mailVars>>
  BY DEF DropCode
<1>4. RowsOK'
  BY <1>3 DEF RowsOK, rowVars, ghostVars, mailVars, AddressOrNone
<1>5. \A t \in Ticket, a \in Address : Promise(t, a)' => Promise(t, a)
  BY <1>1, <1>2, <1>3, NullsAssumption
     DEF Promise, Carries, CarryPcs, Others, At, mailVars, RowsOK, NoRequest
<1>6. QED
  BY <1>1, <1>2, <1>3, <1>4, <1>5, Stores
     DEF rowVars, ghostVars, mailVars, IsPresented, IsOwned, At, NoRequest

\* A registration goes on for a verified address with a new id.
LEMMA RegisterBegun ==
  ASSUME AccountsInv, NEW h \in Handler, NEW t \in Ticket, PasskeyRegisterBegin(h, t)
  PROVE  AccountsInv'
<1> USE DEF AccountsInv
<1>1. New(User) \in User
  BY NewIsNew DEF PasskeyRegisterBegin
<1>2. /\ RequestsOK' /\ Others(h)
      /\ req'[h] = [pc |-> "storeRegSession", user |-> New(User), addr |-> NoAddress, code |-> t]
  BY <1>1, BeginMoves DEF PasskeyRegisterBegin, Pcs, CarryPcs, UserPcs, UserOrNone, AddressOrNone
<1>3. known \subseteq known' /\ UNCHANGED <<rowVars, redisVars, asked, proof, passkey, mailVars>>
  BY DEF PasskeyRegisterBegin
<1>4. RowsOK'
  BY <1>3 DEF RowsOK, rowVars, redisVars, mailVars
<1>5. Codes'
  <2>1. \A x \in Ticket, a \in Address : Promise(x, a)' => Promise(x, a)
    BY <1>2, <1>3 DEF Promise, Carries, CarryPcs, Others, redisVars, mailVars
  <2>2. \A x \in Ticket : Challenge(x)' => Challenge(x)
    BY <1>2, <1>3 DEF Challenge, Others, At
  <2>3. QED
    BY <1>3, <2>1, <2>2, CodesKept
<1>6. QED
  BY <1>2, <1>3, <1>4, <1>5, RequestMoves
     DEF rowVars, redisVars, mailVars, IsPresented, IsOwned, At

\* The passkey session holds the id of the request.
LEMMA RegSessionStored ==
  ASSUME AccountsInv, NEW h \in Handler, StoreRegSession(h)
  PROVE  AccountsInv'
<1> USE DEF AccountsInv
<1>1. At(h, "storeRegSession") /\ ~Idle(h) /\ req[h].user \in User
  BY DEF StoreRegSession, At, Idle, RequestsOK, Armed, UserPcs
<1>2. RequestsOK' /\ Others(h) /\ req'[h] = NoRequest
  BY FinishMoves DEF StoreRegSession
<1>3. /\ regSession' = [regSession EXCEPT ![req[h].code] = req[h].user]
      /\ UNCHANGED <<rowVars, registration, verified, change, login, ghostVars, mailVars>>
  BY DEF StoreRegSession
<1>4. RowsOK'
  BY <1>1, <1>3 DEF RowsOK, rowVars, ghostVars, mailVars, UserOrNone
<1>5. \A t \in Ticket, a \in Address : Promise(t, a)' => Promise(t, a)
  BY <1>2, <1>3 DEF Promise, Carries, CarryPcs, Others, mailVars, NoRequest
<1>6. QED
  BY <1>1, <1>2, <1>3, <1>4, <1>5, Stores
     DEF rowVars, ghostVars, mailVars, IsPresented, IsOwned, At, NoRequest

\* The account to be is for the address that was verified.
LEMMA RegisterFinished ==
  ASSUME AccountsInv, NEW h \in Handler, NEW t \in Ticket, PasskeyRegisterFinish(h, t)
  PROVE  AccountsInv'
<1> USE DEF AccountsInv
<1>1. verified[t] \in Address /\ regSession[t] \in User /\ inbox[t] = verified[t]
  BY DEF PasskeyRegisterFinish, RowsOK, AddressOrNone, UserOrNone, Presented
<1>2. /\ RequestsOK' /\ Others(h)
      /\ req'[h] = [pc |-> "createUser", user |-> regSession[t], addr |-> verified[t], code |-> t]
  BY <1>1, BeginMoves DEF PasskeyRegisterFinish, Pcs, CarryPcs, UserPcs, UserOrNone, AddressOrNone
<1>3. UNCHANGED <<rowVars, redisVars, ghostVars, mailVars>>
  BY DEF PasskeyRegisterFinish
<1>4. RowsOK'
  BY <1>3 DEF RowsOK, rowVars, redisVars, ghostVars, mailVars
<1>5. Codes'
  <2>1. \A x \in Ticket, a \in Address : Promise(x, a)' => Promise(x, a)
    BY <1>2, <1>3 DEF Promise, Carries, Others, redisVars, mailVars
  <2>2. \A x \in Ticket : Challenge(x)' => Challenge(x)
    BY <1>2, <1>3 DEF Challenge, Others, At, ghostVars
  <2>3. QED
    BY <1>3, <2>1, <2>2, CodesKept DEF ghostVars
<1>6. QED
  BY <1>1, <1>2, <1>3, <1>4, <1>5, RequestMoves
     DEF rowVars, redisVars, ghostVars, mailVars, IsPresented, IsOwned, At

\* An account gets an address by a statement that saw it free, with a code that
\* was delivered there.
LEMMA AddressWritten ==
  ASSUME AccountsInv, NEW u \in User, NEW a \in Address, NEW t \in Ticket,
         ~TakenByOther(u, a), inbox[t] = a,
         email' = [email EXCEPT ![u] = a], proof' = [proof EXCEPT ![u] = t],
         UNCHANGED <<token, passkey, inbox>>
  PROVE  EmailProven' /\ SessionIsOwners'
<1> USE NullsAssumption DEF AccountsInv, RowsOK, AddressOrNone, TicketOrNone
<1>1. ASSUME NEW v \in User, Live(v)'
      PROVE  ~TakenByOther(v, email[v])' /\ proof'[v] # NoTicket /\ inbox'[proof'[v]] = email'[v]
  <2>1. CASE v = u
    BY <2>1 DEF TakenByOther
  <2>2. CASE v # u
    <3>1. Live(v) /\ email'[v] = email[v] /\ email[v] # a /\ proof'[v] = proof[v]
      BY <1>1, <2>2 DEF Live, TakenByOther
    <3>2. ~TakenByOther(v, email[v])' /\ proof[v] # NoTicket /\ inbox[proof[v]] = email[v]
      BY <3>1 DEF EmailProven, TakenByOther
    <3>3. QED
      BY <3>1, <3>2
  <2>3. QED
    BY <2>1, <2>2
<1>2. EmailProven'
  BY <1>1 DEF EmailProven
<1>3. \A v \in User : Live(v) => Live(v)'
  BY DEF Live
<1>4. SessionIsOwners'
  BY <1>3 DEF SessionIsOwners, UserOrNone
<1>5. QED
  BY <1>2, <1>4

\* A statement on users goes on with a request that is not at a login.
LEMMA Writes ==
  ASSUME AccountsInv, NEW h \in Handler, RowsOK', RequestsOK', Others(h), known' = known,
         ~Idle(h), ~At(h, "storeLogin"),
         UNCHANGED <<redisVars, mailVars, asked>>, EmailProven', SessionIsOwners',
         req'[h].pc \in {"idle", "dropSession", "dropChange"},
         req'[h].pc = "dropSession" => inbox[req'[h].code] \in Address
  PROVE  AccountsInv'
<1> USE DEF AccountsInv
<1>1. Codes'
  <2>1. \A x \in Ticket, a \in Address : Promise(x, a)' => Promise(x, a)
    BY DEF Promise, Carries, CarryPcs, Others, redisVars, mailVars
  <2>2. \A x \in Ticket : Challenge(x)' => Challenge(x)
    BY DEF Challenge, Others, At
  <2>3. QED
    BY <2>1, <2>2, CodesKept
<1>2. OneChallenge'
  BY DEF OneChallenge, Others, At
<1>3. Presented'
  BY DEF Presented, IsPresented, Others, redisVars, mailVars
<1>4. Owned'
  BY DEF Owned, IsOwned, Others, mailVars
<1>5. QED
  BY <1>1, <1>2, <1>3, <1>4

\* A new account has an address that is free and was proven.
LEMMA UserCreated ==
  ASSUME AccountsInv, NEW h \in Handler, CreateUserWithCredential(h)
  PROVE  AccountsInv'
<1> USE DEF AccountsInv
<1> DEFINE u == req[h].user
           a == req[h].addr
           t == req[h].code
<1>1. At(h, "createUser") /\ ~Idle(h) /\ u \in User /\ a \in Address /\ t \in Ticket
  BY DEF CreateUserWithCredential, At, Idle, RequestsOK, Armed, CarryPcs, UserPcs
<1>2. inbox[t] = a
  BY <1>1 DEF Presented, IsPresented, At
<1>3. UNCHANGED <<token, redisVars, known, asked, passkey, mailVars>>
  BY DEF CreateUserWithCredential
<1>4. CASE ~Live(u) /\ ~Taken(a)
  <2>1. /\ email' = [email EXCEPT ![u] = a] /\ proof' = [proof EXCEPT ![u] = t]
        /\ Goto(h, "dropSession")
    BY <1>4 DEF CreateUserWithCredential
  <2>2. RequestsOK' /\ Others(h) /\ req'[h].pc = "dropSession" /\ req'[h].code = t
    BY <1>1, <2>1, GotoMoves DEF Pcs, CarryPcs, UserPcs
  <2>3. EmailProven' /\ SessionIsOwners'
    <3>1. ~TakenByOther(u, a) /\ UNCHANGED <<token, passkey, inbox>>
      BY <1>3, <1>4 DEF Taken, TakenByOther, mailVars
    <3> HIDE DEF u, a, t
    <3>2. QED
      BY <1>1, <1>2, <2>1, <3>1, AddressWritten
  <2>4. RowsOK'
    BY <1>1, <1>3, <2>1 DEF RowsOK, redisVars, mailVars, AddressOrNone, TicketOrNone
  <2>5. QED
    BY <1>1, <1>2, <1>3, <2>2, <2>3, <2>4, Writes DEF At
<1>5. CASE ~(~Live(u) /\ ~Taken(a))
  <2>1. UNCHANGED <<email, proof>> /\ Finish(h)
    BY <1>5 DEF CreateUserWithCredential
  <2>2. RequestsOK' /\ Others(h) /\ req'[h] = NoRequest
    BY <2>1, FinishMoves
  <2>3. EmailProven' /\ SessionIsOwners'
    BY <1>3, <2>1 DEF EmailProven, SessionIsOwners, Live, TakenByOther, mailVars
  <2>4. RowsOK'
    BY <1>3, <2>1 DEF RowsOK, redisVars, mailVars
  <2>5. QED
    BY <1>1, <1>3, <2>2, <2>3, <2>4, Writes DEF At, NoRequest
<1>6. QED
  BY <1>4, <1>5

\* The keys of a registration go, or stay after an error.
LEMMA SessionDropped ==
  ASSUME AccountsInv, NEW h \in Handler, DropSession(h)
  PROVE  AccountsInv'
<1> USE DEF AccountsInv
<1>1. At(h, "dropSession") /\ ~Idle(h) /\ req[h].user \in User
  BY DEF DropSession, At, Idle, RequestsOK, Armed, UserPcs
<1>2. /\ RequestsOK' /\ Others(h) /\ req'[h].pc = "addSession"
      /\ req'[h].code = req[h].code /\ req'[h].user = req[h].user
  BY <1>1, GotoMoves DEF DropSession, Pcs, CarryPcs, UserPcs
<1>3. /\ verified' \in {verified, [verified EXCEPT ![req[h].code] = NoAddress]}
      /\ regSession' \in {regSession, [regSession EXCEPT ![req[h].code] = NoUser]}
      /\ UNCHANGED <<rowVars, registration, change, login, ghostVars, mailVars>>
  BY DEF DropSession
<1>4. RowsOK'
  BY <1>3 DEF RowsOK, rowVars, ghostVars, mailVars, AddressOrNone, UserOrNone
<1>5. \A t \in Ticket, a \in Address : Promise(t, a)' => Promise(t, a)
  BY <1>2, <1>3, NullsAssumption DEF Promise, Carries, CarryPcs, Others, mailVars, RowsOK
<1>6. IsOwned(req[h])'
  BY <1>1, <1>2, <1>3 DEF Owned, IsOwned, At, ghostVars, mailVars
<1>7. \A t \in Ticket : verified'[t] \in {verified[t], NoAddress}
  BY <1>3 DEF RowsOK
<1>8. QED
  BY <1>1, <1>2, <1>3, <1>4, <1>5, <1>6, <1>7, Stores
     DEF rowVars, ghostVars, mailVars, IsPresented, At

\* A request that is over, or a session that ends, leaves what the flows know alone.
LEMMA SessionsMove ==
  ASSUME AccountsInv, RowsOK', RequestsOK', known \subseteq known',
         \A h \in Handler : req'[h] \in {req[h], NoRequest},
         UNCHANGED <<redisVars, mailVars, asked>>, EmailProven', SessionIsOwners'
  PROVE  AccountsInv'
<1> USE DEF AccountsInv
<1>1. Codes'
  <2>1. \A x \in Ticket, a \in Address : Promise(x, a)' => Promise(x, a)
    BY DEF Promise, Carries, CarryPcs, redisVars, mailVars, NoRequest
  <2>2. \A x \in Ticket : Challenge(x)' => Challenge(x)
    BY DEF Challenge, At, NoRequest
  <2>3. QED
    BY <2>1, <2>2, CodesKept
<1>2. OneChallenge'
  BY DEF OneChallenge, At, NoRequest
<1>3. Presented'
  BY DEF Presented, IsPresented, redisVars, mailVars, NoRequest
<1>4. Owned'
  BY DEF Owned, IsOwned, mailVars, NoRequest
<1>5. QED
  BY <1>1, <1>2, <1>3, <1>4

\* A session is opened for the account whose passkey it was.
LEMMA SessionAdded ==
  ASSUME AccountsInv, NEW h \in Handler, AddSession(h)
  PROVE  AccountsInv'
<1> USE DEF AccountsInv
<1> DEFINE r == req[h]
           k == New(Token)
<1>1. At(h, "addSession") /\ r.user \in User /\ r.code \in Ticket
  BY DEF AddSession, At, RequestsOK, Armed, UserPcs
<1>2. RequestsOK' /\ Others(h) /\ req'[h] = NoRequest
  BY FinishMoves DEF AddSession
<1>3. PasskeyOf(r) = r.user
  <2>1. CASE inbox[r.code] \in Address
    <3>1. ~Challenge(r.code)
      BY <1>1, <2>1 DEF Codes, Apart, Promise
    <3>2. QED
      BY <3>1 DEF Challenge, PasskeyOf
  <2>2. CASE asked[r.code] # NoAsk /\ asked[r.code].user = r.user
    BY <2>2 DEF PasskeyOf
  <2>3. QED
    BY <1>1, <2>1, <2>2 DEF Owned, IsOwned, At
<1>4. k \in Token
  BY NewIsNew DEF AddSession
<1>5. UNCHANGED <<email, redisVars, asked, proof, mailVars>>
  BY DEF AddSession
<1>6. \/ /\ Live(r.user)
         /\ token' = [token EXCEPT ![k] = r.user] /\ passkey' = [passkey EXCEPT ![k] = r.user]
         /\ known \subseteq known'
      \/ UNCHANGED <<token, passkey, known>>
  BY <1>3 DEF AddSession
<1> HIDE DEF r, k
<1>7. SessionIsOwners'
  <2>1. \A u \in User : Live(u) => Live(u)'
    BY <1>5 DEF Live
  <2>2. QED
    BY <1>1, <1>4, <1>6, <2>1 DEF SessionIsOwners, RowsOK, UserOrNone
<1>8. EmailProven'
  BY <1>5 DEF EmailProven, Live, TakenByOther, mailVars
<1>9. RowsOK'
  BY <1>1, <1>4, <1>5, <1>6 DEF RowsOK, UserOrNone, redisVars, mailVars
<1>10. known \subseteq known'
  BY <1>6
<1>11. \A g \in Handler : req'[g] \in {req[g], NoRequest}
  BY <1>2 DEF Others
<1>12. QED
  BY <1>2, <1>5, <1>7, <1>8, <1>9, <1>10, <1>11, SessionsMove

------------------------------------------------------------------------------
(* Changes of address                                                       *)

\* ChangeEmail keeps the invariant: the code it makes is new.
LEMMA ChangeAsked ==
  ASSUME AccountsInv, NEW h \in Handler, NEW u \in User, NEW a \in Address, ChangeEmail(h, u, a)
  PROVE  AccountsInv'
<1> USE DEF AccountsInv
<1> DEFINE t == New(Ticket)
<1>1. t \in Ticket \ known
  BY NewIsNew DEF ChangeEmail
<1>2. /\ RequestsOK' /\ Others(h)
      /\ req'[h] = [pc |-> "storeChange", user |-> u, addr |-> a, code |-> t]
  BY <1>1, BeginMoves DEF ChangeEmail, Pcs, CarryPcs, UserPcs, UserOrNone, AddressOrNone
<1>3. known' = known \cup {t} /\ UNCHANGED <<rowVars, redisVars, asked, proof, passkey, mailVars>>
  BY DEF ChangeEmail
<1> HIDE DEF t
<1>4. RowsOK'
  BY <1>3 DEF RowsOK, rowVars, redisVars, mailVars
<1>5. Codes'
  <2>1. \A x \in Ticket, b \in Address : Promise(x, b)' => Promise(x, b) \/ (x = t /\ b = a)
    BY <1>2, <1>3 DEF Promise, Carries, Others, redisVars, mailVars
  <2>2. \A x \in Ticket : Challenge(x)' => Challenge(x)
    BY <1>2, <1>3 DEF Challenge, Others, At
  <2>3. QED
    BY <1>1, <1>3, <2>1, <2>2, CodeMade
<1>6. QED
  BY <1>2, <1>3, <1>4, <1>5, RequestMoves
     DEF rowVars, redisVars, mailVars, IsPresented, IsOwned, At

\* A change overwrites an earlier one with its own address and code.
LEMMA ChangeStored ==
  ASSUME AccountsInv, NEW h \in Handler, StoreChange(h)
  PROVE  AccountsInv'
<1> USE DEF AccountsInv
<1> DEFINE c == [to |-> req[h].addr, code |-> req[h].code]
<1>1. /\ At(h, "storeChange") /\ ~Idle(h) /\ req[h].user \in User
      /\ req[h].addr \in Address /\ req[h].code \in Ticket
  BY DEF StoreChange, At, Idle, RequestsOK, Armed, CarryPcs, UserPcs
<1>2. /\ RequestsOK' /\ Others(h) /\ req'[h].pc = "enqueue"
      /\ req'[h].addr = req[h].addr /\ req'[h].code = req[h].code
  BY <1>1, GotoMoves DEF StoreChange, Pcs, CarryPcs, UserPcs
<1>3. /\ change' = [change EXCEPT ![req[h].user] = c]
      /\ UNCHANGED <<rowVars, registration, verified, regSession, login, ghostVars, mailVars>>
  BY DEF StoreChange
<1>4. /\ c \in [to : AddressOrNone, code : TicketOrNone] /\ c.to = req[h].addr /\ c.code = req[h].code
  BY <1>1 DEF AddressOrNone, TicketOrNone
<1> HIDE DEF c
<1>5. RowsOK'
  BY <1>1, <1>3, <1>4 DEF RowsOK, rowVars, ghostVars, mailVars
<1>6. \A t \in Ticket, a \in Address : Promise(t, a)' => Promise(t, a)
  <2>1. \A u \in User : change'[u] \in {change[u], c}
    BY <1>3 DEF RowsOK
  <2>2. Promise(c.code, c.to)
    BY <1>1, <1>4 DEF Promise, Carries, CarryPcs, At
  <2>3. \A t, a : Carries(req[h], t, a)' => t = c.code /\ a = c.to
    BY <1>2, <1>4 DEF Carries
  <2>4. UNCHANGED <<registration, verified, mail, post, inbox>>
    BY <1>3 DEF mailVars
  <2>5. QED
    BY <1>2, <2>1, <2>2, <2>3, <2>4 DEF Promise, Others
<1>7. QED
  BY <1>1, <1>2, <1>3, <1>5, <1>6, Stores
     DEF rowVars, ghostVars, mailVars, IsPresented, IsOwned, At

\* A confirmed change is for the address its code was delivered to.
LEMMA ChangeConfirmed ==
  ASSUME AccountsInv, NEW h \in Handler, NEW u \in User, ConfirmEmailChange(h, u)
  PROVE  AccountsInv'
<1> USE DEF AccountsInv
<1> DEFINE t == change[u].code
           a == change[u].to
<1>1. t \in Ticket /\ a \in Address /\ inbox[t] \in Address
  BY DEF ConfirmEmailChange, Received, RowsOK, AddressOrNone
<1>2. inbox[t] = a
  <2>1. Promise(t, inbox[t]) /\ Promise(t, a)
    BY DEF Promise
  <2>2. QED
    BY <1>1, <2>1 DEF Codes, OnePromise
<1>3. /\ RequestsOK' /\ Others(h)
      /\ req'[h] = [pc |-> "updateEmail", user |-> u, addr |-> a, code |-> t]
  BY <1>1, BeginMoves DEF ConfirmEmailChange, Pcs, CarryPcs, UserPcs, UserOrNone, AddressOrNone
<1>4. UNCHANGED <<rowVars, redisVars, ghostVars, mailVars>>
  BY DEF ConfirmEmailChange
<1>5. RowsOK'
  BY <1>4 DEF RowsOK, rowVars, redisVars, ghostVars, mailVars
<1>6. Codes'
  <2>1. \A x \in Ticket, b \in Address : Promise(x, b)' => Promise(x, b)
    BY <1>3, <1>4 DEF Promise, Carries, Others, redisVars, mailVars
  <2>2. \A x \in Ticket : Challenge(x)' => Challenge(x)
    BY <1>3, <1>4 DEF Challenge, Others, At, ghostVars
  <2>3. QED
    BY <1>4, <2>1, <2>2, CodesKept DEF ghostVars
<1> HIDE DEF t, a
<1>7. QED
  BY <1>2, <1>3, <1>4, <1>5, <1>6, RequestMoves
     DEF rowVars, redisVars, ghostVars, mailVars, IsPresented, IsOwned, At

\* The address written is the one the confirmed code was for.
LEMMA EmailUpdated ==
  ASSUME AccountsInv, NEW h \in Handler, UpdateEmail(h)
  PROVE  AccountsInv'
<1> USE DEF AccountsInv
<1> DEFINE u == req[h].user
           a == req[h].addr
           t == req[h].code
<1>1. At(h, "updateEmail") /\ ~Idle(h) /\ u \in User /\ a \in Address /\ t \in Ticket
  BY DEF UpdateEmail, At, Idle, RequestsOK, Armed, CarryPcs, UserPcs
<1>2. inbox[t] = a
  BY <1>1 DEF Presented, IsPresented, At
<1>3. UNCHANGED <<token, redisVars, known, asked, passkey, mailVars>>
  BY DEF UpdateEmail
<1>4. CASE Live(u) /\ ~TakenByOther(u, a)
  <2>1. /\ email' = [email EXCEPT ![u] = a] /\ proof' = [proof EXCEPT ![u] = t]
        /\ Goto(h, "dropChange")
    BY <1>4 DEF UpdateEmail
  <2>2. RequestsOK' /\ Others(h) /\ req'[h].pc = "dropChange"
    BY <1>1, <2>1, GotoMoves DEF Pcs, CarryPcs, UserPcs
  <2>3. EmailProven' /\ SessionIsOwners'
    <3>1. UNCHANGED <<token, passkey, inbox>>
      BY <1>3 DEF mailVars
    <3> HIDE DEF u, a, t
    <3>2. QED
      BY <1>1, <1>2, <1>4, <2>1, <3>1, AddressWritten
  <2>4. RowsOK'
    BY <1>1, <1>3, <2>1 DEF RowsOK, redisVars, mailVars, AddressOrNone, TicketOrNone
  <2>5. QED
    BY <1>1, <1>3, <2>2, <2>3, <2>4, Writes DEF At
<1>5. CASE ~(Live(u) /\ ~TakenByOther(u, a))
  <2>1. UNCHANGED <<email, proof>> /\ Finish(h)
    BY <1>5 DEF UpdateEmail
  <2>2. RequestsOK' /\ Others(h) /\ req'[h] = NoRequest
    BY <2>1, FinishMoves
  <2>3. EmailProven' /\ SessionIsOwners'
    BY <1>3, <2>1 DEF EmailProven, SessionIsOwners, Live, TakenByOther, mailVars
  <2>4. RowsOK'
    BY <1>3, <2>1 DEF RowsOK, redisVars, mailVars
  <2>5. QED
    BY <1>1, <1>3, <2>2, <2>3, <2>4, Writes DEF At, NoRequest
<1>6. QED
  BY <1>4, <1>5

\* The key of a change goes, or stays after an error.
LEMMA ChangeDropped ==
  ASSUME AccountsInv, NEW h \in Handler, DropChange(h)
  PROVE  AccountsInv'
<1> USE DEF AccountsInv
<1>1. At(h, "dropChange") /\ ~Idle(h)
  BY DEF DropChange, At, Idle
<1>2. RequestsOK' /\ Others(h) /\ req'[h] = NoRequest
  BY FinishMoves DEF DropChange
<1>3. /\ change' \in {change, [change EXCEPT ![req[h].user] = NoChange]}
      /\ UNCHANGED <<rowVars, registration, verified, regSession, login, ghostVars, mailVars>>
  BY DEF DropChange
<1>4. NoChange \in [to : AddressOrNone, code : TicketOrNone] /\ NoChange.to = NoAddress
  BY DEF NoChange, AddressOrNone, TicketOrNone
<1>5. RowsOK'
  BY <1>3, <1>4 DEF RowsOK, rowVars, ghostVars, mailVars
<1>6. \A t \in Ticket, a \in Address : Promise(t, a)' => Promise(t, a)
  <2>1. \A u \in User : change'[u] \in {change[u], NoChange}
    BY <1>3 DEF RowsOK
  <2>2. \A u \in User, a \in Address : change'[u].to = a => change'[u] = change[u]
    BY <1>4, <2>1, NullsAssumption
  <2>3. UNCHANGED <<registration, verified, mail, post, inbox>>
    BY <1>3 DEF mailVars
  <2>4. QED
    BY <1>2, <2>2, <2>3 DEF Promise, Carries, CarryPcs, Others, NoRequest
<1>7. QED
  BY <1>1, <1>2, <1>3, <1>5, <1>6, Stores
     DEF rowVars, ghostVars, mailVars, IsPresented, IsOwned, At, NoRequest

------------------------------------------------------------------------------
(* Logins                                                                   *)

\* PasskeyLoginBegin keeps the invariant: the challenge it makes is new.
LEMMA LoginBegun ==
  ASSUME AccountsInv, NEW h \in Handler, NEW u \in User, PasskeyLoginBegin(h, u)
  PROVE  AccountsInv'
<1> USE DEF AccountsInv
<1> DEFINE t == New(Ticket)
<1>1. t \in Ticket \ known
  BY NewIsNew DEF PasskeyLoginBegin
<1>2. /\ RequestsOK' /\ Others(h)
      /\ req'[h] = [pc |-> "storeLogin", user |-> u, addr |-> email[u], code |-> t]
  <2>1. email[u] \in AddressOrNone /\ u \in UserOrNone
    BY DEF RowsOK, UserOrNone
  <2>2. "storeLogin" \in Pcs /\ "storeLogin" \notin CarryPcs
    BY DEF Pcs, CarryPcs, UserPcs
  <2>3. Begin(h, "login", "storeLogin", u, email[u], t)
    BY DEF PasskeyLoginBegin
  <2> HIDE DEF t
  <2>4. QED
    BY <1>1, <2>1, <2>2, <2>3, BeginMoves
<1>3. known' = known \cup {t} /\ UNCHANGED <<rowVars, redisVars, asked, proof, passkey, mailVars>>
  BY DEF PasskeyLoginBegin
<1> HIDE DEF t
<1>4. RowsOK'
  BY <1>3 DEF RowsOK, rowVars, redisVars, mailVars
<1>5. Codes'
  <2>1. \A x \in Ticket, a \in Address : Promise(x, a)' => Promise(x, a)
    BY <1>2, <1>3 DEF Promise, Carries, CarryPcs, Others, redisVars, mailVars
  <2>2. \A x \in Ticket : Challenge(x)' => Challenge(x) \/ x = t
    BY <1>2, <1>3 DEF Challenge, Others, At
  <2>3. QED
    BY <1>1, <1>3, <2>1, <2>2, ChallengeMade
<1>6. ~Challenge(t)
  BY <1>1 DEF Codes, Generated
<1>7. QED
  BY <1>2, <1>3, <1>4, <1>5, <1>6, RequestMoves
     DEF rowVars, redisVars, mailVars, IsPresented, IsOwned

\* The challenge is asked once, so that it is one client's.
LEMMA LoginStored ==
  ASSUME AccountsInv, NEW h \in Handler, StoreLogin(h)
  PROVE  AccountsInv'
<1> USE DEF AccountsInv
<1> DEFINE t == req[h].code
           q == [user |-> req[h].user, addr |-> req[h].addr]
<1>1. At(h, "storeLogin") /\ t \in Ticket /\ q \in [user : UserOrNone, addr : AddressOrNone]
  BY DEF StoreLogin, At, RequestsOK, RequestType, Armed
<1>2. RequestsOK' /\ Others(h) /\ req'[h] = NoRequest
  BY FinishMoves DEF StoreLogin
<1>3. /\ asked' = [asked EXCEPT ![t] = q]
      /\ UNCHANGED <<rowVars, registration, verified, regSession, change, known, proof, passkey, mailVars>>
  BY DEF StoreLogin
<1>4. asked[t] = NoAsk /\ \A g \in Handler \ {h} : ~(At(g, "storeLogin") /\ req[g].code = t)
  BY <1>1 DEF OneChallenge
<1>5. Challenge(t)
  BY <1>1 DEF Challenge
<1> HIDE DEF q
<1>6. RowsOK'
  BY <1>1, <1>3 DEF RowsOK, rowVars, mailVars
<1>7. \A x \in Ticket : x # t => asked'[x] = asked[x]
  BY <1>3 DEF RowsOK
<1> HIDE DEF t
<1>8. Codes'
  <2>1. \A x \in Ticket, a \in Address : Promise(x, a)' => Promise(x, a)
    BY <1>2, <1>3 DEF Promise, Carries, CarryPcs, Others, mailVars, NoRequest
  <2>2. \A x \in Ticket : Challenge(x)' => Challenge(x)
    BY <1>2, <1>5, <1>7 DEF Challenge, Others, At, NoRequest
  <2>3. QED
    BY <1>3, <2>1, <2>2, CodesKept
<1>9. OneChallenge'
  <2>1. \A g \in Handler : At(g, "storeLogin")' =>
          g # h /\ At(g, "storeLogin") /\ req'[g] = req[g] /\ req[g].code \in Ticket /\ req[g].code # t
    BY <1>2, <1>4 DEF At, Others, NoRequest, RequestsOK, Armed
  <2>2. QED
    BY <1>7, <2>1 DEF OneChallenge
<1>10. Presented'
  BY <1>2, <1>3 DEF Presented, IsPresented, Others, mailVars, NoRequest
<1>11. Owned'
  <2>1. ASSUME NEW g \in Handler, g # h, req[g].pc \in {"dropSession", "dropLogin", "addSession"}
        PROVE  IsOwned(req[g])'
    <3>1. req[g].code \in Ticket /\ req'[g] = req[g]
      BY <1>2, <2>1 DEF Others, RequestsOK, Armed
    <3>2. CASE inbox[req[g].code] \in Address
      BY <1>3, <3>1, <3>2 DEF IsOwned, mailVars
    <3>3. CASE asked[req[g].code] # NoAsk /\ asked[req[g].code].user = req[g].user
      BY <1>4, <1>7, <3>1, <3>3 DEF IsOwned
    <3>4. QED
      BY <2>1, <3>2, <3>3 DEF Owned, IsOwned
  <2>2. QED
    BY <1>2, <2>1 DEF Owned, IsOwned, Others, NoRequest
<1>12. EmailProven' /\ SessionIsOwners'
  BY <1>3 DEF EmailProven, SessionIsOwners, Live, TakenByOther, rowVars, mailVars
<1>13. QED
  BY <1>2, <1>6, <1>8, <1>9, <1>10, <1>11, <1>12

\* A login is finished for the account its challenge was made for.
LEMMA LoginFinished ==
  ASSUME AccountsInv, NEW h \in Handler, NEW t \in Ticket, PasskeyLoginFinish(h, t)
  PROVE  AccountsInv'
<1> USE DEF AccountsInv
<1>1. PICK u \in User :
        /\ email[u] = asked[t].addr /\ login[u] = t /\ asked[t].user = u
        /\ Begin(h, "login", "dropLogin", u, email[u], t)
        /\ UNCHANGED <<ops, rowVars, redisVars, ghostVars, mailVars, faults>>
  BY DEF PasskeyLoginFinish
<1>2. asked[t] # NoAsk
  BY <1>1, NullsAssumption DEF NoAsk
<1>3. /\ RequestsOK' /\ Others(h)
      /\ req'[h] = [pc |-> "dropLogin", user |-> u, addr |-> email[u], code |-> t]
  <2>1. email[u] \in AddressOrNone /\ u \in UserOrNone
    BY DEF RowsOK, UserOrNone
  <2>2. "dropLogin" \in Pcs /\ "dropLogin" \notin CarryPcs
    BY DEF Pcs, CarryPcs, UserPcs
  <2>3. QED
    BY <1>1, <2>1, <2>2, BeginMoves
<1>4. RowsOK'
  BY <1>1 DEF RowsOK, rowVars, redisVars, ghostVars, mailVars
<1>5. Codes'
  <2>1. \A x \in Ticket, a \in Address : Promise(x, a)' => Promise(x, a)
    BY <1>1, <1>3 DEF Promise, Carries, CarryPcs, Others, redisVars, mailVars
  <2>2. \A x \in Ticket : Challenge(x)' => Challenge(x)
    BY <1>1, <1>3 DEF Challenge, Others, At, ghostVars
  <2>3. QED
    BY <1>1, <2>1, <2>2, CodesKept DEF ghostVars
<1>6. IsOwned(req[h])'
  BY <1>1, <1>2, <1>3 DEF IsOwned, ghostVars
<1>7. QED
  BY <1>1, <1>3, <1>4, <1>5, <1>6, RequestMoves
     DEF rowVars, redisVars, ghostVars, mailVars, IsPresented, At

\* The challenge goes, or stays after an error; the session is still to be opened.
LEMMA LoginDropped ==
  ASSUME AccountsInv, NEW h \in Handler, DropLogin(h)
  PROVE  AccountsInv'
<1> USE DEF AccountsInv
<1>1. At(h, "dropLogin") /\ ~Idle(h) /\ req[h].user \in User
  BY DEF DropLogin, At, Idle, RequestsOK, Armed, UserPcs
<1>2. /\ RequestsOK' /\ Others(h) /\ req'[h].pc = "addSession"
      /\ req'[h].code = req[h].code /\ req'[h].user = req[h].user
  BY <1>1, GotoMoves DEF DropLogin, Pcs, CarryPcs, UserPcs
<1>3. UNCHANGED <<rowVars, registration, verified, regSession, change, ghostVars, mailVars>>
  BY DEF DropLogin
<1>4. RowsOK'
  BY <1>3 DEF RowsOK, rowVars, ghostVars, mailVars
<1>5. \A t \in Ticket, a \in Address : Promise(t, a)' => Promise(t, a)
  BY <1>2, <1>3 DEF Promise, Carries, CarryPcs, Others, mailVars
<1>6. IsOwned(req[h])'
  BY <1>1, <1>2, <1>3 DEF Owned, IsOwned, At, ghostVars, mailVars
<1>7. QED
  BY <1>1, <1>2, <1>3, <1>4, <1>5, <1>6, Stores
     DEF rowVars, ghostVars, mailVars, IsPresented, At

\* Logout, the deletion of an account and the failure of a request keep the invariant.
LEMMA SessionEnds ==
  ASSUME AccountsInv,
         \/ \E k \in Token : Logout(k)
         \/ \E u \in User : DeleteAccount(u)
         \/ \E h \in Handler : HandlerFails(h)
  PROVE  AccountsInv'
<1> USE DEF AccountsInv
<1>1. ASSUME NEW k \in Token, Logout(k)
      PROVE  AccountsInv'
  <2>1. /\ token' = [token EXCEPT ![k] = NoUser]
        /\ UNCHANGED <<email, redisVars, ghostVars, mailVars, req>>
    BY <1>1 DEF Logout
  <2>2. RowsOK' /\ RequestsOK'
    BY <2>1 DEF RowsOK, RequestsOK, UserOrNone, redisVars, ghostVars, mailVars
  <2>3. EmailProven' /\ SessionIsOwners'
    BY <2>1 DEF EmailProven, SessionIsOwners, Live, TakenByOther, RowsOK, ghostVars, mailVars
  <2>4. QED
    BY <2>1, <2>2, <2>3, SessionsMove DEF ghostVars
<1>2. ASSUME NEW u \in User, DeleteAccount(u)
      PROVE  AccountsInv'
  <2>1. /\ email' = [email EXCEPT ![u] = NoAddress]
        /\ token' = [k \in Token |-> IF token[k] = u THEN NoUser ELSE token[k]]
        /\ UNCHANGED <<redisVars, ghostVars, mailVars, req>>
    BY <1>2 DEF DeleteAccount
  <2>2. RowsOK' /\ RequestsOK'
    BY <2>1 DEF RowsOK, RequestsOK, UserOrNone, AddressOrNone, redisVars, ghostVars, mailVars
  <2>3. EmailProven'
    BY <2>1 DEF EmailProven, Live, TakenByOther, RowsOK, ghostVars, mailVars
  <2>4. SessionIsOwners'
    BY <2>1 DEF SessionIsOwners, Live, RowsOK, UserOrNone, ghostVars
  <2>5. QED
    BY <2>1, <2>2, <2>3, <2>4, SessionsMove DEF ghostVars
<1>3. ASSUME NEW h \in Handler, HandlerFails(h)
      PROVE  AccountsInv'
  <2>1. RequestsOK' /\ \A g \in Handler : req'[g] \in {req[g], NoRequest}
    BY <1>3, FinishMoves DEF HandlerFails, Others
  <2>2. UNCHANGED <<rowVars, redisVars, ghostVars, mailVars>>
    BY <1>3 DEF HandlerFails
  <2>3. RowsOK'
    BY <2>2 DEF RowsOK, rowVars, redisVars, ghostVars, mailVars
  <2>4. EmailProven' /\ SessionIsOwners'
    BY <2>2 DEF EmailProven, SessionIsOwners, Live, TakenByOther, rowVars, ghostVars, mailVars
  <2>5. QED
    BY <2>1, <2>2, <2>3, <2>4, SessionsMove DEF ghostVars
<1>4. QED
  BY <1>1, <1>2, <1>3
------------------------------------------------------------------------------
(* Time, the e-mail worker and the notifications                            *)

\* What expires, is read, delivered or lost makes no code and takes none away from
\* where it was delivered.
LEMMA WorldMoves ==
  ASSUME AccountsInv, RowsOK', UNCHANGED <<rowVars, ghostVars, req>>,
         \A t \in Ticket, a \in Address : Promise(t, a)' => Promise(t, a),
         \A t \in Ticket : verified'[t] \in {verified[t], NoAddress},
         \A t \in Ticket : inbox[t] \in Address => inbox'[t] = inbox[t]
  PROVE  AccountsInv'
<1> USE DEF AccountsInv
<1>1. RequestsOK'
  BY DEF RequestsOK
<1>2. Codes'
  <2>1. \A t \in Ticket : Challenge(t)' => Challenge(t)
    BY DEF Challenge, At, ghostVars
  <2>2. QED
    BY <2>1, CodesKept DEF ghostVars
<1>3. OneChallenge'
  BY DEF OneChallenge, At, ghostVars
<1>4. Presented'
  <2>1. \A t \in Ticket : verified'[t] # NoAddress => inbox'[t] = verified'[t]
    BY DEF Presented, RowsOK, AddressOrNone
  <2>2. ASSUME NEW h \in Handler PROVE IsPresented(req[h])'
    <3>1. req[h].pc \in {"setVerified", "createUser", "updateEmail"} =>
            req[h].code \in Ticket /\ req[h].addr \in Address
      BY DEF RequestsOK, Armed, CarryPcs
    <3>2. QED
      BY <3>1 DEF Presented, IsPresented
  <2>3. QED
    BY <2>1, <2>2 DEF Presented
<1>5. Owned'
  <2>1. ASSUME NEW h \in Handler PROVE IsOwned(req[h])'
    <3>1. req[h].pc \in {"dropSession", "dropLogin", "addSession"} => req[h].code \in Ticket
      BY DEF RequestsOK, Armed
    <3>2. QED
      BY <3>1 DEF Owned, IsOwned, ghostVars
  <2>2. QED
    BY <2>1 DEF Owned
<1>6. EmailProven'
  <2>1. \A u \in User : Live(u) => email[u] \in Address /\ proof[u] \in Ticket
    BY DEF EmailProven, Live, RowsOK, AddressOrNone, TicketOrNone
  <2>2. QED
    BY <2>1 DEF EmailProven, Live, TakenByOther, rowVars, ghostVars
<1>7. SessionIsOwners'
  BY DEF SessionIsOwners, Live, rowVars, ghostVars
<1>8. QED
  BY <1>1, <1>2, <1>3, <1>4, <1>5, <1>6, <1>7

\* A key that expires takes nothing from what was delivered.
LEMMA Expires ==
  ASSUME AccountsInv, KeyExpires
  PROVE  AccountsInv'
<1> USE NullsAssumption DEF AccountsInv
<1>1. UNCHANGED <<rowVars, ghostVars, mailVars, req>>
  BY DEF KeyExpires
<1>2. NoChange \in [to : AddressOrNone, code : TicketOrNone] /\ NoChange.to = NoAddress
  BY DEF NoChange, AddressOrNone, TicketOrNone
<1>3. /\ registration' \in [Ticket -> AddressOrNone] /\ verified' \in [Ticket -> AddressOrNone]
      /\ regSession' \in [Ticket -> UserOrNone]
      /\ change' \in [User -> [to : AddressOrNone, code : TicketOrNone]]
      /\ \A t \in Ticket : /\ registration'[t] \in {registration[t], NoAddress}
                           /\ verified'[t] \in {verified[t], NoAddress}
      /\ \A u \in User : change'[u] \in {change[u], NoChange}
  <2>1. \/ registration' = registration
        \/ \E t \in Ticket : registration' = [registration EXCEPT ![t] = NoAddress]
    BY DEF KeyExpires
  <2>2. \/ verified' = verified
        \/ \E t \in Ticket : verified' = [verified EXCEPT ![t] = NoAddress]
    BY DEF KeyExpires
  <2>3. \/ regSession' = regSession
        \/ \E t \in Ticket : regSession' = [regSession EXCEPT ![t] = NoUser]
    BY DEF KeyExpires
  <2>4. change' = change \/ \E u \in User : change' = [change EXCEPT ![u] = NoChange]
    BY DEF KeyExpires
  <2>5. /\ registration' \in [Ticket -> AddressOrNone]
        /\ \A t \in Ticket : registration'[t] \in {registration[t], NoAddress}
    BY <2>1 DEF RowsOK, AddressOrNone
  <2>6. /\ verified' \in [Ticket -> AddressOrNone]
        /\ \A t \in Ticket : verified'[t] \in {verified[t], NoAddress}
    BY <2>2 DEF RowsOK, AddressOrNone
  <2>7. regSession' \in [Ticket -> UserOrNone]
    BY <2>3 DEF RowsOK, UserOrNone
  <2>8. /\ change' \in [User -> [to : AddressOrNone, code : TicketOrNone]]
        /\ \A u \in User : change'[u] \in {change[u], NoChange}
    BY <1>2, <2>4 DEF RowsOK
  <2>9. QED
    BY <2>5, <2>6, <2>7, <2>8
<1>4. RowsOK'
  BY <1>1, <1>3 DEF RowsOK, rowVars, ghostVars, mailVars
<1>5. \A t \in Ticket, a \in Address : Promise(t, a)' => Promise(t, a)
  <2>1. \A u \in User, a \in Address : change'[u].to = a => change'[u] = change[u]
    BY <1>2, <1>3
  <2>2. \A t \in Ticket, a \in Address : /\ registration'[t] = a => registration[t] = a
                                         /\ verified'[t] = a => verified[t] = a
    BY <1>3
  <2>3. QED
    BY <1>1, <2>1, <2>2 DEF Promise, mailVars
<1>6. QED
  BY <1>1, <1>3, <1>4, <1>5, WorldMoves DEF mailVars

\* A code is delivered where it was promised, so twice to the same address.
LEMMA MailMoves ==
  ASSUME AccountsInv, MailStep
  PROVE  AccountsInv'
<1> USE DEF AccountsInv
<1>1. CASE ReadMail
  <2>1. UNCHANGED <<rowVars, redisVars, ghostVars, inbox, req>> /\ mail' \cup post' = mail \cup post
    BY <1>1 DEF ReadMail
  <2>2. RowsOK'
    BY <2>1 DEF RowsOK, rowVars, redisVars, ghostVars
  <2>3. \A t \in Ticket, a \in Address : Promise(t, a)' => Promise(t, a)
    BY <2>1 DEF Promise, redisVars
  <2>4. QED
    BY <2>1, <2>2, <2>3, WorldMoves DEF redisVars
<1>2. ASSUME NEW m \in post, SendVerificationCode(m)
      PROVE  AccountsInv'
  <2>1. m.to \in Address /\ m.code \in Ticket
    BY DEF RowsOK, Mail
  <2>2. /\ inbox' \in {inbox, [inbox EXCEPT ![m.code] = m.to]} /\ post' \subseteq post
        /\ UNCHANGED <<rowVars, redisVars, ghostVars, mail, req>>
    BY <1>2 DEF SendVerificationCode
  <2>3. Promise(m.code, m.to)
    BY DEF Promise
  <2>4. \A t \in Ticket : \/ inbox'[t] = inbox[t]
                          \/ t = m.code /\ inbox'[t] = m.to
    BY <2>1, <2>2 DEF RowsOK
  <2>5. inbox[m.code] \in Address => inbox[m.code] = m.to
    <3>1. Promise(m.code, inbox[m.code])
      BY DEF Promise
    <3>2. QED
      BY <2>1, <2>3, <3>1 DEF Codes, OnePromise
  <2>6. \A t \in Ticket : inbox[t] \in Address => inbox'[t] = inbox[t]
    BY <2>4, <2>5
  <2>7. RowsOK'
    BY <2>1, <2>2 DEF RowsOK, AddressOrNone, rowVars, redisVars, ghostVars
  <2>8. \A t \in Ticket, a \in Address : Promise(t, a)' => Promise(t, a)
    BY <2>2, <2>3, <2>4 DEF Promise, redisVars
  <2>9. QED
    BY <2>2, <2>6, <2>7, <2>8, WorldMoves DEF redisVars
<1>3. QED
  BY <1>1, <1>2 DEF MailStep

\* Nothing of the notifications touches an account; a crash of their process loses the
\* e-mails the worker had read.
LEMMA NoticeFrame ==
  ASSUME NoticeNext
  PROVE  UNCHANGED <<rowVars, redisVars, ghostVars, mail, inbox, req>> /\ post' \in {post, {}}
<1> USE DEF Calm, quietVars, mailVars
<1>1. ASSUME NEW u \in User, TripChange(u)
      PROVE  UNCHANGED quietVars
  <2>1. \A type : Changes(type, u) => UNCHANGED quietVars
    BY DEF Changes
  <2>2. QED
    BY <1>1, <2>1 DEF TripChange, JoinTrip, LoseMember, OtherChange, UpdateTripSettings,
                      RegisterDeviceToken, UnregisterDeviceToken
<1>2. ASSUME NEW p, PushStep(p)
      PROVE  UNCHANGED quietVars
  BY <1>2 DEF PushStep, CheckLog, Send, MarkSent, Pushed
<1>3. CASE Publish
  BY <1>3 DEF Publish, PublishTripEvent
<1>4. CASE Work
  BY <1>2, <1>4 DEF Work, ReadEvents, HandleTripEvent
<1>5. CASE EventFails
  BY <1>5 DEF EventFails
<1>6. CASE Schedule
  BY <1>2, <1>6 DEF Schedule, RunIfDue, SetLastRun, RunOnce
<1>7. CASE TimePasses
  BY <1>7 DEF TimePasses
<1>8. CASE Crash \/ Redeploy
  BY <1>8 DEF Crash, Redeploy, Restarts
<1>9. QED
  BY <1>1, <1>3, <1>4, <1>5, <1>6, <1>7, <1>8 DEF NoticeNext

\* A step of the notifications keeps the invariant of the accounts.
LEMMA NoticeMoves ==
  ASSUME AccountsInv, NoticeNext
  PROVE  AccountsInv'
<1> USE DEF AccountsInv
<1>1. UNCHANGED <<rowVars, redisVars, ghostVars, mail, inbox, req>> /\ post' \in {post, {}}
  BY NoticeFrame
<1>2. RowsOK'
  BY <1>1 DEF RowsOK, rowVars, redisVars, ghostVars
<1>3. \A t \in Ticket, a \in Address : Promise(t, a)' => Promise(t, a)
  BY <1>1 DEF Promise, redisVars
<1>4. QED
  BY <1>1, <1>2, <1>3, WorldMoves DEF redisVars

------------------------------------------------------------------------------
(* The theorems                                                             *)

\* The accounts open at the start have addresses and codes of their own.
LEMMA AccountsStart ==
  ASSUME AccountsInit
  PROVE  AccountsInv
<1> DEFINE Of(m, u)   == {o \in m.open : o.user = u}
           Sent(m, t) == {o \in m.open : o.code = t}
<1>1. PICK m \in Mixes :
        /\ email = [u \in User |-> IF Of(m, u) = {} THEN NoAddress ELSE Some(Of(m, u)).addr]
        /\ proof = [u \in User |-> IF Of(m, u) = {} THEN NoTicket ELSE Some(Of(m, u)).code]
        /\ inbox = [t \in Ticket |-> IF Sent(m, t) = {} THEN NoAddress ELSE Some(Sent(m, t)).addr]
        /\ known = {o.user : o \in m.open} \cup {o.code : o \in m.open}
  BY DEF AccountsInit
<1>2. /\ registration = [t \in Ticket |-> NoAddress] /\ verified = [t \in Ticket |-> NoAddress]
      /\ regSession = [t \in Ticket |-> NoUser] /\ change = [u \in User |-> NoChange]
      /\ token = [k \in Token |-> NoUser] /\ passkey = [k \in Token |-> NoUser]
      /\ asked = [t \in Ticket |-> NoAsk]
      /\ mail = {} /\ post = {} /\ req = [h \in Handler |-> NoRequest]
  BY DEF AccountsInit
<1>3. \A u : Of(m, u) # {} => Some(Of(m, u)) \in m.open /\ Some(Of(m, u)).user = u
  BY DEF Some
<1>4. \A t : Sent(m, t) # {} => Some(Sent(m, t)) \in m.open /\ Some(Sent(m, t)).code = t
  BY DEF Some
<1>5. \A o \in m.open :
        /\ o.user \in User /\ o.addr \in Address /\ o.code \in Ticket
        /\ \A p \in m.open : o # p => o.user # p.user /\ o.addr # p.addr /\ o.code # p.code
  BY MixAssumption
<1>6. \A o \in m.open : o \in Of(m, o.user) /\ o \in Sent(m, o.code)
  OBVIOUS
<1> HIDE DEF Of, Sent
<1>7. \A u \in User : IF email[u] = NoAddress THEN proof[u] = NoTicket
                      ELSE \E o \in m.open : o.user = u /\ email[u] = o.addr /\ proof[u] = o.code
  BY <1>1, <1>3, <1>5, NullsAssumption
<1>8. \A t \in Ticket : inbox[t] = NoAddress \/ \E o \in m.open : o.code = t /\ inbox[t] = o.addr
  BY <1>1, <1>4
<1>9. \A o \in m.open : inbox[o.code] = o.addr
  <2>1. ASSUME NEW o \in m.open PROVE inbox[o.code] = o.addr
    <3> DEFINE p == Some(Sent(m, o.code))
    <3>1. p \in m.open /\ p.code = o.code
      BY <1>4, <1>6
    <3>2. p = o
      BY <1>5, <3>1
    <3>3. QED
      BY <1>1, <1>5, <1>6, <3>2
  <2>2. QED
    BY <2>1
<1>10. RowsOK
  <2>1. email \in [User -> AddressOrNone]
    BY <1>1, <1>3, <1>5 DEF AddressOrNone
  <2>2. proof \in [User -> TicketOrNone]
    BY <1>1, <1>3, <1>5 DEF TicketOrNone
  <2>3. inbox \in [Ticket -> AddressOrNone]
    BY <1>1, <1>4, <1>5 DEF AddressOrNone
  <2>4. QED
    BY <1>2, <2>1, <2>2, <2>3 DEF RowsOK, AddressOrNone, UserOrNone, TicketOrNone, NoChange, NoAsk
<1>11. RequestsOK
  BY <1>2, NoRequestType DEF RequestsOK
<1>12. \A t \in Ticket : ~Challenge(t)
  BY <1>2 DEF Challenge, At, NoRequest
<1>13. \A t \in Ticket, a \in Address : Promise(t, a) => inbox[t] = a
  BY <1>2, NullsAssumption DEF Promise, Carries, CarryPcs, NoChange, NoRequest
<1>14. Codes
  <2>1. OnePromise
    BY <1>13 DEF OnePromise
  <2>2. Generated
    BY <1>1, <1>8, <1>12, <1>13, NullsAssumption DEF Generated
  <2>3. QED
    BY <1>12, <2>1, <2>2 DEF Codes, Apart
<1>15. OneChallenge /\ Presented /\ Owned
  BY <1>2 DEF OneChallenge, Presented, Owned, IsPresented, IsOwned, At, NoRequest
<1>16. EmailProven
  BY <1>5, <1>7, <1>9, NullsAssumption DEF EmailProven, Live, TakenByOther
<1>17. SessionIsOwners
  BY <1>2 DEF SessionIsOwners
<1>18. QED
  BY <1>10, <1>11, <1>14, <1>15, <1>16, <1>17 DEF AccountsInv

\* Every step of the accounts keeps the invariant.
LEMMA AccountsStepKeeps ==
  ASSUME AccountsInv, AccountsNext
  PROVE  AccountsInv'
<1>1. ASSUME NEW h \in Handler, AccountRequest(h)
      PROVE  AccountsInv'
  BY <1>1, Submitted, ChangeAsked, Verifies, RegisterBegun, RegisterFinished, LoginFinished,
     ChangeConfirmed, LoginBegun DEF AccountRequest
<1>2. ASSUME NEW h \in Handler, AccountStep(h)
      PROVE  AccountsInv'
  BY <1>2, CodeStored, Enqueued, VerifiedSet, CodeDropped, RegSessionStored, UserCreated,
     SessionDropped, SessionAdded, ChangeStored, EmailUpdated, ChangeDropped, LoginStored,
     LoginDropped DEF AccountStep
<1>3. QED
  BY <1>1, <1>2, SessionEnds, Expires, MailMoves DEF AccountsNext

\* What the flows carry stays consistent, in every state: the strengthening the two
\* theorems below follow from.
THEOREM AccountsInvariant == Spec => []AccountsInv
<1>1. Init => AccountsInv
  BY AccountsStart DEF Init
<1>2. AccountsInv /\ [Next]_vars => AccountsInv'
  <2>1. ASSUME AccountsInv, Next
        PROVE  AccountsInv'
    BY <2>1, AccountsStepKeeps, NoticeMoves DEF Next
  <2>2. ASSUME AccountsInv, UNCHANGED vars
        PROVE  AccountsInv'
    <3>1. UNCHANGED <<rowVars, redisVars, ghostVars, mailVars, req>>
      BY <2>2 DEF vars, accountVars
    <3>2. RowsOK'
      BY <2>2, <3>1 DEF AccountsInv, RowsOK, rowVars, redisVars, ghostVars, mailVars
    <3>3. \A t \in Ticket, a \in Address : Promise(t, a)' => Promise(t, a)
      BY <3>1 DEF Promise, redisVars, mailVars
    <3>4. QED
      BY <2>2, <3>1, <3>2, <3>3, WorldMoves DEF redisVars, mailVars
  <2>3. QED
    BY <2>1, <2>2
<1>3. QED
  BY <1>1, <1>2, PTL DEF Spec

\* An account's address is its own and one where a code it presented was delivered,
\* however many registrations and changes of address overlap, expire, fail halfway or
\* are overwritten, and whatever e-mails are lost.
THEOREM Proven == Spec => []EmailProven
<1>1. AccountsInv => EmailProven
  BY DEF AccountsInv
<1>2. QED
  BY <1>1, AccountsInvariant, PTL

\* A session belongs to the account whose passkey opened it and ends with it, although
\* addresses move between accounts while logins are under way.
THEOREM OwnSessions == Spec => []SessionIsOwners
<1>1. AccountsInv => SessionIsOwners
  BY DEF AccountsInv
<1>2. QED
  BY <1>1, AccountsInvariant, PTL

------------------------------------------------------------------------------
(* What was pushed is not pushed again                                      *)

Ids  == [of : Process, n : Nat]
Jobs == [pc : {"idle", "setLast", "list", "check", "send", "mark"}, id : Ids,
         todo : SUBSET Device, dev : Device \cup {NoDevice}]

Notices == [type : {"PARTICIPANT_JOINED", "PARTICIPANT_REMOVED", "PARTICIPANT_LEFT",
                    "ADMIN_CHANGED", "TRIP_READY", "PIN_ADDED"}, user : User]

\* A job is of its own process, which is sending, or about to list the trips.
JobsOK ==
  /\ job \in [Process -> Jobs]
  /\ \A p \in Process : /\ ~Doing(p, "idle") => job[p].id.of = p
                        /\ job[p].pc \in {"send", "mark"} => job[p].dev \in Device
  /\ job["worker"].pc \notin {"setLast", "list"}
PushTypes ==
  /\ pending \subseteq Notices /\ events \in Seq(Notices)
  /\ JobsOK /\ read \in Nat /\ at \in Nat /\ at <= read
  /\ now \in Nat \ {0} /\ lastRun \in Nat /\ faults \in Nat
  /\ pushed \subseteq Ids \X Device

\* The devices a process is still to look at, or has found not pushed to.
Sending(p) == job[p].pc \in {"check", "send", "mark"}
Ahead(p)   == job[p].todo \cup (IF Doing(p, "send") THEN {job[p].dev} ELSE {})
Fresh(p)   ==
  /\ Doing(p, "send") => job[p].dev \notin job[p].todo
  /\ \A x \in pushed : Sending(p) /\ x[1] = job[p].id => x[2] \notin Ahead(p)

\* The worker is sending the event behind those it is done with, to devices it has
\* not pushed it to.
WorkerInv ==
  /\ Sending("worker") => at < read /\ job["worker"].id = Id("worker", at + 1)
  /\ \A x \in pushed : x[1].of = "worker" =>
       x[1].n <= at \/ (Sending("worker") /\ x[1] = job["worker"].id)
  /\ Fresh("worker")

\* No run of the day is to come; or nothing was sent; or nothing fails any more, so
\* that the log has all that was sent.
Over ==
  /\ lastRun # 0 /\ Anniversary <= DayOf(lastRun)
  /\ job["scheduler"].pc \in {"setLast", "list"} => Anniversary < DayOf(job["scheduler"].id.n)
  /\ Fresh("scheduler")
Unsent ==
  ~Sending("scheduler") /\ \A x \in pushed : x[1].of # "scheduler"
Logged ==
  /\ MaxFaults <= faults
  /\ \A x \in pushed : x[1].of = "scheduler" =>
       \/ x \in log
       \/ Doing("scheduler", "mark") /\ x = <<job["scheduler"].id, job["scheduler"].dev>>
  /\ Doing("scheduler", "send") => <<job["scheduler"].id, job["scheduler"].dev>> \notin pushed
SchedulerInv ==
  /\ Doing("scheduler", "setLast") => job["scheduler"].id.n # 0
  /\ Doing("scheduler", "list") =>
       job["scheduler"].id.n # 0 /\ (lastRun = job["scheduler"].id.n \/ MaxFaults <= faults)
  /\ Over \/ Unsent \/ Logged

PushInv == PushTypes /\ WorkerInv /\ SchedulerInv

LEMMA DaysAre == ASSUME NEW t \in Nat PROVE DayOf(t) \in Nat
BY TimeAssumption DEF DayOf

LEMMA AnniversaryIs == Anniversary \in Nat /\ Anniversary <= Anniversary
BY TimeAssumption

\* A day after it is another day.
LEMMA DayIsOver ==
  ASSUME NEW s \in Nat, NEW t \in Nat, t - s >= Day
  PROVE  DayOf(s) < DayOf(t)
<1>1. Day \in Nat /\ Day > 0
  BY TimeAssumption
<1>2. PICK d \in Nat : d = Day /\ d > 0
  BY <1>1
<1>3. PICK m \in Nat, n \in Nat : m = s \div d /\ n = t \div d
  BY <1>2
<1>4. d * m <= s /\ t < d * n + d
  BY <1>2, <1>3
<1>5. d * m + d < d * n + d
  BY <1>2, <1>3, <1>4
<1>6. m < n
  BY <1>2, <1>3, <1>5
<1>7. QED
  BY <1>2, <1>3, <1>6 DEF DayOf

\* A step of the accounts fails or does not.
LEMMA AccountFaults ==
  ASSUME faults \in Nat, AccountsNext
  PROVE  faults' \in Nat /\ faults <= faults'
<1>1. \A h : AccountRequest(h) => UNCHANGED faults
  BY DEF AccountRequest, SubmitEmail, ChangeEmail, VerifyEmailCode, PasskeyRegisterBegin,
         PasskeyRegisterFinish, PasskeyLoginFinish, ConfirmEmailChange, PasskeyLoginBegin
<1>2. \A h : AccountStep(h) => Fault \/ UNCHANGED faults
  BY DEF AccountStep, StoreCode, Enqueue, SetVerified, DropCode, StoreRegSession,
         CreateUserWithCredential, DropSession, AddSession, StoreChange, UpdateEmail, DropChange,
         StoreLogin, DropLogin
<1>3. Fault \/ UNCHANGED faults
  BY <1>1, <1>2 DEF AccountsNext, HandlerFails, DeleteAccount, Logout, KeyExpires, MailStep,
     ReadMail,
                    SendVerificationCode
<1>4. QED
  BY <1>3 DEF Fault

\* What is pushed, and by whom, stays as it is while the rest of the world moves on.
LEMMA PushFrame ==
  ASSUME PushInv, pending' \subseteq Notices, events' \in Seq(Notices),
         read' \in Nat, read <= read', UNCHANGED <<at, pushVars, lastRun>>,
         now' \in Nat \ {0}, faults' \in Nat, faults <= faults'
  PROVE  PushInv'
<1>1. PushTypes'
  BY DEF PushInv, PushTypes, JobsOK, Doing, pushVars
<1>2. WorkerInv'
  BY DEF PushInv, PushTypes, WorkerInv, Sending, Fresh, Ahead, Doing, pushVars
<1>3. SchedulerInv'
  <2>1. MaxFaults <= faults => MaxFaults <= faults'
    BY FaultAssumption DEF PushInv, PushTypes
  <2>2. QED
    BY <2>1 DEF PushInv, SchedulerInv, Over, Unsent, Logged, Sending, Fresh, Ahead, Doing, pushVars
<1>4. QED
  BY <1>1, <1>2, <1>3 DEF PushInv

\* The trip, its members and their devices.
LEMMA TripPushes ==
  ASSUME PushInv, (\E u \in User : TripChange(u)) \/ Publish
  PROVE  PushInv'
<1>1. CASE \E u \in User : TripChange(u)
  <2>1. PICK u \in User : TripChange(u)
    BY <1>1
  <2>2. /\ UNCHANGED <<events, workerVars, pushVars, clockVars, faults>>
        /\ pending' = pending \/ \E e \in Notices : pending' = pending \cup {e}
    BY <2>1 DEF TripChange, JoinTrip, LoseMember, OtherChange, Changes, UpdateTripSettings,
                RegisterDeviceToken, UnregisterDeviceToken, Calm, tripVars, Notices
  <2>3. QED
    BY <2>2, PushFrame DEF PushInv, PushTypes, workerVars, clockVars
<1>2. CASE Publish
  <2>1. PICK e \in pending : PublishTripEvent(e)
    BY <1>2 DEF Publish
  <2>2. /\ UNCHANGED <<workerVars, pushVars, clockVars>> /\ pending' \subseteq pending
        /\ events' = Append(events, e) \/ events' = events
        /\ Fault \/ UNCHANGED faults
    BY <2>1 DEF PublishTripEvent
  <2>3. events' \in Seq(Notices)
    BY <2>2 DEF PushInv, PushTypes
  <2>4. QED
    BY <2>2, <2>3, PushFrame DEF PushInv, PushTypes, workerVars, clockVars, Fault
<1>3. QED
  BY <1>1, <1>2

\* Time passes, the worker reads.
LEMMA ReadPushes ==
  ASSUME PushInv, ReadEvents \/ TimePasses
  PROVE  PushInv'
<1>1. CASE ReadEvents
  <2>1. UNCHANGED <<tripVars, at, pushVars, clockVars, faults>> /\ read' = Len(events) /\ read < Len(events)
    BY <1>1 DEF ReadEvents, Calm
  <2>2. QED
    BY <2>1, PushFrame, LenProperties DEF PushInv, PushTypes, clockVars, tripVars
<1>2. CASE TimePasses
  <2>1. UNCHANGED <<tripVars, workerVars, pushVars, lastRun, faults>> /\ now' = now + 1
    BY <1>2 DEF TimePasses, Calm
  <2>2. QED
    BY <2>1, PushFrame DEF PushInv, PushTypes, workerVars, tripVars
<1>3. QED
  BY <1>1, <1>2

\* What the worker relies on, when it is the scheduler that moves, and the converse.
LEMMA WorkerAlone ==
  ASSUME PushTypes, WorkerInv, job'["worker"] = job["worker"], at' = at, read <= read', read' \in Nat,
         \A x \in pushed' \ pushed : x[1].of = "scheduler", pushed \subseteq pushed'
  PROVE  WorkerInv'
<1>1. Sending("worker")' = Sending("worker") /\ Ahead("worker")' = Ahead("worker")
  BY DEF Sending, Ahead, Doing
<1>2. Sending("worker") => job["worker"].id.of = "worker"
  BY DEF PushTypes, JobsOK, Sending, Doing, Process
<1>3. Fresh("worker")'
  <2>1. \A x \in pushed' : x[1] = job["worker"].id /\ Sending("worker") => x \in pushed
    BY <1>2
  <2>2. QED
    BY <1>1, <2>1 DEF Fresh, WorkerInv, Doing
<1>4. QED
  BY <1>1, <1>3 DEF WorkerInv, PushTypes

LEMMA SchedulerAlone ==
  ASSUME PushTypes, SchedulerInv, job'["scheduler"] = job["scheduler"], lastRun' = lastRun,
         faults' \in Nat, faults <= faults', log \subseteq log',
         \A x \in pushed' \ pushed : x[1].of = "worker", pushed \subseteq pushed'
  PROVE  SchedulerInv'
<1>1. /\ Sending("scheduler")' = Sending("scheduler") /\ Ahead("scheduler")' = Ahead("scheduler")
      /\ \A pc : Doing("scheduler", pc)' = Doing("scheduler", pc)
  BY DEF Sending, Ahead, Doing
<1>2. ~Doing("scheduler", "idle") => job["scheduler"].id.of = "scheduler"
  BY DEF PushTypes, JobsOK, Process
<1>3. \A x \in pushed' : x[1].of = "scheduler" => x \in pushed
  OBVIOUS
<1>4. MaxFaults <= faults => MaxFaults <= faults'
  BY FaultAssumption DEF PushTypes
<1>5. CASE Over
  <2>1. Sending("scheduler") => job["scheduler"].id.of = "scheduler"
    BY <1>2 DEF Sending, Doing
  <2>2. Fresh("scheduler")'
    BY <1>1, <1>3, <1>5, <2>1 DEF Fresh, Over
  <2>3. QED
    BY <1>1, <1>4, <1>5, <2>2 DEF SchedulerInv, Over
<1>6. CASE Unsent
  BY <1>1, <1>3, <1>4, <1>6 DEF SchedulerInv, Unsent
<1>7. CASE Logged
  <2>1. Doing("scheduler", "send") => <<job["scheduler"].id, job["scheduler"].dev>>[1].of = "scheduler"
    BY <1>2 DEF Doing
  <2>2. Logged'
    BY <1>1, <1>3, <1>4, <1>7, <2>1 DEF Logged
  <2>3. QED
    BY <1>1, <1>4, <2>2 DEF SchedulerInv
<1>8. QED
  BY <1>5, <1>6, <1>7 DEF SchedulerInv

LEMMA NoJobType == NoJob \in Jobs /\ NoJob.pc = "idle"
BY DEF NoJob, Jobs, Ids, Id, Process

\* A process turns to another job, or goes on with its own.
LEMMA JobSet ==
  ASSUME JobsOK, NEW p \in Process, NEW j \in Jobs, job' = [job EXCEPT ![p] = j],
         j.pc # "idle" => j.id.of = p, j.pc \in {"send", "mark"} => j.dev \in Device,
         j.pc \in {"setLast", "list"} => p = "scheduler"
  PROVE  JobsOK' /\ job'[p] = j /\ \A q \in Process \ {p} : job'[q] = job[q]
BY DEF JobsOK, Doing, Process

\* The pushes of an event begin.
LEMMA ResolveMoves ==
  ASSUME JobsOK, NEW p \in Process, NEW n \in Nat, NEW us, Resolve(p, Id(p, n), us)
  PROVE  /\ JobsOK' /\ \A q \in Process \ {p} : job'[q] = job[q]
         /\ job'[p].pc = "check" /\ job'[p].id = Id(p, n)
         /\ Fault \/ UNCHANGED faults
<1>1. PICK todo \in SUBSET Device :
        job' = [job EXCEPT ![p] = [NoJob EXCEPT !.pc = "check", !.id = Id(p, n), !.todo = todo]]
  BY DEF Resolve, Devices
<1>2. PICK j : j = [NoJob EXCEPT !.pc = "check", !.id = Id(p, n), !.todo = todo]
  OBVIOUS
<1>3. Id(p, n) \in Ids /\ Id(p, n).of = p
  BY DEF Id, Ids
<1>4. j \in Jobs /\ j.pc = "check" /\ j.id = Id(p, n)
  BY <1>2, <1>3, NoJobType DEF Jobs
<1>5. JobsOK' /\ job'[p] = j /\ \A q \in Process \ {p} : job'[q] = job[q]
  BY <1>1, <1>2, <1>3, <1>4, JobSet
<1>6. QED
  BY <1>4, <1>5 DEF Resolve

LEMMA JobMoves ==
  ASSUME JobsOK, NEW p \in Process, NEW pc \in {"check", "mark"}, NEW dev \in Device \cup {NoDevice},
         job' = [job EXCEPT ![p].pc = pc, ![p].dev = dev], job[p].id.of = p,
         pc = "mark" => dev \in Device
  PROVE  /\ JobsOK' /\ \A q \in Process \ {p} : job'[q] = job[q]
         /\ job'[p] = [job[p] EXCEPT !.pc = pc, !.dev = dev]
<1>1. PICK j : j = [job[p] EXCEPT !.pc = pc, !.dev = dev]
  OBVIOUS
<1>2. j \in Jobs /\ j.id = job[p].id /\ j.pc = pc /\ j.dev = dev
  BY <1>1 DEF JobsOK, Jobs
<1>3. job' = [job EXCEPT ![p] = j]
  BY <1>1 DEF JobsOK, Jobs
<1>4. j.id.of = p /\ (j.pc \in {"send", "mark"} => j.dev \in Device) /\ j.pc \notin {"setLast", "list"}
  BY <1>2
<1>5. JobsOK' /\ job'[p] = j /\ \A q \in Process \ {p} : job'[q] = job[q]
  BY <1>2, <1>3, <1>4, JobSet
<1>6. QED
  BY <1>1, <1>5

\* A step of the pushes of an event, for both processes.
LEMMA PushTyped ==
  ASSUME PushTypes, WorkerInv, NEW p \in Process, PushStep(p)
  PROVE  /\ PushTypes' /\ UNCHANGED <<read, lastRun>>
         /\ \A q \in Process \ {p} : job'[q] = job[q]
         /\ log \subseteq log' /\ pushed \subseteq pushed' /\ faults <= faults'
         /\ \A x \in pushed' \ pushed : x[1].of = p
         /\ p = "scheduler" => at' = at
<1>1. /\ UNCHANGED <<tripVars, read, clockVars>>
      /\ Fault \/ UNCHANGED faults
      /\ p = "scheduler" => at' = at
  BY DEF PushStep, CheckLog, Send, MarkSent, Pushed, Calm, workerVars
<1>2. faults' \in Nat /\ faults <= faults'
  BY <1>1 DEF PushTypes, Fault
<1>3. NoJob \in Jobs
  BY DeviceAssumption DEF NoJob, Jobs, Ids, Id, Process
<1>4. /\ JobsOK /\ job[p] \in Jobs
      /\ ~Doing(p, "idle") => job[p].id.of = p
      /\ job[p].pc \in {"send", "mark"} => job[p].dev \in Device
  BY DEF PushTypes, JobsOK
<1>5. /\ at' \in Nat /\ at' <= read /\ JobsOK' /\ pushed' \subseteq Ids \X Device
      /\ \A q \in Process \ {p} : job'[q] = job[q]
      /\ log \subseteq log' /\ pushed \subseteq pushed'
      /\ \A x \in pushed' \ pushed : x[1].of = p
  <2>1. CASE \E d \in Device : CheckLog(p, d)
    <3>1. PICK d \in Device : CheckLog(p, d)
      BY <2>1
    <3>2. /\ Doing(p, "check") /\ UNCHANGED <<workerVars, log, pushed>>
          /\ \/ job' = [job EXCEPT ![p].pc = "send", ![p].dev = d, ![p].todo = @ \ {d}]
             \/ job' = [job EXCEPT ![p].todo = @ \ {d}]
      BY <3>1 DEF CheckLog
    <3>3. PICK j : j = [job[p] EXCEPT !.pc = "send", !.dev = d, !.todo = @ \ {d}]
      OBVIOUS
    <3>4. PICK k : k = [job[p] EXCEPT !.todo = @ \ {d}]
      OBVIOUS
    <3>5. job' = [job EXCEPT ![p] = j] \/ job' = [job EXCEPT ![p] = k]
      BY <3>2, <3>3, <3>4
    <3>6. j \in Jobs /\ j.id = job[p].id /\ j.pc = "send" /\ j.dev \in Device
      BY <1>4, <3>3 DEF Jobs
    <3>7. k \in Jobs /\ k.id = job[p].id /\ k.pc = "check"
      BY <1>4, <3>2, <3>4 DEF Jobs, Doing
    <3>8. job[p].id.of = p
      BY <1>4, <3>2 DEF Doing
    <3>9. JobsOK' /\ \A q \in Process \ {p} : job'[q] = job[q]
      BY <1>4, <3>5, <3>6, <3>7, <3>8, JobSet
    <3>10. QED
      BY <3>2, <3>9 DEF workerVars, PushTypes
  <2>2. CASE Send(p)
    <3>1. /\ Doing(p, "send") /\ UNCHANGED <<workerVars, log>>
          /\ pushed' = pushed \/ pushed' = pushed \cup {<<job[p].id, job[p].dev>>}
          /\ \E pc \in {"mark", "check"}, dev \in {job[p].dev, NoDevice} :
               /\ job' = [job EXCEPT ![p].pc = pc, ![p].dev = dev]
               /\ pc = "mark" => dev = job[p].dev
      <4>1. CASE job' = [job EXCEPT ![p].pc = "mark"]
        <5>1. job' = [job EXCEPT ![p].pc = "mark", ![p].dev = job[p].dev]
          BY <1>4, <4>1 DEF Jobs
        <5>2. QED
          BY <2>2, <5>1 DEF Send
      <4>2. CASE Onward(p)
        BY <2>2, <4>2 DEF Send, Onward
      <4>3. QED
        BY <2>2, <4>1, <4>2 DEF Send
    <3>2. job[p].id \in Ids /\ job[p].id.of = p /\ job[p].dev \in Device
      BY <1>4, <3>1 DEF Doing, Jobs
    <3>3. JobsOK' /\ \A q \in Process \ {p} : job'[q] = job[q]
      BY <1>4, <3>1, <3>2, JobMoves
    <3>4. <<job[p].id, job[p].dev>> \in Ids \X Device /\ <<job[p].id, job[p].dev>>[1].of = p
      BY <3>2
    <3>5. QED
      BY <3>1, <3>3, <3>4 DEF workerVars, PushTypes
  <2>3. CASE MarkSent(p)
    <3>1. /\ Doing(p, "mark") /\ UNCHANGED <<workerVars, pushed>> /\ log \subseteq log'
          /\ job' = [job EXCEPT ![p].pc = "check", ![p].dev = NoDevice]
      BY <2>3 DEF MarkSent, Onward
    <3>2. job[p].id.of = p
      BY <1>4, <3>1 DEF Doing
    <3>3. JobsOK' /\ \A q \in Process \ {p} : job'[q] = job[q]
      BY <1>4, <3>1, <3>2, JobMoves
    <3>4. QED
      BY <3>1, <3>3 DEF workerVars, PushTypes
  <2>4. CASE Pushed(p)
    <3>1. p = "worker" => at < read
      BY <2>4 DEF Pushed, WorkerInv, Sending, Doing
    <3>2. job' = [job EXCEPT ![p] = NoJob] /\ UNCHANGED <<log, pushed>> /\ NoJob.pc = "idle"
      BY <2>4 DEF Pushed, NoJob
    <3>3. at' \in Nat /\ at' <= read
      BY <2>4, <3>1 DEF Pushed, PushTypes
    <3>4. JobsOK' /\ \A q \in Process \ {p} : job'[q] = job[q]
      BY <1>3, <1>4, <3>2, JobSet
    <3>5. QED
      BY <3>2, <3>3, <3>4 DEF PushTypes
  <2>5. QED
    BY <2>1, <2>2, <2>3, <2>4 DEF PushStep
<1>6. UNCHANGED <<pending, events, read, now, lastRun>>
  BY <1>1 DEF tripVars, clockVars
<1>7. PushTypes'
  BY <1>2, <1>5, <1>6 DEF PushTypes
<1>8. QED
  BY <1>1, <1>2, <1>5, <1>6, <1>7

\* A device that was looked at, or pushed to, is not looked at again.
LEMMA FreshPush ==
  ASSUME PushTypes, NEW p \in Process, Fresh(p), PushStep(p)
  PROVE  Fresh(p)'
<1>1. job \in [Process -> Jobs] /\ job[p] \in Jobs
  BY DEF PushTypes, JobsOK
<1>2. CASE \E d \in Device : CheckLog(p, d)
  <2>1. PICK d \in Device : CheckLog(p, d)
    BY <1>2
  <2>2. /\ Doing(p, "check") /\ d \in job[p].todo /\ pushed' = pushed
        /\ \/ job' = [job EXCEPT ![p].pc = "send", ![p].dev = d, ![p].todo = @ \ {d}]
           \/ job' = [job EXCEPT ![p].todo = @ \ {d}]
    BY <2>1 DEF CheckLog
  <2>3. job'[p].id = job[p].id /\ d \notin job'[p].todo /\ Ahead(p)' \subseteq Ahead(p) /\ Sending(p)
        /\ (Doing(p, "send")' => job'[p].dev = d)
    BY <1>1, <2>2 DEF Jobs, Ahead, Doing, Sending
  <2>4. QED
    BY <2>2, <2>3 DEF Fresh
<1>3. CASE Send(p)
  <2>1. /\ Doing(p, "send")
        /\ pushed' = pushed \/ pushed' = pushed \cup {<<job[p].id, job[p].dev>>}
        /\ Onward(p) \/ job' = [job EXCEPT ![p].pc = "mark"]
    BY <1>3 DEF Send
  <2>2. job'[p].id = job[p].id /\ Ahead(p)' = job[p].todo /\ Sending(p) /\ ~Doing(p, "send")'
    BY <1>1, <2>1 DEF Jobs, Ahead, Doing, Sending, Onward
  <2>3. \A x : x = <<job[p].id, job[p].dev>> => x[2] = job[p].dev
    OBVIOUS
  <2>4. job[p].dev \notin job[p].todo /\ job[p].todo \subseteq Ahead(p)
    BY <2>1 DEF Fresh, Ahead
  <2>5. QED
    BY <2>1, <2>2, <2>3, <2>4 DEF Fresh
<1>4. CASE MarkSent(p)
  <2>1. Doing(p, "mark") /\ pushed' = pushed /\ Onward(p)
    BY <1>4 DEF MarkSent
  <2>2. job'[p].id = job[p].id /\ Ahead(p)' = job[p].todo /\ Sending(p) /\ ~Doing(p, "send")'
    BY <1>1, <2>1 DEF Jobs, Ahead, Doing, Sending, Onward
  <2>3. job[p].todo \subseteq Ahead(p)
    BY DEF Ahead
  <2>4. QED
    BY <2>1, <2>2, <2>3 DEF Fresh
<1>5. CASE Pushed(p)
  <2>1. job'[p].pc = "idle"
    BY <1>1, <1>5 DEF Pushed, NoJob
  <2>2. QED
    BY <2>1 DEF Fresh, Sending, Doing
<1>6. QED
  BY <1>2, <1>3, <1>4, <1>5 DEF PushStep

\* The worker pushes the event it has at hand, then is done with it.
LEMMA WorkerPushes ==
  ASSUME PushInv, PushStep("worker")
  PROVE  PushInv'
<1> USE DEF PushInv
<1>1. "worker" \in Process /\ "scheduler" \in Process /\ "scheduler" # "worker"
  BY DEF Process
<1>2. /\ PushTypes' /\ UNCHANGED <<read, lastRun>> /\ job'["scheduler"] = job["scheduler"]
      /\ log \subseteq log' /\ pushed \subseteq pushed' /\ faults <= faults'
      /\ \A x \in pushed' \ pushed : x[1].of = "worker"
  BY <1>1, PushTyped
<1>3. SchedulerInv'
  BY <1>2, SchedulerAlone DEF PushTypes
<1>4. Fresh("worker")'
  BY <1>1, FreshPush DEF WorkerInv
<1>5. job \in [Process -> Jobs] /\ job["worker"] \in Jobs /\ at \in Nat
  BY <1>1 DEF PushTypes, JobsOK
<1>6. WorkerInv'
  <2>1. CASE Pushed("worker")
    <3>1. at' = at + 1 /\ pushed' = pushed /\ Sending("worker") /\ ~Sending("worker")'
      BY <1>1, <1>5, <2>1 DEF Pushed, Sending, Doing, NoJob
    <3>2. \A x \in pushed : x[1].n \in Nat
      BY DEF PushTypes, Ids
    <3>3. job["worker"].id.n = at + 1
      BY <3>1 DEF WorkerInv, Id
    <3>4. \A x \in pushed' : x[1].of = "worker" => x[1].n <= at'
      BY <1>5, <3>1, <3>2, <3>3 DEF WorkerInv
    <3>5. QED
      BY <1>4, <3>1, <3>4 DEF WorkerInv
  <2>2. CASE (\E d \in Device : CheckLog("worker", d)) \/ Send("worker") \/ MarkSent("worker")
    <3>1. at' = at
      BY <2>2 DEF CheckLog, Send, MarkSent, workerVars
    <3>2. Sending("worker") /\ job'["worker"].id = job["worker"].id /\ Sending("worker")'
      <4>1. CASE \E d \in Device : CheckLog("worker", d)
        BY <1>1, <1>5, <4>1 DEF CheckLog, Sending, Doing, Jobs
      <4>2. CASE Send("worker")
        BY <1>1, <1>5, <4>2 DEF Send, Onward, Sending, Doing, Jobs
      <4>3. CASE MarkSent("worker")
        BY <1>1, <1>5, <4>3 DEF MarkSent, Onward, Sending, Doing, Jobs
      <4>4. QED
        BY <2>2, <4>1, <4>2, <4>3
    <3>3. \A x : x = <<job["worker"].id, job["worker"].dev>> => x[1] = job["worker"].id
      OBVIOUS
    <3>4. \A x \in pushed' : x \in pushed \/ x[1] = job["worker"].id
      BY <2>2, <3>3 DEF CheckLog, Send, MarkSent
    <3>5. QED
      BY <1>2, <1>4, <3>1, <3>2, <3>4 DEF WorkerInv
  <2>3. QED
    BY <2>1, <2>2 DEF PushStep
<1>7. QED
  BY <1>2, <1>3, <1>6

\* The next event, to devices of its recipients.
LEMMA WorkerResolves ==
  ASSUME PushInv, HandleTripEvent \/ EventFails
  PROVE  PushInv'
<1> USE DEF PushInv
<1>1. "worker" \in Process /\ "scheduler" \in Process /\ "scheduler" # "worker"
  BY DEF Process
<1>2. Fault \/ UNCHANGED faults
  BY DEF HandleTripEvent, EventFails, Resolve
<1>3. faults' \in Nat /\ faults <= faults'
  BY <1>2 DEF Fault, PushTypes
<1>4. /\ UNCHANGED <<tripVars, read, log, pushed, clockVars>>
      /\ Doing("worker", "idle") /\ at < read
  BY DEF HandleTripEvent, EventFails, workerVars, pushVars
<1>5. CASE HandleTripEvent
  <2>1. /\ JobsOK' /\ job'["scheduler"] = job["scheduler"]
        /\ job'["worker"].pc = "check" /\ job'["worker"].id = Id("worker", at + 1)
    <3>1. at + 1 \in Nat /\ JobsOK
      BY DEF PushTypes
    <3>2. QED
      BY <1>1, <1>5, <3>1, ResolveMoves DEF HandleTripEvent
  <2>2. at' = at
    BY <1>5 DEF HandleTripEvent, workerVars
  <2>3. PushTypes'
    BY <1>3, <1>4, <2>1, <2>2 DEF PushTypes, tripVars, clockVars
  <2>4. SchedulerInv'
    BY <1>3, <1>4, <2>1, SchedulerAlone DEF clockVars
  <2>5. \A x \in pushed : x[1].of = "worker" => x[1].n <= at
    BY <1>4 DEF WorkerInv, Sending, Doing
  <2>6. \A x \in pushed : x[1] # Id("worker", at + 1)
    BY <2>5 DEF Id, PushTypes
  <2>7. ~Doing("worker", "send")' /\ Sending("worker")' /\ job'["worker"].id = Id("worker", at + 1)
    BY <2>1 DEF Doing, Sending
  <2>8. WorkerInv'
    BY <1>4, <2>2, <2>5, <2>6, <2>7 DEF WorkerInv, Fresh
  <2>9. QED
    BY <2>3, <2>4, <2>8
<1>6. CASE EventFails
  <2>1. at' = at + 1 /\ job' = job
    BY <1>6 DEF EventFails, pushVars
  <2>2. PushTypes'
    BY <1>3, <1>4, <2>1 DEF PushTypes, tripVars, clockVars, JobsOK, Doing
  <2>3. SchedulerInv'
    BY <1>3, <1>4, <2>1, SchedulerAlone DEF clockVars
  <2>4. ~Sending("worker") /\ ~Sending("worker")' /\ ~Doing("worker", "send")'
    BY <1>4, <2>1 DEF Sending, Doing
  <2>5. \A x \in pushed : x[1].of = "worker" => x[1].n <= at /\ x[1].n \in Nat
    BY <2>4 DEF WorkerInv, PushTypes, Ids
  <2>6. WorkerInv'
    BY <1>4, <2>1, <2>4, <2>5 DEF WorkerInv, Fresh, PushTypes
  <2>7. QED
    BY <2>2, <2>3, <2>6
<1>7. QED
  BY <1>5, <1>6

\* With at most one failure, the scheduler pushes once, or it has lost the record of
\* its run and then asks the log, which nothing can keep it from any more.
LEMMA SchedulerPushes ==
  ASSUME PushInv, PushStep("scheduler")
  PROVE  PushInv'
<1> USE DEF PushInv
<1>1. "worker" \in Process /\ "scheduler" \in Process /\ "scheduler" # "worker"
  BY DEF Process
<1>2. /\ PushTypes' /\ UNCHANGED <<read, lastRun, at>> /\ job'["worker"] = job["worker"]
      /\ log \subseteq log' /\ pushed \subseteq pushed' /\ faults <= faults'
      /\ \A x \in pushed' \ pushed : x[1].of = "scheduler"
  BY <1>1, PushTyped
<1>3. WorkerInv'
  BY <1>2, WorkerAlone DEF PushTypes
<1>4. job \in [Process -> Jobs] /\ job["scheduler"] \in Jobs
  BY <1>1 DEF PushTypes, JobsOK
<1>5. Sending("scheduler") /\ job["scheduler"].id.of = "scheduler"
  BY <1>1 DEF PushStep, CheckLog, Send, MarkSent, Pushed, Sending, Doing, PushTypes, JobsOK
<1>6. job'["scheduler"].pc \in {"check", "send", "mark", "idle"}
  <2>1. CASE \E d \in Device : CheckLog("scheduler", d)
    BY <1>1, <1>4, <2>1 DEF CheckLog, Doing, Jobs
  <2>2. CASE Send("scheduler")
    BY <1>1, <1>4, <2>2 DEF Send, Onward, Doing, Jobs
  <2>3. CASE MarkSent("scheduler")
    BY <1>1, <1>4, <2>3 DEF MarkSent, Onward, Doing, Jobs
  <2>4. CASE Pushed("scheduler")
    BY <1>1, <1>4, <2>4 DEF Pushed, NoJob
  <2>5. QED
    BY <2>1, <2>2, <2>3, <2>4 DEF PushStep
<1>7. CASE Over
  <2>1. Fresh("scheduler")'
    BY <1>1, <1>7, FreshPush DEF Over
  <2>2. QED
    BY <1>2, <1>3, <1>6, <1>7, <2>1 DEF Over, SchedulerInv, Doing
<1>8. CASE Logged
  <2>1. ~Fault
    BY <1>8, FaultAssumption DEF Logged, Fault, PushTypes
  <2>2. MaxFaults <= faults'
    BY <1>2, <1>8, FaultAssumption DEF Logged, PushTypes
  <2> DEFINE x == <<job["scheduler"].id, job["scheduler"].dev>>
  <2>3. x[1].of = "scheduler"
    BY <1>5
  <2>4. CASE \E d \in Device : CheckLog("scheduler", d)
    <3>1. PICK d \in Device : CheckLog("scheduler", d)
      BY <2>4
    <3>2. Doing("scheduler", "check") /\ UNCHANGED <<log, pushed>>
      BY <3>1 DEF CheckLog
    <3>3. \A y \in pushed : y[1].of = "scheduler" => y \in log
      BY <1>8, <3>2 DEF Logged, Doing
    <3>4. Doing("scheduler", "send")' =>
            <<job'["scheduler"].id, job'["scheduler"].dev>> \notin log
      <4>1. CASE <<job["scheduler"].id, d>> \notin log
        <5>1. \/ job' = [job EXCEPT !["scheduler"].pc = "send", !["scheduler"].dev = d,
                                    !["scheduler"].todo = @ \ {d}]
              \/ job' = [job EXCEPT !["scheduler"].todo = @ \ {d}]
          BY <3>1 DEF CheckLog
        <5>2. \/ job'["scheduler"].id = job["scheduler"].id /\ job'["scheduler"].dev = d
              \/ job'["scheduler"].pc = "check"
          BY <1>1, <1>4, <3>2, <5>1 DEF Jobs, Doing
        <5>3. QED
          BY <4>1, <5>2 DEF Doing
      <4>2. CASE <<job["scheduler"].id, d>> \in log
        <5>1. job' = [job EXCEPT !["scheduler"].todo = @ \ {d}]
          BY <2>1, <3>1, <4>2 DEF CheckLog
        <5>2. job'["scheduler"].pc = "check"
          BY <1>1, <1>4, <3>2, <5>1 DEF Jobs, Doing
        <5>3. QED
          BY <5>2 DEF Doing
      <4>3. QED
        BY <4>1, <4>2
    <3>5. job'["scheduler"].id.of = "scheduler" \/ ~Doing("scheduler", "send")'
      BY <1>1, <1>2 DEF PushTypes, JobsOK, Doing
    <3>6. Logged'
      <4>1. Doing("scheduler", "send")' =>
              <<job'["scheduler"].id, job'["scheduler"].dev>>[1].of = "scheduler"
        BY <3>5
      <4>2. QED
        BY <2>2, <3>2, <3>3, <3>4, <4>1 DEF Logged, Doing
    <3>7. QED
      BY <1>2, <1>3, <1>6, <3>6 DEF SchedulerInv, Doing
  <2>5. CASE Send("scheduler")
    <3>1. /\ Doing("scheduler", "send") /\ pushed' = pushed \cup {x} /\ log' = log
          /\ job' = [job EXCEPT !["scheduler"].pc = "mark"]
      BY <2>1, <2>5 DEF Send
    <3>2. Doing("scheduler", "mark")' /\ ~Doing("scheduler", "send")'
          /\ x = <<job'["scheduler"].id, job'["scheduler"].dev>>
      BY <1>1, <1>4, <3>1 DEF Doing, Jobs
    <3>3. \A y \in pushed : y[1].of = "scheduler" => y \in log
      BY <1>8, <3>1 DEF Logged, Doing
    <3>4. Logged'
      BY <2>2, <3>1, <3>2, <3>3 DEF Logged
    <3>5. QED
      BY <1>2, <1>3, <1>6, <3>4 DEF SchedulerInv, Doing
  <2>6. CASE MarkSent("scheduler")
    <3>1. Doing("scheduler", "mark") /\ pushed' = pushed /\ log' = log \cup {x} /\ Onward("scheduler")
      BY <2>1, <2>6 DEF MarkSent
    <3>2. ~Doing("scheduler", "mark")' /\ ~Doing("scheduler", "send")'
      BY <1>1, <1>4, <3>1 DEF Doing, Jobs, Onward
    <3>3. Logged'
      BY <1>8, <2>2, <3>1, <3>2 DEF Logged
    <3>4. QED
      BY <1>2, <1>3, <1>6, <3>3 DEF SchedulerInv, Doing
  <2>7. CASE Pushed("scheduler")
    <3>1. Doing("scheduler", "check") /\ UNCHANGED <<pushed, log>> /\ job'["scheduler"].pc = "idle"
      BY <1>1, <1>4, <2>7 DEF Pushed, NoJob
    <3>2. Logged'
      BY <1>8, <2>2, <3>1 DEF Logged, Doing
    <3>3. QED
      BY <1>2, <1>3, <1>6, <3>2 DEF SchedulerInv, Doing
  <2>8. QED
    BY <2>4, <2>5, <2>6, <2>7 DEF PushStep
<1>9. QED
  BY <1>5, <1>7, <1>8 DEF SchedulerInv, Unsent

\* What a scheduler relies on that is not sending.
LEMMA SchedulerWaits ==
  ASSUME PushTypes, SchedulerInv, ~Sending("scheduler"), ~Sending("scheduler")',
         UNCHANGED <<log, pushed>>, faults' \in Nat, faults <= faults',
         Over => Over',
         Doing("scheduler", "setLast")' => job'["scheduler"].id.n # 0,
         Doing("scheduler", "list")' =>
           job'["scheduler"].id.n # 0 /\ (lastRun' = job'["scheduler"].id.n \/ MaxFaults <= faults')
  PROVE  SchedulerInv'
<1>1. /\ ~Doing("scheduler", "mark") /\ ~Doing("scheduler", "send")
      /\ ~Doing("scheduler", "mark")' /\ ~Doing("scheduler", "send")'
  BY DEF Sending, Doing
<1>2. Unsent => Unsent'
  BY DEF Unsent
<1>3. Logged => Logged'
  BY <1>1, FaultAssumption DEF Logged, PushTypes
<1>4. QED
  BY <1>2, <1>3 DEF SchedulerInv

\* A job goes on to list the trips.
LEMMA JobLists ==
  ASSUME JobsOK, NEW p \in Process, p = "scheduler", Does(p, "list"), job[p].id.of = p
  PROVE  /\ JobsOK' /\ \A q \in Process \ {p} : job'[q] = job[q]
         /\ job'[p].pc = "list" /\ job'[p].id = job[p].id
<1>1. PICK j : j = [job[p] EXCEPT !.pc = "list"]
  OBVIOUS
<1>2. j \in Jobs /\ j.id = job[p].id /\ j.pc = "list"
  BY <1>1 DEF JobsOK, Jobs
<1>3. job' = [job EXCEPT ![p] = j]
  BY <1>1 DEF JobsOK, Jobs, Does
<1>4. j.id.of = p /\ j.pc \notin {"send", "mark"}
  BY <1>2
<1>5. QED
  BY <1>2, <1>3, <1>4, JobSet

\* A run begins, a day after the last.
LEMMA RunBegins ==
  ASSUME PushInv, RunIfDue
  PROVE  PushInv'
<1> USE DEF PushInv
<1>1. "worker" \in Process /\ "scheduler" \in Process /\ "scheduler" # "worker"
  BY DEF Process
<1>2. /\ Doing("scheduler", "idle")
      /\ UNCHANGED <<tripVars, workerVars, log, pushed, now, lastRun>>
      /\ Fault \/ UNCHANGED faults
      /\ \/ UNCHANGED job
         \/ /\ IsDue
            /\ job' = [job EXCEPT !["scheduler"] =
                         [NoJob EXCEPT !.pc = "setLast", !.id = Id("scheduler", now)]]
  BY DEF RunIfDue
<1>3. faults' \in Nat /\ faults <= faults'
  BY <1>2 DEF Fault, PushTypes
<1>4. UNCHANGED <<pending, events, read, at>>
  BY <1>2 DEF tripVars, workerVars
<1>5. CASE UNCHANGED job
  BY <1>2, <1>3, <1>4, <1>5, PushFrame DEF PushTypes, pushVars
<1>6. CASE IsDue /\ job' = [job EXCEPT !["scheduler"] =
                              [NoJob EXCEPT !.pc = "setLast", !.id = Id("scheduler", now)]]
  <2>1. PICK j : j = [NoJob EXCEPT !.pc = "setLast", !.id = Id("scheduler", now)]
    OBVIOUS
  <2>2. Id("scheduler", now) \in Ids /\ Id("scheduler", now).of = "scheduler"
        /\ Id("scheduler", now).n = now
    BY <1>1 DEF Id, Ids, PushTypes
  <2>3. j \in Jobs /\ j.pc = "setLast" /\ j.id = Id("scheduler", now)
    BY <2>1, <2>2, NoJobType DEF Jobs
  <2>4. JobsOK' /\ job'["scheduler"] = j /\ job'["worker"] = job["worker"]
    BY <1>1, <1>6, <2>1, <2>2, <2>3, JobSet DEF PushTypes
  <2>5. PushTypes'
    BY <1>2, <1>3, <1>4, <2>4 DEF PushTypes
  <2>6. WorkerInv'
    BY <1>2, <1>4, <2>4, WorkerAlone DEF PushTypes
  <2>7. /\ ~Sending("scheduler") /\ ~Sending("scheduler")' /\ ~Doing("scheduler", "send")'
        /\ ~Doing("scheduler", "list")'
    BY <1>2, <2>3, <2>4 DEF Sending, Doing
  <2>8. job'["scheduler"].id.n = now /\ now # 0 /\ now \in Nat
    BY <2>2, <2>3, <2>4 DEF PushTypes
  <2>9. Over => Over'
    <3> SUFFICES ASSUME Over PROVE Over'
      OBVIOUS
    <3>1. lastRun \in Nat /\ now - lastRun >= Day
      BY <1>6 DEF Over, IsDue, PushTypes
    <3>2. DayOf(lastRun) < DayOf(now)
      BY <2>8, <3>1, DayIsOver
    <3>3. Anniversary < DayOf(now)
      BY <2>8, <3>1, <3>2, DaysAre, TimeAssumption DEF Over
    <3>4. QED
      BY <1>2, <2>7, <2>8, <3>3 DEF Over, Fresh, DayOf
  <2>10. SchedulerInv'
    BY <1>2, <1>3, <2>7, <2>8, <2>9, SchedulerWaits
  <2>11. QED
    BY <2>5, <2>6, <2>10
<1>7. QED
  BY <1>2, <1>5, <1>6

\* The run is recorded before it starts.
LEMMA RunRecorded ==
  ASSUME PushInv, MaxFaults <= 1, SetLastRun
  PROVE  PushInv'
<1> USE DEF PushInv
<1>1. "worker" \in Process /\ "scheduler" \in Process /\ "scheduler" # "worker"
  BY DEF Process
<1>2. /\ Doing("scheduler", "setLast") /\ Does("scheduler", "list")
      /\ UNCHANGED <<tripVars, workerVars, log, pushed, now>>
      /\ \/ lastRun' = job["scheduler"].id.n /\ UNCHANGED faults
         \/ Fault /\ UNCHANGED lastRun
  BY DEF SetLastRun
<1>3. job["scheduler"] \in Jobs /\ job["scheduler"].id.of = "scheduler"
      /\ job["scheduler"].id.n \in Nat \ {0}
  BY <1>1, <1>2 DEF PushTypes, JobsOK, Jobs, Ids, Doing, SchedulerInv
<1>4. /\ JobsOK' /\ job'["worker"] = job["worker"]
      /\ job'["scheduler"].pc = "list" /\ job'["scheduler"].id = job["scheduler"].id
  BY <1>1, <1>2, <1>3, JobLists DEF PushTypes
<1>5. faults' \in Nat /\ faults <= faults' /\ (lastRun' = job["scheduler"].id.n \/ MaxFaults <= faults')
  BY <1>2, FaultAssumption DEF PushTypes, Fault
<1>6. UNCHANGED <<pending, events, read, at>>
  BY <1>2 DEF tripVars, workerVars
<1>7. PushTypes'
  BY <1>2, <1>3, <1>4, <1>5, <1>6 DEF PushTypes
<1>8. WorkerInv'
  BY <1>2, <1>4, <1>6, WorkerAlone DEF PushTypes
<1>9. /\ ~Sending("scheduler") /\ ~Sending("scheduler")' /\ ~Doing("scheduler", "send")'
       /\ ~Doing("scheduler", "setLast")'
  BY <1>2, <1>4 DEF Sending, Doing
<1>10. Over => Over'
  <2> SUFFICES ASSUME Over PROVE Over'
    OBVIOUS
  <2>1. Anniversary < DayOf(job["scheduler"].id.n) /\ job["scheduler"].id.n # 0
    BY <1>2, <1>3 DEF Over, Doing
  <2>2. Anniversary <= DayOf(job["scheduler"].id.n)
    BY <1>3, <2>1, DaysAre, TimeAssumption
  <2>3. lastRun' # 0 /\ Anniversary <= DayOf(lastRun')
    BY <1>2, <2>1, <2>2 DEF Over
  <2>4. QED
    BY <1>2, <1>4, <1>9, <2>1, <2>3 DEF Over, Fresh, DayOf
<1>11. SchedulerInv'
  BY <1>2, <1>3, <1>4, <1>5, <1>9, <1>10, SchedulerWaits
<1>12. QED
  BY <1>7, <1>8, <1>11

\* The trips of the day are pushed, which no later run is about.
LEMMA RunSends ==
  ASSUME PushInv, RunOnce
  PROVE  PushInv'
<1> USE DEF PushInv
<1>1. "worker" \in Process /\ "scheduler" \in Process /\ "scheduler" # "worker"
  BY DEF Process
<1>2. PICK today : today = DayOf(job["scheduler"].id.n)
  OBVIOUS
<1>3. /\ Doing("scheduler", "list")
      /\ UNCHANGED <<tripVars, workerVars, log, pushed, now, lastRun>>
      /\ \/ today = Anniversary /\ Resolve("scheduler", Id("scheduler", DayOf(now)), member)
         \/ /\ today # Anniversary => UNCHANGED faults
            /\ today # Anniversary \/ Fault
            /\ job' = [job EXCEPT !["scheduler"] = NoJob]
  BY <1>2 DEF RunOnce
<1>4. UNCHANGED <<pending, events, read, at>>
  BY <1>3 DEF tripVars, workerVars
<1>5. job["scheduler"].id.n \in Nat \ {0} /\ (lastRun = job["scheduler"].id.n \/ MaxFaults <= faults)
  BY <1>1, <1>3 DEF PushTypes, JobsOK, Jobs, Ids, Doing, SchedulerInv
<1>6. ~Sending("scheduler")
  BY <1>3 DEF Sending, Doing
<1>7. CASE job' = [job EXCEPT !["scheduler"] = NoJob] /\ (Fault \/ UNCHANGED faults)
  <2>1. JobsOK' /\ job'["scheduler"] = NoJob /\ job'["worker"] = job["worker"]
    BY <1>1, <1>7, NoJobType, JobSet DEF PushTypes
  <2>2. faults' \in Nat /\ faults <= faults'
    BY <1>7 DEF PushTypes, Fault
  <2>3. PushTypes'
    BY <1>3, <1>4, <2>1, <2>2 DEF PushTypes
  <2>4. WorkerInv'
    BY <1>3, <1>4, <2>1, WorkerAlone DEF PushTypes
  <2>5. /\ ~Sending("scheduler")' /\ job'["scheduler"].pc = "idle"
        /\ ~Doing("scheduler", "setLast")' /\ ~Doing("scheduler", "list")' /\ ~Doing("scheduler", "send")'
    BY <2>1, NoJobType DEF Sending, Doing
  <2>6. Over => Over'
    BY <1>3, <2>5 DEF Over, Fresh, DayOf
  <2>7. SchedulerInv'
    BY <1>3, <1>6, <2>2, <2>5, <2>6, SchedulerWaits
  <2>8. QED
    BY <2>3, <2>4, <2>7
<1>8. CASE today = Anniversary /\ Resolve("scheduler", Id("scheduler", DayOf(now)), member)
  <2>1. DayOf(now) \in Nat /\ JobsOK
    BY DaysAre DEF PushTypes
  <2>2. /\ JobsOK' /\ job'["worker"] = job["worker"]
        /\ job'["scheduler"].pc = "check" /\ job'["scheduler"].id = Id("scheduler", DayOf(now))
        /\ Fault \/ UNCHANGED faults
    BY <1>1, <1>8, <2>1, ResolveMoves
  <2>3. faults' \in Nat /\ faults <= faults'
    BY <2>2 DEF PushTypes, Fault
  <2>4. PushTypes'
    BY <1>3, <1>4, <2>2, <2>3 DEF PushTypes
  <2>5. WorkerInv'
    BY <1>3, <1>4, <2>2, WorkerAlone DEF PushTypes
  <2>6. /\ ~Doing("scheduler", "setLast")' /\ ~Doing("scheduler", "list")'
        /\ ~Doing("scheduler", "send")' /\ ~Doing("scheduler", "mark")'
    BY <2>2 DEF Doing
  <2>7. ~Over
    BY <1>2, <1>3, <1>8, TimeAssumption DEF Over, Doing
  <2>8. CASE Unsent
    <3>1. job'["scheduler"].id.of = "scheduler"
      BY <2>2 DEF Id
    <3>2. Fresh("scheduler")'
      BY <1>3, <2>6, <2>8, <3>1 DEF Fresh, Unsent
    <3>3. CASE lastRun = job["scheduler"].id.n
      <4>1. Anniversary <= DayOf(lastRun)
        BY <1>2, <1>8, <3>3, AnniversaryIs
      <4>2. Over'
        BY <1>3, <1>5, <2>2, <3>2, <3>3, <4>1 DEF Over, DayOf
      <4>3. QED
        BY <2>4, <2>5, <2>6, <4>2 DEF SchedulerInv
    <3>4. CASE MaxFaults <= faults
      <4>1. Logged'
        BY <1>3, <2>3, <2>6, <2>8, <3>4, FaultAssumption DEF Logged, Unsent, PushTypes
      <4>2. QED
        BY <2>4, <2>5, <2>6, <4>1 DEF SchedulerInv
    <3>5. QED
      BY <1>5, <3>3, <3>4
  <2>9. CASE Logged
    <3>1. ~Doing("scheduler", "mark")
      BY <1>3 DEF Doing
    <3>2. Logged'
      BY <1>3, <2>3, <2>6, <2>9, <3>1, FaultAssumption DEF Logged, PushTypes
    <3>3. QED
      BY <2>4, <2>5, <2>6, <3>2 DEF SchedulerInv
  <2>10. QED
    BY <2>7, <2>8, <2>9 DEF SchedulerInv
<1>9. QED
  BY <1>3, <1>7, <1>8

\* The process starts again, after what it had read.
LEMMA RestartPushes ==
  ASSUME PushInv, Crash \/ Redeploy
  PROVE  PushInv'
<1> USE DEF PushInv
<1>1. "worker" \in Process /\ "scheduler" \in Process
  BY DEF Process
<1>2. /\ at' = read /\ job' = [p \in Process |-> NoJob]
      /\ UNCHANGED <<tripVars, read, log, pushed, now, lastRun>>
      /\ \/ Fault
         \/ /\ UNCHANGED faults /\ \A p \in Process : Doing(p, "idle")
  BY DEF Crash, Redeploy, Restarts
<1>3. faults' \in Nat /\ faults <= faults'
  BY <1>2 DEF PushTypes, Fault
<1>4. \A p \in Process : job'[p].pc = "idle"
  BY <1>2, NoJobType
<1>5. JobsOK'
  BY <1>1, <1>2, <1>4, NoJobType DEF JobsOK, Doing
<1>6. PushTypes'
  BY <1>2, <1>3, <1>5 DEF PushTypes, tripVars
<1>7. \A p \in Process : ~Sending(p)' /\ \A pc \in {"send", "mark", "list", "setLast"} : ~Doing(p, pc)'
  BY <1>4 DEF Sending, Doing
<1>8. WorkerInv'
  <2>1. \A x \in pushed : x[1].of = "worker" => x[1].n <= at \/ (x[1].n = at + 1 /\ at < read)
    BY DEF WorkerInv, Id
  <2>2. \A x \in pushed : x[1].n \in Nat
    BY DEF PushTypes, Ids
  <2>3. \A x \in pushed : x[1].of = "worker" => x[1].n <= read
    BY <2>1, <2>2 DEF PushTypes
  <2>4. QED
    BY <1>1, <1>2, <1>7, <2>3 DEF WorkerInv, Fresh
<1>9. SchedulerInv'
  <2>1. Over => Over'
    BY <1>1, <1>2, <1>4, <1>7 DEF Over, Fresh, DayOf
  <2>2. Unsent => Unsent'
    BY <1>1, <1>2, <1>7 DEF Unsent
  <2>3. Logged => Logged'
    <3> SUFFICES ASSUME Logged PROVE Logged'
      OBVIOUS
    <3>1. ~Fault
      BY FaultAssumption DEF Logged, Fault, PushTypes
    <3>2. Doing("scheduler", "idle")
      BY <1>1, <1>2, <3>1
    <3>3. QED
      BY <1>1, <1>2, <1>3, <1>7, <3>2, FaultAssumption DEF Logged, PushTypes, Doing
  <2>4. QED
    BY <1>1, <1>7, <2>1, <2>2, <2>3 DEF SchedulerInv
<1>10. QED
  BY <1>6, <1>8, <1>9

\* The start, with nothing pushed.
LEMMA PushStart == Init => PushInv
<1> SUFFICES ASSUME Init PROVE PushInv
  OBVIOUS
<1>1. /\ job = [p \in Process |-> NoJob] /\ pushed = {} /\ pending = {} /\ events = <<>>
      /\ read = 0 /\ at = 0 /\ lastRun = 0 /\ now \in Nat \ {0} /\ faults = 0
  BY TimeAssumption DEF Init, NoticeInit, AccountsInit
<1>2. "worker" \in Process /\ "scheduler" \in Process
  BY DEF Process
<1>3. \A p \in Process : job[p] = NoJob /\ ~Sending(p) /\ job[p].pc = "idle"
  BY <1>1, NoJobType DEF Sending
<1>4. PushTypes
  BY <1>1, <1>2, <1>3, NoJobType DEF PushTypes, JobsOK, Doing
<1>5. WorkerInv
  BY <1>1, <1>2, <1>3 DEF WorkerInv, Fresh, Doing
<1>6. SchedulerInv
  BY <1>1, <1>2, <1>3 DEF SchedulerInv, Unsent, Doing
<1>7. QED
  BY <1>4, <1>5, <1>6 DEF PushInv

LEMMA PushNext ==
  ASSUME MaxFaults <= 1, PushInv, [Next]_vars
  PROVE  PushInv'
<1>1. CASE AccountsNext /\ UNCHANGED noticeVars
  BY <1>1, AccountFaults, PushFrame DEF PushInv, PushTypes, noticeVars, tripVars, workerVars,
     clockVars
<1>2. CASE NoticeNext
  BY <1>2, TripPushes, ReadPushes, WorkerPushes, WorkerResolves, SchedulerPushes, RunBegins,
     RunRecorded, RunSends, RestartPushes DEF NoticeNext, Work, Schedule
<1>3. CASE UNCHANGED vars
  BY <1>3, PushFrame DEF PushInv, PushTypes, vars, accountVars, noticeVars, tripVars, workerVars,
     clockVars
<1>4. QED
  BY <1>1, <1>2, <1>3 DEF Next

\* A device is pushed an event at most once, and an anniversary at most once a day,
\* whatever single failure there is, for every number of accounts, devices and events
\* and every length of a day and of an hour.
THEOREM PushesOnce ==
  ASSUME MaxFaults <= 1
  PROVE  Spec => PushedOnce
<1>1. Init => PushInv
  BY PushStart
<1>2. PushInv /\ [Next]_vars => PushInv'
  BY PushNext
<1>3. ASSUME PushInv, NEW p \in Process, Doing(p, "send")
      PROVE  <<job[p].id, job[p].dev>> \notin pushed
  <2>1. Sending(p) /\ job[p].dev \in Ahead(p)
    BY <1>3 DEF Sending, Ahead, Doing
  <2>2. \A x : x = <<job[p].id, job[p].dev>> => x[1] = job[p].id /\ x[2] = job[p].dev
    OBVIOUS
  <2>3. Fresh(p) => <<job[p].id, job[p].dev>> \notin pushed
    BY <2>1, <2>2 DEF Fresh
  <2>4. p = "worker" \/ p = "scheduler"
    BY DEF Process
  <2>5. QED
    BY <1>3, <2>1, <2>3, <2>4 DEF PushInv, WorkerInv, SchedulerInv, Over, Unsent, Logged
<1>4. PushInv => \A p \in Process :
        Doing(p, "send") /\ job'[p].pc = "mark" => <<job[p].id, job[p].dev>> \notin pushed
  BY <1>3
<1>5. QED
  BY <1>1, <1>2, <1>4, PTL DEF Spec, PushedOnce
=============================================================================
