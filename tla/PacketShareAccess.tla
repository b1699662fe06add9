-------------------------- MODULE PacketShareAccess ---------------------------
(***************************************************************************)
(* The public side of one packet share: its recipients ask for one-time    *)
(* codes, turn them into an access token, read the packet and comment,     *)
(* while the owner revokes the share or it expires.  A visitor is a        *)
(* request of the public API in flight; each awaited call is a step.       *)
(***************************************************************************)
EXTENDS Environment

CONSTANTS
  Visitors, Recipients, Codes,  \* requests, invited people, challenges to come
  AccessLifetime,  \* accessLifetimeMs, 1 h
  CodeLifetime,    \* challengeLifetimeMs, 10 min
  Cooldown,        \* challengeCooldownMs, 1 min
  MaxGuesses       \* maximumChallengeAttempts, 5

ASSUME AccessAssumption ==
  /\ AccessLifetime \in Nat \ {0} /\ CodeLifetime \in Nat \ {0}
  /\ Cooldown \in Nat /\ MaxGuesses \in Nat \ {0}
  /\ Null \notin Codes

VARIABLES
  share,    \* the PacketShare row
  code,     \* code[c]: the PacketShareAccessChallenge rows
  visitor,  \* visitor[v]: next step, what it asks for, what it has read
  accessTokens,   \* external: every access token that was signed
  granted,  \* history: granted[c], the tokens signed for code c
  served    \* history: a token was exchanged for the packet or a comment

accessVars == <<share, code, visitor, accessTokens, granted, served, clock>>

(* Reading the packet and commenting take the same steps.                  *)
VisitorOperations == {"request", "verify", "read"}

Shares == [status : {"ACTIVE", "REVOKED", "DELETED"}, expiresAt : Stamp, verified : BOOLEAN]

Challenges ==
  [status : {"ABSENT", "LIVE", "WITHDRAWN"}, recipient : Recipients \cup {Null},
   mailed : BOOLEAN, attemptCount : Nat, createdAt : Stamp, expiresAt : Stamp,
   consumed : BOOLEAN]

AccessTokens == [recipient : Recipients, expiresAt : Nat, from : Codes \cup {Null}]

VisitorStates ==
  [pc : {"idle", "recent", "create", "mail", "withdraw", "challenge", "count",
         "consume", "sign", "serve"},
   op : VisitorOperations, recipient : Recipients \cup {Null}, code : Codes \cup {Null},
   right : BOOLEAN, now : Nat]

AccessTypeOK ==
  /\ share \in Shares
  /\ code \in [Codes -> Challenges]
  /\ visitor \in [Visitors -> VisitorStates]
  /\ accessTokens \subseteq AccessTokens
  /\ granted \in [Codes -> Nat]
  /\ served \in BOOLEAN /\ clock \in Nat

NoVisitor == [pc |-> "idle", op |-> "request", recipient |-> Null, code |-> Null,
              right |-> FALSE, now |-> 0]

NoCode == [status |-> "ABSENT", recipient |-> Null, mailed |-> FALSE, attemptCount |-> 0,
           createdAt |-> Null, expiresAt |-> Null, consumed |-> FALSE]

AccessInit ==
  /\ share \in [status : {"ACTIVE"}, expiresAt : {Null, MaxClock}, verified : BOOLEAN]
  /\ code = [c \in Codes |-> NoCode]
  /\ visitor = [v \in Visitors |-> NoVisitor]
  /\ accessTokens = {} /\ granted = [c \in Codes |-> 0] /\ served = FALSE
  /\ clock = 0

To(v, pc) == visitor' = [visitor EXCEPT ![v].pc = pc]
Answer(v) == visitor' = [visitor EXCEPT ![v] = NoVisitor]

-----------------------------------------------------------------------------
(* The owner and time.                                                     *)

RevokeShare ==
  /\ share.status = "ACTIVE"
  /\ share' = [share EXCEPT !.status = "REVOKED"]
  /\ UNCHANGED <<code, visitor, accessTokens, granted, served, clock>>

(* The case goes, and the share and its challenges with it.                *)
DeleteShare ==
  /\ share.status # "DELETED"
  /\ share' = [share EXCEPT !.status = "DELETED"]
  /\ code' = [c \in Codes |->
       IF code[c].status = "LIVE" THEN [code[c] EXCEPT !.status = "WITHDRAWN"] ELSE code[c]]
  /\ UNCHANGED <<visitor, accessTokens, granted, served, clock>>

AccessTick ==
  /\ ClockTick
  /\ UNCHANGED <<share, code, visitor, accessTokens, granted, served>>

-----------------------------------------------------------------------------
(* Every request starts with the link, and most with the invited email.    *)

Active == share.status = "ACTIVE" /\ ~Passed(share.expiresAt)

(* A recipient types its email, and a code that was mailed or a guess; who *)
(* reads or comments has a token that jwtService still accepts.            *)
Opens(v) ==
  LET Opened(r) == visitor' = [visitor EXCEPT ![v] = r] IN
  \/ \E r \in Recipients :
       Opened([NoVisitor EXCEPT !.pc = IF share.verified THEN "recent" ELSE "sign",
                                !.recipient = r])
  \/ \E r \in Recipients, c \in Codes, right \in BOOLEAN :
       /\ code[c].status # "ABSENT" /\ (right => code[c].mailed)
       /\ Opened([NoVisitor EXCEPT !.pc = "challenge", !.op = "verify", !.recipient = r,
                                   !.code = c, !.right = right])
  \/ \E t \in accessTokens :
       /\ t.expiresAt > clock
       /\ Opened([NoVisitor EXCEPT !.pc = "serve", !.op = "read", !.recipient = t.recipient])

(* Mutation: the revocation is not looked at.                              *)
LoadRevoked(v) ==
  /\ visitor[v].pc = "idle"
  /\ share.status # "DELETED" /\ ~Passed(share.expiresAt)
  /\ Opens(v)
  /\ UNCHANGED <<share, code, accessTokens, granted, served, clock>>

(* loadActiveShare: a request of a share that is not active ends here.     *)
Load(v) ==
  /\ visitor[v].pc = "idle" /\ Active /\ Opens(v)
  /\ UNCHANGED <<share, code, accessTokens, granted, served, clock>>

-----------------------------------------------------------------------------
(* A code is asked for.                                                    *)

Recent(r) ==
  \E c \in Codes :
    /\ code[c].status = "LIVE" /\ code[c].recipient = r /\ ~code[c].consumed
    /\ code[c].createdAt > clock - Cooldown /\ code[c].expiresAt > clock

FindRecent(v) ==
  /\ visitor[v].pc = "recent"
  /\ \/ /\ ~Recent(visitor[v].recipient)
        /\ \E c \in Codes :
             /\ code[c].status = "ABSENT" /\ \A w \in Visitors : visitor[w].code # c
             /\ visitor' = [visitor EXCEPT ![v].pc = "create", ![v].code = c,
                                           ![v].now = clock]
     \/ /\ \/ Recent(visitor[v].recipient) \/ Faulty("database")
           \/ \A c \in Codes : code[c].status # "ABSENT"  \* bound: no more codes
        /\ Answer(v)
  /\ UNCHANGED <<share, code, accessTokens, granted, served, clock>>

CreateCode(v) ==
  /\ visitor[v].pc = "create"
  /\ LET c == visitor[v].code IN
       \/ /\ share.status # "DELETED"
          /\ code' = [code EXCEPT ![c] = [NoCode EXCEPT
               !.status = "LIVE", !.recipient = visitor[v].recipient, !.createdAt = clock,
               !.expiresAt = visitor[v].now + CodeLifetime]]
          /\ To(v, "mail")
       \/ (share.status = "DELETED" \/ Faulty("database")) /\ Answer(v) /\ UNCHANGED code
  /\ UNCHANGED <<share, accessTokens, granted, served, clock>>

(* The mailer takes the message, or throws, or throws after it was sent.   *)
MailCode(v) ==
  /\ visitor[v].pc = "mail"
  /\ LET mailed == [code EXCEPT ![visitor[v].code].mailed = TRUE] IN
       \/ code' = mailed /\ Answer(v)
       \/ Faulty("mail") /\ code' \in {code, mailed} /\ To(v, "withdraw")
  /\ UNCHANGED <<share, accessTokens, granted, served, clock>>

WithdrawCode(v) ==
  /\ visitor[v].pc = "withdraw"
  /\ LET c == visitor[v].code IN
       \/ /\ code[c].status = "LIVE" /\ ~code[c].consumed
          /\ code' = [code EXCEPT ![c].status = "WITHDRAWN"]
       \/ /\ code[c].status # "LIVE" \/ code[c].consumed \/ Faulty("database")
          /\ UNCHANGED code
  /\ Answer(v)
  /\ UNCHANGED <<share, accessTokens, granted, served, clock>>

-----------------------------------------------------------------------------
(* A code is verified.                                                     *)

Usable(c, now) ==
  /\ code[c].status = "LIVE" /\ ~code[c].consumed
  /\ code[c].expiresAt > now /\ code[c].attemptCount < MaxGuesses

(* Mutation: the code is looked up by its id alone.                        *)
FindCodeById(v) ==
  /\ visitor[v].pc = "challenge"
  /\ \/ /\ Usable(visitor[v].code, clock)
        /\ visitor' = [visitor EXCEPT ![v].now = clock,
                         ![v].pc = IF visitor[v].right THEN "consume" ELSE "count"]
     \/ Answer(v)
  /\ UNCHANGED <<share, code, accessTokens, granted, served, clock>>

FindCode(v) ==
  /\ visitor[v].pc = "challenge"
  /\ LET found == /\ code[visitor[v].code].recipient = visitor[v].recipient
                  /\ Usable(visitor[v].code, clock) IN
       \/ /\ found
          /\ visitor' = [visitor EXCEPT ![v].now = clock,
                           ![v].pc = IF visitor[v].right THEN "consume" ELSE "count"]
       \/ (~found \/ Faulty("database")) /\ Answer(v)
  /\ UNCHANGED <<share, code, accessTokens, granted, served, clock>>

Countable(c) ==
  code[c].status = "LIVE" /\ ~code[c].consumed /\ code[c].attemptCount < MaxGuesses

CountGuess(v) ==
  /\ visitor[v].pc = "count"
  /\ LET c == visitor[v].code IN
       \/ Countable(c) /\ code' = [code EXCEPT ![c].attemptCount = @ + 1]
       \/ (~Countable(c) \/ Faulty("database")) /\ UNCHANGED code
  /\ Answer(v)
  /\ UNCHANGED <<share, accessTokens, granted, served, clock>>

(* Mutation: the update compares the id alone.                             *)
ConsumableById(c, now) == code[c].status = "LIVE"

(* Mutation: the update does not compare the number of attempts.           *)
ConsumableOnce(c, now) ==
  code[c].status = "LIVE" /\ ~code[c].consumed /\ code[c].expiresAt > now

Consumable(c, now) == Usable(c, now)

(* One transaction; when its answer is lost the code is spent for nothing. *)
ConsumeCode(v) ==
  /\ visitor[v].pc = "consume"
  /\ LET c == visitor[v].code
         spent == [code EXCEPT ![c].attemptCount = @ + 1, ![c].consumed = TRUE] IN
       \/ /\ Consumable(c, visitor[v].now)
          /\ code' = spent /\ (To(v, "sign") \/ (Faulty("database") /\ Answer(v)))
       \/ /\ ~Consumable(c, visitor[v].now) \/ Faulty("database")
          /\ Answer(v) /\ UNCHANGED code
  /\ UNCHANGED <<share, accessTokens, granted, served, clock>>

LifetimeEnd ==
  LET end == clock + AccessLifetime
      capped == IF share.expiresAt = Null \/ end <= share.expiresAt
                  THEN end ELSE share.expiresAt IN
  IF capped <= clock THEN clock + 1 ELSE capped

(* lastAccessedAt is written before, in the transaction or on its own.     *)
SignAccess(v) ==
  /\ visitor[v].pc = "sign"
  /\ \/ /\ accessTokens' = accessTokens \cup {[recipient |-> visitor[v].recipient,
                                  expiresAt |-> LifetimeEnd, from |-> visitor[v].code]}
        /\ granted' = [c \in Codes |->
             IF c = visitor[v].code THEN granted[c] + 1 ELSE granted[c]]
     \/ Faulty("database") /\ visitor[v].op = "request" /\ UNCHANGED <<accessTokens, granted>>
  /\ Answer(v)
  /\ UNCHANGED <<share, code, served, clock>>

-----------------------------------------------------------------------------
(* The packet is read or commented.                                        *)

Serve(v) ==
  /\ visitor[v].pc = "serve"
  /\ \/ served' = TRUE
     \/ (share.status = "DELETED" \/ Faulty("database")) /\ UNCHANGED served
  /\ Answer(v)
  /\ UNCHANGED <<share, code, accessTokens, granted, clock>>

VisitorStep(v) ==
  \/ FindRecent(v) \/ CreateCode(v) \/ MailCode(v) \/ WithdrawCode(v)
  \/ FindCode(v) \/ CountGuess(v) \/ ConsumeCode(v) \/ SignAccess(v) \/ Serve(v)

(* The API process dies: the request is gone, what it wrote stays.         *)
DropVisitor(v) ==
  /\ visitor[v].pc # "idle" /\ Faulty("crash")
  /\ Answer(v)
  /\ UNCHANGED <<share, code, accessTokens, granted, served, clock>>

AccessNext ==
  \/ RevokeShare \/ DeleteShare \/ AccessTick
  \/ \E v \in Visitors : Load(v) \/ VisitorStep(v) \/ DropVisitor(v)

AccessSpec == AccessInit /\ [][AccessNext]_accessVars

-----------------------------------------------------------------------------
(* Properties.                                                             *)

(* A code is good for one access token, however many requests verify it    *)
(* at once and whatever answers are lost.                                  *)
OneAccessPerCode == \A c \in Codes : granted[c] <= 1

(* docs/architecture.md:74: where a share asks for verification, whoever   *)
(* holds a token has used up a code of at most MaxGuesses attempts that    *)
(* was mailed to that same recipient.                                      *)
AccessIsEarned ==
  share.verified =>
    \A t \in accessTokens :
      \E c \in Codes :
        /\ t.from = c /\ code[c].recipient = t.recipient
        /\ code[c].mailed /\ code[c].consumed /\ code[c].attemptCount <= MaxGuesses

(* What the two rest on.  A code that was never made is blank, and a token *)
(* is signed once the code is spent.                                       *)
CodeOK(c) ==
  /\ code[c].status = "ABSENT" => code[c] = NoCode
  /\ code[c].attemptCount <= MaxGuesses
  /\ granted[c] <= 1 /\ (granted[c] = 1 => code[c].consumed)

Answers(v) ==
  LET c == visitor[v].code IN
  /\ c \in Codes
  /\ code[c].status # "ABSENT" /\ code[c].recipient = visitor[v].recipient /\ code[c].mailed

(* A request is alone with the code it makes, and with the token it signs. *)
VisitorOK(v) ==
  LET me == visitor[v]
      others == Visitors \ {v} IN
  /\ me.pc # "idle" => me.recipient \in Recipients
  /\ me.pc = "create" =>
       /\ me.code \in Codes /\ code[me.code].status = "ABSENT"
       /\ \A w \in others : visitor[w].code # me.code
  /\ me.pc \in {"mail", "withdraw", "challenge", "count", "consume"} =>
       me.code \in Codes /\ code[me.code].status # "ABSENT"
  /\ me.pc = "challenge" /\ me.right => code[me.code].mailed
  /\ me.pc = "consume" => Answers(v)
  /\ me.pc = "sign" =>
       \/ me.code = Null /\ ~share.verified
       \/ /\ Answers(v) /\ code[me.code].consumed /\ granted[me.code] = 0
          /\ \A w \in others : visitor[w].pc = "sign" => visitor[w].code # me.code

(* Whatever requests overlap: a mailed code earns one token, for the       *)
(* recipient it was mailed to, and none once it was withdrawn or guessed   *)
(* too often.                                                              *)
AccessInv ==
  /\ AccessTypeOK
  /\ \A c \in Codes : CodeOK(c)
  /\ \A v \in Visitors : VisitorOK(v)
  /\ AccessIsEarned

(* A code that was withdrawn, or whose attempts ran out, stays unused:     *)
(* not even a right answer that was compared before can spend it.          *)
DeadCodeStaysDead ==
  [][\A c \in Codes :
       ~code[c].consumed /\ (code[c].status = "WITHDRAWN" \/ code[c].attemptCount = MaxGuesses)
         => ~code'[c].consumed /\ code'[c].attemptCount = code[c].attemptCount]_accessVars

(* Once the share is revoked, deleted or expired and the requests that had *)
(* found it active are through, it is closed for good: whatever tokens and *)
(* codes are still about, no request gets as far as a code, a token, the   *)
(* packet or a comment.                                                    *)
ClosedShareStaysClosed ==
  [][~Active /\ (\A v \in Visitors : visitor[v].pc = "idle") =>
       UNCHANGED <<visitor, accessTokens, served, granted>>]_accessVars
=============================================================================
