---------------------------- MODULE DecisionProofs -----------------------------
(***************************************************************************)
(* Who may do what, for any number of requests and persons: the recipients *)
(* of a shared packet, the sessions of an account, the members of a team.  *)
(***************************************************************************)
EXTENDS PacketShareAccess, Accounts, Collaboration, TLAPS

-----------------------------------------------------------------------------
(* A code is good for one access token, a token is earned by a code.        *)

(* What a request starts with.                                             *)
LEMMA OpeningShape ==
  ASSUME AccessTypeOK, NEW v \in Visitors, Opens(v)
  PROVE  \E r \in VisitorStates :
           /\ visitor' = [visitor EXCEPT ![v] = r] /\ r.recipient \in Recipients
           /\ \/ r.pc = "recent" /\ r.code = Null
              \/ r.pc = "sign" /\ r.code = Null /\ ~share.verified
              \/ r.pc = "challenge" /\ r.code \in Codes /\ code[r.code].status # "ABSENT"
                   /\ (r.right => code[r.code].mailed)
              \/ r.pc = "serve" /\ r.code = Null
<1> USE DEF NoVisitor, VisitorStates, VisitorOperations
<1> DEFINE Goal(r) ==
      /\ visitor' = [visitor EXCEPT ![v] = r] /\ r.recipient \in Recipients
      /\ \/ r.pc = "recent" /\ r.code = Null
         \/ r.pc = "sign" /\ r.code = Null /\ ~share.verified
         \/ r.pc = "challenge" /\ r.code \in Codes /\ code[r.code].status # "ABSENT"
              /\ (r.right => code[r.code].mailed)
         \/ r.pc = "serve" /\ r.code = Null
<1>1. ASSUME NEW who \in Recipients,
             visitor' = [visitor EXCEPT ![v] =
               [NoVisitor EXCEPT !.pc = IF share.verified THEN "recent" ELSE "sign",
                                 !.recipient = who]]
      PROVE  \E r \in VisitorStates : Goal(r)
  <2> DEFINE r == [NoVisitor EXCEPT !.pc = IF share.verified THEN "recent" ELSE "sign",
                                    !.recipient = who]
  <2>1. r \in VisitorStates /\ Goal(r) BY <1>1
  <2> QED BY <2>1
<1>2. ASSUME NEW who \in Recipients, NEW c \in Codes, NEW right \in BOOLEAN,
             code[c].status # "ABSENT", right => code[c].mailed,
             visitor' = [visitor EXCEPT ![v] =
               [NoVisitor EXCEPT !.pc = "challenge", !.op = "verify", !.recipient = who,
                                 !.code = c, !.right = right]]
      PROVE  \E r \in VisitorStates : Goal(r)
  <2> DEFINE r == [NoVisitor EXCEPT !.pc = "challenge", !.op = "verify", !.recipient = who,
                                    !.code = c, !.right = right]
  <2>1. r \in VisitorStates /\ Goal(r) BY <1>2
  <2> QED BY <2>1
<1>3. ASSUME NEW t \in accessTokens,
             visitor' = [visitor EXCEPT ![v] =
               [NoVisitor EXCEPT !.pc = "serve", !.op = "read", !.recipient = t.recipient]]
      PROVE  \E r \in VisitorStates : Goal(r)
  <2> DEFINE r == [NoVisitor EXCEPT !.pc = "serve", !.op = "read", !.recipient = t.recipient]
  <2>1. t \in AccessTokens BY DEF AccessTypeOK
  <2>2. r \in VisitorStates /\ Goal(r) BY <1>3, <2>1 DEF AccessTokens
  <2> QED BY <2>2
<1> HIDE DEF Goal
<1>4. \E r \in VisitorStates : Goal(r) BY <1>1, <1>2, <1>3 DEF Opens
<1> QED BY <1>4 DEF Goal

LEMMA AccessInvInit == AccessInit => AccessInv
<1> SUFFICES ASSUME AccessInit PROVE AccessInv OBVIOUS
<1> USE AccessAssumption, EnvironmentAssumption
<1>1. NoCode \in Challenges /\ NoVisitor \in VisitorStates
  BY DEF NoCode, Challenges, NoVisitor, VisitorStates, VisitorOperations, Stamp
<1>2. AccessTypeOK BY <1>1 DEF AccessInit, AccessTypeOK, Shares, Stamp
<1>3. \A c \in Codes : CodeOK(c) BY DEF AccessInit, CodeOK, NoCode
<1>4. \A v \in Visitors : VisitorOK(v) BY DEF AccessInit, VisitorOK, NoVisitor
<1> QED BY <1>2, <1>3, <1>4 DEF AccessInv, AccessIsEarned, AccessInit

(* A step that writes no row, and leaves its request with nothing to lose. *)
LEMMA QuietStep ==
  ASSUME AccessInv, NEW v \in Visitors, NEW r \in VisitorStates,
         visitor' = [visitor EXCEPT ![v] = r], r.pc # "idle" => r.recipient \in Recipients,
         r.pc = "create" => r.code \in Codes /\ code[r.code].status = "ABSENT"
                            /\ \A w \in Visitors \ {v} : visitor[w].code # r.code,
         r.pc \in {"mail", "withdraw", "challenge", "count", "consume"}
           => r.code \in Codes /\ code[r.code].status # "ABSENT",
         r.pc = "challenge" /\ r.right => code[r.code].mailed,
         r.pc = "consume" => code[r.code].recipient = r.recipient /\ code[r.code].mailed,
         r.pc = "sign" => r.code = Null /\ ~share.verified,
         \A w \in Visitors \ {v} : visitor[w].pc = "create" => visitor[w].code # r.code,
         served' \in {served, TRUE}, UNCHANGED <<share, code, accessTokens, granted, clock>>
  PROVE  AccessInv'
<1> USE DEF AccessInv
<1>1. AccessTypeOK' BY DEF AccessTypeOK
<1>2. (\A c \in Codes : CodeOK(c))' BY DEF CodeOK
<1>3. ASSUME NEW w \in Visitors PROVE VisitorOK(w)'
  <2>1. CASE w = v BY <2>1, AccessAssumption DEF VisitorOK, Answers, AccessTypeOK
  <2>2. CASE w # v BY <2>2, AccessAssumption DEF VisitorOK, Answers, AccessTypeOK
  <2> QED BY <2>1, <2>2
<1>4. AccessIsEarned' BY DEF AccessIsEarned
<1> QED BY <1>1, <1>2, <1>3, <1>4

(* A step that writes the code of its request: a code keeps its recipient, *)
(* and that it was mailed, spent and how often it was tried by then.       *)
LEMMA CodeStep ==
  ASSUME AccessInv, NEW v \in Visitors, NEW r \in VisitorStates, NEW new \in Challenges,
         NEW c \in Codes, c = visitor[v].code,
         visitor[v].pc \in {"create", "mail", "withdraw", "count", "consume"},
         visitor' = [visitor EXCEPT ![v] = r], r.code \in {c, Null},
         code' = [code EXCEPT ![c] = new],
         new.status # "ABSENT", new.attemptCount <= MaxGuesses,
         code[c].status # "ABSENT" => new.recipient = code[c].recipient,
         code[c].mailed => new.mailed,
         code[c].consumed => new.consumed /\ new.attemptCount = code[c].attemptCount,
         r.pc \in {"idle", "mail", "withdraw", "sign"},
         r.pc # "idle" => r.code = c /\ r.recipient = visitor[v].recipient,
         r.pc = "sign" => /\ visitor[v].pc = "consume" /\ ~code[c].consumed
                          /\ new.consumed,
         UNCHANGED <<share, accessTokens, granted, served, clock>>
  PROVE  AccessInv'
<1> USE DEF AccessInv
<1>1. AccessTypeOK' BY DEF AccessTypeOK
<1>2. ASSUME NEW d \in Codes PROVE CodeOK(d)'
  <2>1. CASE d = c BY <2>1 DEF CodeOK, AccessTypeOK, NoCode
  <2>2. CASE d # c BY <2>2 DEF CodeOK, AccessTypeOK
  <2> QED BY <2>1, <2>2
<1>3. ASSUME NEW w \in Visitors PROVE VisitorOK(w)'
  <2> VisitorOK(v) /\ VisitorOK(w) OBVIOUS
  <2> code' \in [Codes -> Challenges] /\ code \in [Codes -> Challenges]
      /\ granted \in [Codes -> Nat] /\ visitor \in [Visitors -> VisitorStates]
    BY <1>1 DEF AccessTypeOK
  <2>1. CASE w = v
    <3>1. visitor'[w] = r BY <2>1
    <3>2. CASE r.pc = "sign"
      <4>1. Answers(v) BY <3>2 DEF VisitorOK
      <4>2. granted[c] = 0 BY <3>2 DEF CodeOK
      <4>3. \A x \in Visitors \ {v} : visitor[x].pc = "sign" => visitor[x].code # c
        BY <3>2, AccessAssumption DEF VisitorOK
      <4> QED BY <2>1, <3>1, <3>2, <4>1, <4>2, <4>3 DEF VisitorOK, Answers
    <3>3. CASE r.pc # "sign" BY <2>1, <3>1, <3>3 DEF VisitorOK
    <3> QED BY <3>2, <3>3
  <2>2. CASE w # v
    <3>1. visitor'[w] = visitor[w] BY <2>2
    <3>2. visitor[w].pc = "create" => visitor[w].code # c BY <2>2 DEF VisitorOK
    <3>3. Answers(w) => Answers(w)'
      BY <3>1 DEF Answers
    <3>4. CASE visitor[w].pc = "sign"
      <4>1. visitor'[v].pc = "sign" => visitor'[v].code # visitor[w].code
        BY <3>4, AccessAssumption DEF VisitorOK
      <4> QED BY <2>2, <3>1, <3>3, <3>4, <4>1, AccessAssumption DEF VisitorOK, Answers
    <3>5. CASE visitor[w].pc # "sign"
      BY <2>2, <3>1, <3>2, <3>3, <3>5, AccessAssumption DEF VisitorOK
    <3> QED BY <3>4, <3>5
  <2> QED BY <2>1, <2>2
<1>4. ASSUME NEW t \in accessTokens, share.verified,
             NEW d \in Codes, t.from = d, code[d].recipient = t.recipient,
             code[d].mailed, code[d].consumed, code[d].attemptCount <= MaxGuesses
      PROVE  /\ code'[d].recipient = t.recipient /\ code'[d].mailed
             /\ code'[d].consumed /\ code'[d].attemptCount <= MaxGuesses
  <2>1. CASE d = c BY <1>4, <2>1 DEF AccessTypeOK, CodeOK, NoCode
  <2>2. CASE d # c BY <1>4, <2>2 DEF AccessTypeOK
  <2> QED BY <2>1, <2>2
<1>5. AccessIsEarned' BY <1>4 DEF AccessIsEarned
<1> QED BY <1>1, <1>2, <1>3, <1>5

-----------------------------------------------------------------------------
(* The invariant, step by step.                                            *)

LEMMA AnswerKeeps ==
  ASSUME AccessInv, NEW v \in Visitors, Answer(v),
         served' \in {served, TRUE}, UNCHANGED <<share, code, accessTokens, granted, clock>>
  PROVE  AccessInv'
<1>1. NoVisitor \in VisitorStates BY DEF NoVisitor, VisitorStates, VisitorOperations
<1>2. \A w \in Visitors : visitor[w].pc = "create" => visitor[w].code # Null
  BY AccessAssumption DEF AccessInv, VisitorOK
<1> DEFINE r == NoVisitor
<1>3. r \in VisitorStates /\ visitor' = [visitor EXCEPT ![v] = r]
      /\ r.pc = "idle" /\ r.code = Null
  BY <1>1 DEF Answer, NoVisitor
<1> HIDE DEF r
<1> QED BY <1>2, <1>3, QuietStep

LEMMA LoadKeeps ==
  ASSUME AccessInv, NEW v \in Visitors, Load(v) PROVE AccessInv'
<1>1. PICK r \in VisitorStates :
        /\ visitor' = [visitor EXCEPT ![v] = r] /\ r.recipient \in Recipients
        /\ \/ r.pc = "recent" /\ r.code = Null
           \/ r.pc = "sign" /\ r.code = Null /\ ~share.verified
           \/ r.pc = "challenge" /\ r.code \in Codes /\ code[r.code].status # "ABSENT"
                /\ (r.right => code[r.code].mailed)
           \/ r.pc = "serve" /\ r.code = Null
  BY OpeningShape DEF Load, AccessInv
<1>2. \A w \in Visitors : visitor[w].pc = "create" => visitor[w].code # r.code
  BY <1>1, AccessAssumption DEF AccessInv, VisitorOK
<1> QED BY <1>1, <1>2, QuietStep DEF Load

LEMMA FindRecentKeeps ==
  ASSUME AccessInv, NEW v \in Visitors, FindRecent(v) PROVE AccessInv'
<1>1. CASE \E c \in Codes :
         /\ code[c].status = "ABSENT" /\ \A w \in Visitors : visitor[w].code # c
         /\ visitor' = [visitor EXCEPT ![v].pc = "create", ![v].code = c, ![v].now = clock]
  <2>1. PICK c \in Codes :
         /\ code[c].status = "ABSENT" /\ \A w \in Visitors : visitor[w].code # c
         /\ visitor' = [visitor EXCEPT ![v].pc = "create", ![v].code = c, ![v].now = clock]
    BY <1>1
  <2> DEFINE r == [visitor[v] EXCEPT !.pc = "create", !.code = c, !.now = clock]
  <2>2. r \in VisitorStates BY DEF AccessInv, AccessTypeOK, VisitorStates
  <2>3. visitor' = [visitor EXCEPT ![v] = r] BY <2>1
  <2>4. r.pc = "create" /\ r.code = c BY DEF AccessInv, AccessTypeOK, VisitorStates
  <2>5. UNCHANGED <<share, code, accessTokens, granted, served, clock>> BY DEF FindRecent
  <2>6. \A w \in Visitors \ {v} : visitor[w].code # r.code BY <2>1, <2>4
  <2>7. r.code \in Codes /\ code[r.code].status = "ABSENT" BY <2>1, <2>4
  <2>8. r.recipient \in Recipients
    BY DEF FindRecent, AccessInv, VisitorOK, AccessTypeOK, VisitorStates
  <2> HIDE DEF r
  <2> QED BY <2>2, <2>3, <2>4, <2>5, <2>6, <2>7, <2>8, QuietStep
<1>2. CASE Answer(v) BY <1>2, AnswerKeeps DEF FindRecent
<1> QED BY <1>1, <1>2 DEF FindRecent

LEMMA FindCodeKeeps ==
  ASSUME AccessInv, NEW v \in Visitors, FindCode(v) PROVE AccessInv'
<1>1. CASE /\ code[visitor[v].code].recipient = visitor[v].recipient
           /\ visitor' = [visitor EXCEPT ![v].now = clock,
                            ![v].pc = IF visitor[v].right THEN "consume" ELSE "count"]
  <2> DEFINE r == [visitor[v] EXCEPT !.now = clock,
                                     !.pc = IF visitor[v].right THEN "consume" ELSE "count"]
  <2>1. /\ r \in VisitorStates /\ r.code = visitor[v].code /\ r.recipient = visitor[v].recipient
        /\ r.pc = IF visitor[v].right THEN "consume" ELSE "count"
    BY DEF AccessInv, AccessTypeOK, VisitorStates
  <2>2. visitor' = [visitor EXCEPT ![v] = r] BY <1>1
  <2>3. /\ r.code \in Codes /\ code[r.code].status # "ABSENT"
        /\ visitor[v].right => code[r.code].mailed
    BY <2>1 DEF FindCode, AccessInv, VisitorOK
  <2>4. \A w \in Visitors \ {v} : visitor[w].pc = "create" => visitor[w].code # r.code
    BY <2>1 DEF AccessInv, VisitorOK
  <2>5. UNCHANGED <<share, code, accessTokens, granted, served, clock>> BY DEF FindCode
  <2>6. code[r.code].recipient = r.recipient /\ r.recipient \in Recipients
    BY <1>1, <2>1 DEF FindCode, AccessInv, VisitorOK
  <2>7. r.pc = "consume" => code[r.code].mailed BY <2>1, <2>3
  <2>8. r.pc \in {"consume", "count"} BY <2>1
  <2> HIDE DEF r
  <2> QED BY <2>1, <2>2, <2>3, <2>4, <2>5, <2>6, <2>7, <2>8, QuietStep
<1>2. CASE Answer(v) BY <1>2, AnswerKeeps DEF FindCode
<1> QED BY <1>1, <1>2 DEF FindCode

LEMMA CreateCodeKeeps ==
  ASSUME AccessInv, NEW v \in Visitors, CreateCode(v) PROVE AccessInv'
<1> DEFINE c == visitor[v].code
           new == [NoCode EXCEPT !.status = "LIVE", !.recipient = visitor[v].recipient,
                     !.createdAt = clock, !.expiresAt = visitor[v].now + CodeLifetime]
           r == [visitor[v] EXCEPT !.pc = "mail"]
<1>1. CASE code' = [code EXCEPT ![c] = new] /\ To(v, "mail")
  <2>1. c \in Codes /\ code[c].status = "ABSENT" /\ visitor[v].pc = "create"
    BY DEF CreateCode, AccessInv, VisitorOK
  <2>2. visitor[v] \in VisitorStates /\ clock \in Nat BY DEF AccessInv, AccessTypeOK
  <2>3. /\ r \in VisitorStates /\ r.pc = "mail" /\ r.code = c
        /\ r.recipient = visitor[v].recipient
        /\ visitor' = [visitor EXCEPT ![v] = r]
    BY <1>1, <2>2 DEF To, VisitorStates
  <2>4. visitor[v].recipient \in Recipients \cup {Null} /\ visitor[v].now + CodeLifetime \in Nat
    BY <2>2, AccessAssumption DEF VisitorStates
  <2>5. /\ new \in Challenges /\ new.status = "LIVE" /\ new.attemptCount = 0
    BY <2>2, <2>4, EnvironmentAssumption DEF NoCode, Challenges, Stamp
  <2>6. ~code[c].mailed /\ ~code[c].consumed
    BY <2>1 DEF AccessInv, CodeOK, NoCode
  <2>7. UNCHANGED <<share, accessTokens, granted, served, clock>> BY DEF CreateCode
  <2>8. new.attemptCount <= MaxGuesses BY <2>5, AccessAssumption
  <2>9. code' = [code EXCEPT ![c] = new] BY <1>1
  <2> HIDE DEF c, new, r
  <2>10. c = visitor[v].code BY DEF c
  <2> QED BY <2>1, <2>3, <2>5, <2>6, <2>7, <2>8, <2>9, <2>10, CodeStep
<1>2. CASE Answer(v) /\ UNCHANGED code BY <1>2, AnswerKeeps DEF CreateCode
<1> QED BY <1>1, <1>2 DEF CreateCode

LEMMA MailCodeKeeps ==
  ASSUME AccessInv, NEW v \in Visitors, MailCode(v) PROVE AccessInv'
<1> DEFINE c == visitor[v].code
           new == [code[c] EXCEPT !.mailed = TRUE]
           r == [visitor[v] EXCEPT !.pc = "withdraw"]
<1>1. /\ c \in Codes /\ code[c].status # "ABSENT" /\ visitor[v].pc = "mail"
      /\ CodeOK(c) /\ code[c] \in Challenges /\ visitor[v] \in VisitorStates
      /\ NoVisitor \in VisitorStates
  BY DEF MailCode, AccessInv, VisitorOK, AccessTypeOK, NoVisitor, VisitorStates,
     VisitorOperations
<1>2. /\ new \in Challenges /\ new.status = code[c].status
      /\ new.attemptCount = code[c].attemptCount /\ new.consumed = code[c].consumed
      /\ new.recipient = code[c].recipient /\ new.mailed
  BY <1>1 DEF Challenges
<1>3. code[c].attemptCount <= MaxGuesses BY <1>1 DEF CodeOK
<1>4. /\ r \in VisitorStates /\ r.pc = "withdraw" /\ r.code = c
      /\ r.recipient = visitor[v].recipient /\ r.recipient \in Recipients
  BY <1>1 DEF VisitorStates, AccessInv, VisitorOK
<1>5. NoVisitor.pc = "idle" /\ NoVisitor.code = Null BY DEF NoVisitor
<1>6. UNCHANGED <<share, accessTokens, granted, served, clock>> BY DEF MailCode
<1>7. CASE code' = [code EXCEPT ![c].mailed = TRUE]
  <2>1. code' = [code EXCEPT ![c] = new] BY <1>7
  <2>2. PICK next \in {r, NoVisitor} : visitor' = [visitor EXCEPT ![v] = next]
    BY DEF MailCode, Answer, To
  <2> HIDE DEF c, new, r
  <2>3. c = visitor[v].code BY DEF c
  <2>4. /\ next \in VisitorStates /\ next.code \in {c, Null}
        /\ next.pc \in {"idle", "withdraw"}
        /\ next.pc # "idle" => next.code = c /\ next.recipient = visitor[v].recipient
    BY <2>2, <1>1, <1>4, <1>5
  <2> QED BY <1>1, <1>2, <1>3, <1>6, <2>1, <2>2, <2>3, <2>4, CodeStep
<1>8. CASE UNCHANGED code /\ To(v, "withdraw")
  <2>1. visitor' = [visitor EXCEPT ![v] = r] BY <1>8 DEF To
  <2>2. \A w \in Visitors \ {v} : visitor[w].pc = "create" => visitor[w].code # r.code
    BY <1>4 DEF AccessInv, VisitorOK
  <2> HIDE DEF c, new, r
  <2> QED BY <1>1, <1>4, <1>6, <1>8, <2>1, <2>2, QuietStep
<1> QED BY <1>7, <1>8 DEF MailCode

(* What answers a request may write to its code last.                      *)
LEMMA LastWrite ==
  ASSUME AccessInv, NEW v \in Visitors, Answer(v),
         visitor[v].pc \in {"mail", "withdraw", "count", "consume"},
         NEW new \in Challenges, new.status # "ABSENT", new.attemptCount <= MaxGuesses,
         new.recipient = code[visitor[v].code].recipient,
         code[visitor[v].code].mailed => new.mailed,
         code[visitor[v].code].consumed
           => new.consumed /\ new.attemptCount = code[visitor[v].code].attemptCount,
         code' = [code EXCEPT ![visitor[v].code] = new],
         UNCHANGED <<share, accessTokens, granted, served, clock>>
  PROVE  AccessInv'
<1> DEFINE c == visitor[v].code
           r == NoVisitor
<1>1. c \in Codes BY DEF AccessInv, VisitorOK
<1>2. /\ r \in VisitorStates /\ visitor' = [visitor EXCEPT ![v] = r]
      /\ r.pc = "idle" /\ r.code = Null
  BY DEF Answer, NoVisitor, VisitorStates, VisitorOperations
<1>3. c = visitor[v].code OBVIOUS
<1> HIDE DEF c, r
<1> QED BY <1>1, <1>2, <1>3, CodeStep

LEMMA WithdrawCodeKeeps ==
  ASSUME AccessInv, NEW v \in Visitors, WithdrawCode(v) PROVE AccessInv'
<1> DEFINE c == visitor[v].code
           new == [code[c] EXCEPT !.status = "WITHDRAWN"]
<1>1. CASE ~code[c].consumed /\ code' = [code EXCEPT ![c].status = "WITHDRAWN"]
  <2>1. c \in Codes /\ CodeOK(c) /\ code[c] \in Challenges
    BY DEF WithdrawCode, AccessInv, VisitorOK, AccessTypeOK
  <2>2. /\ new \in Challenges /\ new.status = "WITHDRAWN"
        /\ new.attemptCount = code[c].attemptCount /\ new.consumed = code[c].consumed
        /\ new.recipient = code[c].recipient /\ new.mailed = code[c].mailed
    BY <2>1 DEF Challenges
  <2>3. code' = [code EXCEPT ![c] = new] BY <1>1
  <2>4. code[c].attemptCount <= MaxGuesses BY <2>1 DEF CodeOK
  <2>5. /\ Answer(v) /\ visitor[v].pc = "withdraw"
        /\ UNCHANGED <<share, accessTokens, granted, served, clock>>
    BY DEF WithdrawCode
  <2> HIDE DEF new
  <2> QED BY <2>2, <2>3, <2>4, <2>5, LastWrite
<1>2. CASE UNCHANGED code BY <1>2, AnswerKeeps DEF WithdrawCode
<1> QED BY <1>1, <1>2 DEF WithdrawCode

LEMMA CountGuessKeeps ==
  ASSUME AccessInv, NEW v \in Visitors, CountGuess(v) PROVE AccessInv'
<1> DEFINE c == visitor[v].code
           new == [code[c] EXCEPT !.attemptCount = @ + 1]
<1>1. CASE Countable(c) /\ code' = [code EXCEPT ![c].attemptCount = @ + 1]
  <2>1. c \in Codes /\ CodeOK(c) /\ code[c] \in Challenges
    BY DEF CountGuess, AccessInv, VisitorOK, AccessTypeOK
  <2>2. code[c].attemptCount \in Nat /\ code[c].attemptCount + 1 \in Nat
    BY <2>1 DEF Challenges
  <2>3. /\ new \in Challenges /\ new.status = "LIVE" /\ ~code[c].consumed
        /\ new.attemptCount = code[c].attemptCount + 1
        /\ new.recipient = code[c].recipient /\ new.mailed = code[c].mailed
    BY <1>1, <2>1, <2>2 DEF Challenges, Countable
  <2>4. code' = [code EXCEPT ![c] = new] BY <1>1
  <2>5. new.attemptCount <= MaxGuesses
    BY <1>1, <2>2, <2>3, AccessAssumption DEF Countable
  <2>6. /\ Answer(v) /\ visitor[v].pc = "count"
        /\ UNCHANGED <<share, accessTokens, granted, served, clock>>
    BY DEF CountGuess
  <2> HIDE DEF new
  <2> QED BY <2>3, <2>4, <2>5, <2>6, LastWrite
<1>2. CASE UNCHANGED code BY <1>2, AnswerKeeps DEF CountGuess
<1> QED BY <1>1, <1>2 DEF CountGuess

LEMMA ConsumeCodeKeeps ==
  ASSUME AccessInv, NEW v \in Visitors, ConsumeCode(v) PROVE AccessInv'
<1> DEFINE c == visitor[v].code
           new == [code[c] EXCEPT !.attemptCount = @ + 1, !.consumed = TRUE]
           r == [visitor[v] EXCEPT !.pc = "sign"]
<1>1. CASE /\ Consumable(c, visitor[v].now) /\ (To(v, "sign") \/ Answer(v))
           /\ code' = [code EXCEPT ![c].attemptCount = @ + 1, ![c].consumed = TRUE]
  <2>1. /\ c \in Codes /\ code[c] \in Challenges /\ visitor[v] \in VisitorStates
        /\ visitor[v].pc = "consume"
    BY DEF ConsumeCode, AccessInv, VisitorOK, AccessTypeOK, Answers
  <2>2. code[c].attemptCount \in Nat /\ code[c].attemptCount + 1 \in Nat
    BY <2>1 DEF Challenges
  <2>3. /\ new \in Challenges /\ new.status = "LIVE" /\ ~code[c].consumed /\ new.consumed
        /\ new.attemptCount = code[c].attemptCount + 1
        /\ new.recipient = code[c].recipient /\ new.mailed = code[c].mailed
    BY <1>1, <2>1, <2>2 DEF Challenges, Consumable, Usable
  <2>4. code' = [code EXCEPT ![c] = new] BY <1>1
  <2>5. new.attemptCount <= MaxGuesses
    BY <1>1, <2>2, <2>3, AccessAssumption DEF Consumable, Usable
  <2>6. UNCHANGED <<share, accessTokens, granted, served, clock>> BY DEF ConsumeCode
  <2>7. /\ r \in VisitorStates /\ r.pc = "sign" /\ r.code = c
        /\ r.recipient = visitor[v].recipient
    BY <2>1 DEF VisitorStates
  <2>8. To(v, "sign") => visitor' = [visitor EXCEPT ![v] = r] BY DEF To
  <2>9. c = visitor[v].code OBVIOUS
  <2> HIDE DEF new, r, c
  <2>10. CASE Answer(v) BY <2>1, <2>3, <2>4, <2>5, <2>6, <2>9, <2>10, LastWrite
  <2>11. CASE To(v, "sign")
    BY <2>1, <2>3, <2>4, <2>5, <2>6, <2>7, <2>8, <2>9, <2>11, CodeStep
  <2> QED BY <1>1, <2>10, <2>11
<1>2. CASE Answer(v) /\ UNCHANGED code BY <1>2, AnswerKeeps DEF ConsumeCode
<1> QED BY <1>1, <1>2 DEF ConsumeCode

LEMMA SignAccessKeeps ==
  ASSUME AccessInv, NEW v \in Visitors, SignAccess(v) PROVE AccessInv'
<1> DEFINE c == visitor[v].code
           t == [recipient |-> visitor[v].recipient, expiresAt |-> LifetimeEnd, from |-> c]
<1>1. CASE /\ accessTokens' = accessTokens \cup {t}
           /\ granted' = [d \in Codes |-> IF d = c THEN granted[d] + 1 ELSE granted[d]]
  <2>1. /\ visitor[v].pc = "sign" /\ VisitorOK(v) /\ AccessTypeOK /\ Answer(v)
        /\ UNCHANGED <<share, code, served, clock>>
    BY DEF SignAccess, AccessInv
  <2>2. LifetimeEnd \in Nat
    BY <2>1, AccessAssumption, EnvironmentAssumption DEF LifetimeEnd, AccessTypeOK, Shares, Stamp
  <2>3. visitor[v].recipient \in Recipients /\ c \in Codes \cup {Null}
    BY <2>1 DEF VisitorOK, Answers
  <2>4. AccessTypeOK'
    <3>1. NoVisitor \in VisitorStates BY DEF NoVisitor, VisitorStates, VisitorOperations
    <3>2. t \in AccessTokens BY <2>2, <2>3 DEF AccessTokens
    <3>3. visitor' \in [Visitors -> VisitorStates] BY <2>1, <3>1 DEF Answer, AccessTypeOK
    <3>4. granted' \in [Codes -> Nat] BY <1>1, <2>1 DEF AccessTypeOK
    <3> QED BY <1>1, <2>1, <3>2, <3>3, <3>4 DEF AccessTypeOK
  <2>5. ASSUME NEW d \in Codes PROVE CodeOK(d)'
    <3>1. CodeOK(d) BY DEF AccessInv
    <3>2. CASE d = c
      BY <1>1, <2>1, <3>1, <3>2, AccessAssumption DEF CodeOK, VisitorOK
    <3>3. CASE d # c BY <1>1, <2>1, <3>1, <3>3 DEF CodeOK
    <3> QED BY <3>2, <3>3
  <2>6. ASSUME NEW w \in Visitors PROVE VisitorOK(w)'
    <3>1. VisitorOK(w) BY DEF AccessInv
    <3>2. CASE w = v
      BY <2>1, <3>2 DEF Answer, VisitorOK, NoVisitor, AccessTypeOK
    <3>3. CASE w # v
      <4>1. visitor'[w] = visitor[w] /\ visitor'[v] = NoVisitor
            /\ \A x \in Visitors \ {v} : visitor'[x] = visitor[x]
        BY <2>1, <3>3 DEF Answer, AccessTypeOK
      <4>2. Answers(w) => Answers(w)' BY <2>1, <4>1 DEF Answers
      <4>3. NoVisitor.pc = "idle" /\ NoVisitor.code = Null BY DEF NoVisitor
      <4>4. CASE visitor[w].pc = "create"
        BY <2>1, <3>1, <4>1, <4>3, <4>4, AccessAssumption DEF VisitorOK
      <4>5. CASE visitor[w].pc = "sign"
        <5>1. CASE visitor[w].code = Null
          BY <2>1, <3>1, <4>1, <4>5, <5>1, AccessAssumption DEF VisitorOK, Answers
        <5>2. CASE visitor[w].code # Null
          <6>1. visitor[w].code # c BY <2>1, <3>1, <3>3, <4>5, <5>2 DEF VisitorOK
          <6>2. granted'[visitor[w].code] = granted[visitor[w].code]
            BY <1>1, <3>1, <4>5, <5>2, <6>1 DEF VisitorOK, Answers
          <6> QED BY <2>1, <3>1, <4>1, <4>2, <4>3, <4>5, <5>2, <6>2 DEF VisitorOK, Answers
        <5> QED BY <5>1, <5>2
      <4>6. CASE visitor[w].pc \notin {"create", "sign"}
        BY <2>1, <3>1, <4>1, <4>2, <4>6 DEF VisitorOK
      <4> QED BY <4>4, <4>5, <4>6
    <3> QED BY <3>2, <3>3
  <2>7. AccessIsEarned'
    <3> SUFFICES ASSUME share.verified, NEW u \in accessTokens \cup {t}
                 PROVE  \E d \in Codes :
                          /\ u.from = d /\ code[d].recipient = u.recipient
                          /\ code[d].mailed /\ code[d].consumed
                          /\ code[d].attemptCount <= MaxGuesses
      BY <1>1, <2>1 DEF AccessIsEarned
    <3>1. CASE u \in accessTokens BY <3>1 DEF AccessInv, AccessIsEarned
    <3>2. CASE u = t
      <4>1. Answers(v) /\ code[c].consumed BY <2>1 DEF VisitorOK
      <4>2. c \in Codes BY <4>1 DEF Answers
      <4>3. code[c].attemptCount <= MaxGuesses BY <4>2 DEF AccessInv, CodeOK
      <4> QED BY <3>2, <4>1, <4>2, <4>3 DEF Answers
    <3> QED BY <3>1, <3>2
  <2> QED BY <2>4, <2>5, <2>6, <2>7 DEF AccessInv
<1>2. CASE Answer(v) /\ UNCHANGED <<accessTokens, granted>>
  BY <1>2, AnswerKeeps DEF SignAccess
<1> QED BY <1>1, <1>2 DEF SignAccess

LEMMA ServeKeeps ==
  ASSUME AccessInv, NEW v \in Visitors, Serve(v) PROVE AccessInv'
BY AnswerKeeps DEF Serve

LEMMA DropVisitorKeeps ==
  ASSUME AccessInv, NEW v \in Visitors, DropVisitor(v) PROVE AccessInv'
BY AnswerKeeps DEF DropVisitor

(* Revoking or deleting the share takes nothing from what is recorded.     *)
LEMMA RevokeShareKeeps ==
  ASSUME AccessInv, RevokeShare PROVE AccessInv'
<1>1. /\ share' \in Shares /\ share'.verified = share.verified
      /\ UNCHANGED <<code, visitor, accessTokens, granted, served, clock>>
  BY DEF RevokeShare, AccessInv, AccessTypeOK, Shares
<1>2. AccessTypeOK' BY <1>1 DEF AccessInv, AccessTypeOK
<1>3. (\A c \in Codes : CodeOK(c))' BY <1>1 DEF AccessInv, CodeOK
<1>4. (\A v \in Visitors : VisitorOK(v))' BY <1>1 DEF AccessInv, VisitorOK, Answers
<1>5. AccessIsEarned' BY <1>1 DEF AccessInv, AccessIsEarned
<1> QED BY <1>2, <1>3, <1>4, <1>5 DEF AccessInv

LEMMA DeleteShareKeeps ==
  ASSUME AccessInv, DeleteShare PROVE AccessInv'
<1> USE DEF AccessInv
<1>1. /\ share' \in Shares /\ share'.verified = share.verified
      /\ UNCHANGED <<visitor, accessTokens, granted, served, clock>>
  BY DEF DeleteShare, AccessTypeOK, Shares
<1>2. ASSUME NEW c \in Codes
      PROVE  /\ code'[c] \in Challenges
             /\ code[c].status = "ABSENT" => code'[c] = code[c]
             /\ code'[c].status = "ABSENT" <=> code[c].status = "ABSENT"
             /\ code'[c].recipient = code[c].recipient /\ code'[c].mailed = code[c].mailed
             /\ code'[c].consumed = code[c].consumed
             /\ code'[c].attemptCount = code[c].attemptCount
  <2>1. code[c] \in Challenges BY DEF AccessTypeOK
  <2>2. code'[c] = IF code[c].status = "LIVE" THEN [code[c] EXCEPT !.status = "WITHDRAWN"]
                                              ELSE code[c]
    BY DEF DeleteShare
  <2> QED BY <2>1, <2>2 DEF Challenges
<1>3. AccessTypeOK'
  <2>1. code' \in [Codes -> Challenges] BY <1>2 DEF DeleteShare
  <2> QED BY <1>1, <2>1 DEF AccessTypeOK
<1>4. (\A c \in Codes : CodeOK(c))' BY <1>1, <1>2 DEF CodeOK
<1>5. (\A v \in Visitors : VisitorOK(v))' BY <1>1, <1>2 DEF VisitorOK, Answers
<1>6. AccessIsEarned' BY <1>1, <1>2 DEF AccessIsEarned
<1> QED BY <1>3, <1>4, <1>5, <1>6

LEMMA AccessTickKeeps ==
  ASSUME AccessInv, clock' \in Nat,
         UNCHANGED <<share, code, visitor, accessTokens, granted, served>>
  PROVE  AccessInv'
BY DEF AccessInv, AccessTypeOK, CodeOK, VisitorOK, Answers, AccessIsEarned

LEMMA AccessInvNext == AccessInv /\ [AccessNext]_accessVars => AccessInv'
<1> SUFFICES ASSUME AccessInv, [AccessNext]_accessVars PROVE AccessInv' OBVIOUS
<1>1. clock \in Nat BY DEF AccessInv, AccessTypeOK
<1>2. CASE UNCHANGED accessVars BY <1>1, <1>2, AccessTickKeeps DEF accessVars
<1>3. CASE AccessTick BY <1>1, <1>3, AccessTickKeeps DEF AccessTick, ClockTick
<1>4. CASE RevokeShare BY <1>4, RevokeShareKeeps
<1>5. CASE DeleteShare BY <1>5, DeleteShareKeeps
<1>6. ASSUME NEW v \in Visitors, Load(v) PROVE AccessInv' BY <1>6, LoadKeeps
<1>7. ASSUME NEW v \in Visitors, DropVisitor(v) PROVE AccessInv' BY <1>7, DropVisitorKeeps
<1>8. ASSUME NEW v \in Visitors, VisitorStep(v) PROVE AccessInv'
  BY <1>8, FindRecentKeeps, CreateCodeKeeps, MailCodeKeeps, WithdrawCodeKeeps,
     FindCodeKeeps, CountGuessKeeps, ConsumeCodeKeeps, SignAccessKeeps, ServeKeeps
  DEF VisitorStep
<1> QED BY <1>2, <1>3, <1>4, <1>5, <1>6, <1>7, <1>8 DEF AccessNext

-----------------------------------------------------------------------------
(* The theorems.                                                           *)

(* Every state of the access protocol satisfies the inductive invariant.   *)
THEOREM AccessInvariant == AccessSpec => []AccessInv
BY AccessInvInit, AccessInvNext, PTL DEF AccessSpec

(* A code is good for one access token, however many requests verify it.   *)
THEOREM OneTokenPerCode == AccessSpec => []OneAccessPerCode
<1>1. AccessInv => OneAccessPerCode BY DEF AccessInv, CodeOK, OneAccessPerCode
<1> QED BY <1>1, AccessInvariant, PTL

(* Whoever holds a token of a verified share spent a code mailed to it.    *)
THEOREM TokensAreEarned == AccessSpec => []AccessIsEarned
<1>1. AccessInv => AccessIsEarned BY DEF AccessInv
<1> QED BY <1>1, AccessInvariant, PTL

(* A code that was withdrawn or has no attempts left is never spent.       *)
THEOREM DeadCodesStayDead == AccessSpec => DeadCodeStaysDead
<1> DEFINE Dead(c) == /\ ~code[c].consumed
                      /\ code[c].status = "WITHDRAWN" \/ code[c].attemptCount = MaxGuesses
           Stays(c) == ~code'[c].consumed /\ code'[c].attemptCount = code[c].attemptCount
<1>1. ASSUME AccessInv, [AccessNext]_accessVars, NEW c \in Codes, Dead(c) PROVE Stays(c)
  <2>1. /\ code \in [Codes -> Challenges] /\ code[c] \in Challenges /\ CodeOK(c)
        /\ MaxGuesses \in Nat \ {0}
    BY <1>1, AccessAssumption DEF AccessInv, AccessTypeOK
  <2>2. CASE UNCHANGED code BY <1>1, <2>2
  <2>3. CASE DeleteShare BY <1>1, <2>1, <2>3 DEF DeleteShare, Challenges
  <2>4. ASSUME NEW v \in Visitors, CreateCode(v) PROVE Stays(c)
    <3>1. code[visitor[v].code].status = "ABSENT"
      BY <1>1, <2>4 DEF CreateCode, AccessInv, VisitorOK
    <3>2. code[c].status # "ABSENT" BY <1>1, <2>1 DEF CodeOK, NoCode
    <3> QED BY <1>1, <2>1, <2>4, <3>1, <3>2 DEF CreateCode
  <2>5. ASSUME NEW v \in Visitors, MailCode(v) PROVE Stays(c)
    BY <1>1, <2>1, <2>5 DEF MailCode, Challenges
  <2>6. ASSUME NEW v \in Visitors, WithdrawCode(v) PROVE Stays(c)
    BY <1>1, <2>1, <2>6 DEF WithdrawCode, Challenges
  <2>7. ASSUME NEW v \in Visitors, CountGuess(v) PROVE Stays(c)
    BY <1>1, <2>1, <2>7 DEF CountGuess, Countable
  <2>8. ASSUME NEW v \in Visitors, ConsumeCode(v) PROVE Stays(c)
    BY <1>1, <2>1, <2>8 DEF ConsumeCode, Consumable, Usable
  <2>9. CASE UNCHANGED accessVars BY <2>2, <2>9 DEF accessVars
  <2>10. CASE RevokeShare \/ AccessTick BY <2>2, <2>10 DEF RevokeShare, AccessTick
  <2>11. ASSUME NEW v \in Visitors,
                Load(v) \/ FindRecent(v) \/ FindCode(v) \/ SignAccess(v) \/ Serve(v)
                  \/ DropVisitor(v)
         PROVE  Stays(c)
    BY <2>2, <2>11 DEF Load, FindRecent, FindCode, SignAccess, Serve, DropVisitor
  <2> QED BY <1>1, <2>3, <2>4, <2>5, <2>6, <2>7, <2>8, <2>9, <2>10, <2>11
          DEF AccessNext, VisitorStep
<1>2. AccessInv /\ [AccessNext]_accessVars
        => \A c \in Codes :
             ~code[c].consumed
               /\ (code[c].status = "WITHDRAWN" \/ code[c].attemptCount = MaxGuesses)
             => ~code'[c].consumed /\ code'[c].attemptCount = code[c].attemptCount
  BY <1>1
<1> QED BY <1>2, AccessInvariant, PTL DEF AccessSpec, DeadCodeStaysDead

(* Nobody gets anywhere with a share that is closed.                       *)
THEOREM ClosedSharesStayClosed == AccessSpec => ClosedShareStaysClosed
<1> DEFINE Closed == ~Active /\ (\A v \in Visitors : visitor[v].pc = "idle")
           Kept == UNCHANGED <<visitor, accessTokens, served, granted>>
<1>1. ASSUME [AccessNext]_accessVars, Closed PROVE Kept
  <2>1. CASE UNCHANGED accessVars BY <2>1 DEF accessVars
  <2>2. CASE RevokeShare \/ DeleteShare \/ AccessTick
    BY <2>2 DEF RevokeShare, DeleteShare, AccessTick
  <2>3. ASSUME NEW v \in Visitors, Load(v) \/ VisitorStep(v) \/ DropVisitor(v) PROVE FALSE
    BY <1>1, <2>3 DEF Load, VisitorStep, DropVisitor, FindRecent, CreateCode, MailCode,
       WithdrawCode, FindCode, CountGuess, ConsumeCode, SignAccess, Serve
  <2> QED BY <1>1, <2>1, <2>2, <2>3 DEF AccessNext
<1>2. [AccessNext]_accessVars => (Closed => Kept) BY <1>1
<1> QED BY <1>2, PTL DEF AccessSpec, ClosedShareStaysClosed

-----------------------------------------------------------------------------
(* A reset link works once; no session outlives its password.               *)

LEMMA AccountInvInit == AccountsInit => AccountInv
<1> SUFFICES ASSUME AccountsInit PROVE AccountInv OBVIOUS
<1>1. AccountsTypeOK
  BY DEF AccountsInit, AccountsTypeOK, Users, SessionRows, LinkRows, RequestStates,
     NoRequest, Operations, Stamp
<1>2. clock \in Nat /\ \A q \in Requests : RequestOK(q)
  BY DEF AccountsInit, RequestOK, NoRequest
<1>3. \A t \in Links : LinkOK(t) BY DEF AccountsInit, LinkOK
<1>4. NoLinkOutlivesReset /\ NoSessionOutlivesPassword
  BY DEF AccountsInit, NoLinkOutlivesReset, NoSessionOutlivesPassword, Unused
<1> QED BY <1>1, <1>2, <1>3, <1>4 DEF AccountInv

(* A step that writes no row: its request becomes r.                       *)
LEMMA RequestStep ==
  ASSUME AccountInv, NEW q \in Requests, NEW r \in RequestStates,
         request' = [request EXCEPT ![q] = r],
         r.pc \in {"mail", "withdraw", "reset"} => r.link \in Links,
         r.pc \in {"change", "reset"} => r.password \in Passwords
  PROVE  /\ request' \in [Requests -> RequestStates]
         /\ \A p \in Requests : RequestOK(p)'
<1>1. request \in [Requests -> RequestStates] BY DEF AccountInv, AccountsTypeOK
<1>2. ASSUME NEW p \in Requests PROVE RequestOK(p)'
  <2>1. CASE p = q BY <1>1, <2>1 DEF RequestOK
  <2>2. CASE p # q BY <1>1, <2>2 DEF RequestOK, AccountInv
  <2> QED BY <2>1, <2>2
<1> QED BY <1>1, <1>2

(* The three rows as they were: only the request has moved.                *)
LEMMA RowsKept ==
  ASSUME AccountInv, UNCHANGED <<user, session, link>>, clock' \in Nat,
         request' \in [Requests -> RequestStates], \A p \in Requests : RequestOK(p)'
  PROVE  AccountInv'
<1> USE DEF AccountInv
<1>1. AccountsTypeOK' BY DEF AccountsTypeOK
<1>2. (\A t \in Links : LinkOK(t))' BY DEF LinkOK
<1>3. NoLinkOutlivesReset' /\ NoSessionOutlivesPassword'
  BY DEF NoLinkOutlivesReset, NoSessionOutlivesPassword, Unused
<1> QED BY <1>1, <1>2, <1>3

LEMMA ReplyKeepsRequests ==
  ASSUME AccountInv, NEW q \in Requests, Reply(q)
  PROVE  /\ request' \in [Requests -> RequestStates]
         /\ \A p \in Requests : RequestOK(p)'
<1> DEFINE r == NoRequest
<1>1. r \in RequestStates /\ r.pc = "idle" /\ request' = [request EXCEPT ![q] = r]
  BY DEF Reply, NoRequest, RequestStates, Operations
<1> HIDE DEF r
<1> QED BY <1>1, RequestStep

(* Sessions are only closed.                                               *)
LEMMA ClosingSessions ==
  ASSUME AccountInv, NEW targets
  PROVE  /\ Revoked(targets) \in [Sessions -> SessionRows]
         /\ \A s \in Sessions :
              Revoked(targets)[s].status = "LIVE"
                => s \notin targets /\ Revoked(targets)[s] = session[s]
<1>1. session \in [Sessions -> SessionRows] BY DEF AccountInv, AccountsTypeOK
<1> QED BY <1>1 DEF Revoked, SessionRows

(* Links are only used up.                                                 *)
LEMMA UsingLinks ==
  ASSUME AccountInv, NEW targets
  PROVE  /\ Used(targets) \in [Links -> LinkRows]
         /\ \A t \in Links :
              /\ Used(targets)[t].spent = link[t].spent
              /\ Used(targets)[t].resets = link[t].resets
              /\ Used(targets)[t].status \in {"LIVE", "ABSENT"}
                   => Used(targets)[t].status = link[t].status /\ (Unused(t) => t \notin targets)
<1>1. link \in [Links -> LinkRows] BY DEF AccountInv, AccountsTypeOK
<1> QED BY <1>1 DEF Used, Unused, LinkRows

-----------------------------------------------------------------------------
(* The invariant, step by step.                                            *)

LEMMA BeginKeeps ==
  ASSUME AccountInv, NEW q \in Requests,
         Login(q) \/ Guard(q) \/ Forgot(q) \/ FollowLink(q)
  PROVE  AccountInv'
<1> USE DEF NoRequest, RequestStates, Operations
<1>1. PICK r \in RequestStates :
        /\ request' = [request EXCEPT ![q] = r]
        /\ r.pc \in {"open", "act", "compare", "supersede", "reset"}
        /\ r.pc = "reset" => r.link \in Links /\ r.password \in Passwords
  <2>1. CASE Login(q)
    <3> DEFINE r == [NoRequest EXCEPT !.pc = "open", !.op = "login"]
    <3>1. r \in RequestStates /\ r.pc = "open" /\ request' = [request EXCEPT ![q] = r]
      BY <2>1 DEF Login, Begin
    <3> QED BY <3>1
  <2>2. CASE Guard(q)
    <3>1. PICK s \in Sessions, op \in {"logout", "revoke", "revokeOthers", "change"} :
            Begin(q, [NoRequest EXCEPT !.pc = IF op = "change" THEN "compare" ELSE "act",
                                       !.op = op, !.session = s])
      BY <2>2 DEF Guard
    <3> DEFINE r == [NoRequest EXCEPT !.pc = IF op = "change" THEN "compare" ELSE "act",
                                      !.op = op, !.session = s]
    <3>2. r \in RequestStates /\ r.pc \in {"act", "compare"}
          /\ request' = [request EXCEPT ![q] = r]
      BY <3>1 DEF Begin
    <3> QED BY <3>2
  <2>3. CASE Forgot(q)
    <3> DEFINE r == [NoRequest EXCEPT !.pc = "supersede", !.op = "forgot", !.now = clock]
    <3>1. r \in RequestStates /\ r.pc = "supersede" /\ request' = [request EXCEPT ![q] = r]
      BY <2>3 DEF Forgot, Begin, AccountInv
    <3> QED BY <3>1
  <2>4. CASE FollowLink(q)
    <3>1. PICK t \in Links, p \in Passwords :
            Begin(q, [NoRequest EXCEPT !.pc = "reset", !.op = "reset", !.link = t,
                                       !.password = p, !.now = clock])
      BY <2>4 DEF FollowLink
    <3> DEFINE r == [NoRequest EXCEPT !.pc = "reset", !.op = "reset", !.link = t,
                                      !.password = p, !.now = clock]
    <3>2. r \in RequestStates /\ r.link \in Links /\ r.password \in Passwords
          /\ r.pc = "reset" /\ request' = [request EXCEPT ![q] = r]
      BY <3>1 DEF Begin, AccountInv
    <3> QED BY <3>2
  <2> QED BY <2>1, <2>2, <2>3, <2>4
<1>2. UNCHANGED <<user, session, link>> /\ clock' \in Nat
  BY DEF Login, Guard, Forgot, FollowLink, AccountInv
<1>3. request' \in [Requests -> RequestStates] /\ \A p \in Requests : RequestOK(p)'
  BY <1>1, RequestStep
<1> QED BY <1>2, <1>3, RowsKept

LEMMA ReplyKeeps ==
  ASSUME AccountInv, NEW q \in Requests, Reply(q), UNCHANGED <<user, session, link, clock>>
  PROVE  AccountInv'
<1>1. clock' \in Nat BY DEF AccountInv
<1> QED BY <1>1, ReplyKeepsRequests, RowsKept

(* A request that reads, or goes on after an error.                        *)
LEMMA ReadKeeps ==
  ASSUME AccountInv, NEW q \in Requests,
         ComparePassword(q) \/ SupersedeLinks(q) \/ MailLink(q)
  PROVE  AccountInv'
<1>1. UNCHANGED <<user, session, link, clock>> /\ clock' \in Nat
  BY DEF ComparePassword, SupersedeLinks, MailLink, AccountInv
<1>2. request[q] \in RequestStates /\ RequestOK(q) BY DEF AccountInv, AccountsTypeOK
<1>3. CASE Reply(q) BY <1>1, <1>3, ReplyKeeps
<1>4. ASSUME NEW p \in Passwords,
             request' = [request EXCEPT ![q].pc = "change", ![q].password = p]
      PROVE  AccountInv'
  <2> DEFINE r == [request[q] EXCEPT !.pc = "change", !.password = p]
  <2>1. r \in RequestStates /\ r.pc = "change" /\ r.password \in Passwords
        /\ request' = [request EXCEPT ![q] = r]
    BY <1>2, <1>4 DEF RequestStates
  <2> HIDE DEF r
  <2>2. request' \in [Requests -> RequestStates] /\ \A w \in Requests : RequestOK(w)'
    BY <2>1, RequestStep
  <2> QED BY <1>1, <2>2, RowsKept
<1>5. CASE SupersedeLinks(q)
  <2> DEFINE r == [request[q] EXCEPT !.pc = "issue", !.seen = {t \in Links : Unused(t)}]
  <2>1. r \in RequestStates /\ r.pc = "issue" /\ request' = [request EXCEPT ![q] = r]
    BY <1>2, <1>5 DEF RequestStates, SupersedeLinks
  <2> HIDE DEF r
  <2>2. request' \in [Requests -> RequestStates] /\ \A w \in Requests : RequestOK(w)'
    BY <2>1, RequestStep
  <2> QED BY <1>1, <2>2, RowsKept
<1>6. CASE MailLink(q) /\ Step(q, "withdraw")
  <2> DEFINE r == [request[q] EXCEPT !.pc = "withdraw"]
  <2>1. r \in RequestStates /\ r.pc = "withdraw" /\ r.link \in Links
        /\ request' = [request EXCEPT ![q] = r]
    BY <1>2, <1>6 DEF RequestStates, MailLink, Step, RequestOK
  <2> HIDE DEF r
  <2>2. request' \in [Requests -> RequestStates] /\ \A w \in Requests : RequestOK(w)'
    BY <2>1, RequestStep
  <2> QED BY <1>1, <2>2, RowsKept
<1> QED BY <1>3, <1>4, <1>5, <1>6 DEF ComparePassword, MailLink

(* A session is opened under the password of the moment.                   *)
LEMMA OpenSessionKeeps ==
  ASSUME AccountInv, NEW q \in Requests, OpenSession(q) PROVE AccountInv'
<1>1. CASE UNCHANGED session BY <1>1, ReplyKeeps DEF OpenSession
<1>2. ASSUME NEW s \in Sessions,
             session' = [session EXCEPT ![s] =
               [status |-> "LIVE", expiresAt |-> clock + SessionLifetime,
                epoch |-> user.epoch]]
      PROVE  AccountInv'
  <2> USE DEF AccountInv
  <2>1. UNCHANGED <<user, link, clock>> /\ Reply(q) BY DEF OpenSession
  <2>2. request' \in [Requests -> RequestStates] /\ \A p \in Requests : RequestOK(p)'
    BY <2>1, ReplyKeepsRequests
  <2>3. session' \in [Sessions -> SessionRows] /\ session \in [Sessions -> SessionRows]
    BY <1>2, AccountsAssumption DEF AccountsTypeOK, SessionRows, Stamp, Users
  <2>4. AccountsTypeOK' BY <2>1, <2>2, <2>3 DEF AccountsTypeOK
  <2>5. (\A t \in Links : LinkOK(t))' /\ NoLinkOutlivesReset'
    BY <2>1 DEF LinkOK, NoLinkOutlivesReset, Unused
  <2>6. NoSessionOutlivesPassword'
    BY <1>2, <2>1, <2>3 DEF NoSessionOutlivesPassword
  <2> QED BY <2>1, <2>2, <2>4, <2>5, <2>6
<1> QED BY <1>1, <1>2 DEF OpenSession

LEMMA ActKeeps ==
  ASSUME AccountInv, NEW q \in Requests, Act(q) PROVE AccountInv'
<1> USE DEF AccountInv
<1>1. CASE UNCHANGED session BY <1>1, ReplyKeeps DEF Act
<1>2. ASSUME NEW targets, session' = Revoked(targets) PROVE AccountInv'
  <2>1. UNCHANGED <<user, link, clock>> /\ Reply(q) BY DEF Act
  <2>2. request' \in [Requests -> RequestStates] /\ \A p \in Requests : RequestOK(p)'
    BY <2>1, ReplyKeepsRequests
  <2>3. AccountsTypeOK' BY <1>2, <2>1, <2>2, ClosingSessions DEF AccountsTypeOK
  <2>4. (\A t \in Links : LinkOK(t))' /\ NoLinkOutlivesReset'
    BY <2>1 DEF LinkOK, NoLinkOutlivesReset, Unused
  <2>5. NoSessionOutlivesPassword'
    BY <1>2, <2>1, ClosingSessions DEF NoSessionOutlivesPassword
  <2> QED BY <2>1, <2>2, <2>3, <2>4, <2>5
<1> QED BY <1>1, <1>2 DEF Act

(* The password is written and every session but its own closed.           *)
LEMMA ChangePasswordKeeps ==
  ASSUME AccountInv, NEW q \in Requests, ChangePassword(q) PROVE AccountInv'
<1> USE DEF AccountInv
<1>1. CASE UNCHANGED <<user, session>> BY <1>1, ReplyKeeps DEF ChangePassword
<1>2. CASE /\ user' = Written(request[q].password, user.resets, request[q].session)
           /\ session' = Revoked(Sessions \ {request[q].session})
  <2>1. UNCHANGED <<link, clock>> /\ Reply(q) /\ request[q].pc = "change"
    BY DEF ChangePassword
  <2>2. request' \in [Requests -> RequestStates] /\ \A p \in Requests : RequestOK(p)'
    BY <2>1, ReplyKeepsRequests
  <2>3. /\ request[q].password \in Passwords
        /\ request[q].session \in Sessions \cup {Null} /\ user \in Users
    BY <2>1 DEF RequestOK, AccountsTypeOK, RequestStates
  <2>4. /\ user' \in Users /\ user'.resets = user.resets
        /\ user'.keeper = request[q].session
    BY <1>2, <2>3 DEF Written, Users
  <2>5. AccountsTypeOK' BY <1>2, <2>1, <2>2, <2>4, ClosingSessions DEF AccountsTypeOK
  <2>6. (\A t \in Links : LinkOK(t))' /\ NoLinkOutlivesReset'
    BY <2>1, <2>4 DEF LinkOK, NoLinkOutlivesReset, Unused
  <2>7. NoSessionOutlivesPassword'
    BY <1>2, <2>4, ClosingSessions DEF NoSessionOutlivesPassword
  <2> QED BY <2>1, <2>2, <2>5, <2>6, <2>7
<1> QED BY <1>1, <1>2 DEF ChangePassword

(* A link is issued after the resets of the moment.                        *)
LEMMA IssueLinkKeeps ==
  ASSUME AccountInv, NEW q \in Requests, IssueLink(q) PROVE AccountInv'
<1> USE DEF AccountInv
<1>1. CASE Reply(q) /\ UNCHANGED link BY <1>1, ReplyKeeps DEF IssueLink
<1>2. ASSUME NEW t \in Links,
             link' = [Used(request[q].seen) EXCEPT ![t] =
               [status |-> "LIVE", createdAt |-> clock,
                expiresAt |-> request[q].now + LinkLifetime,
                resets |-> user.resets, spent |-> 0]],
             request' = [request EXCEPT ![q].pc = "mail", ![q].link = t]
      PROVE  AccountInv'
  <2> DEFINE r == [request[q] EXCEPT !.pc = "mail", !.link = t]
  <2>1. UNCHANGED <<user, session, clock>> BY DEF IssueLink
  <2>2. request[q] \in RequestStates /\ user \in Users BY DEF AccountsTypeOK
  <2>3. r \in RequestStates /\ r.pc = "mail" /\ r.link \in Links
        /\ request' = [request EXCEPT ![q] = r]
    BY <1>2, <2>2 DEF RequestStates
  <2> HIDE DEF r
  <2>4. request' \in [Requests -> RequestStates] /\ \A p \in Requests : RequestOK(p)'
    BY <2>3, RequestStep
  <2>5. [status |-> "LIVE", createdAt |-> clock,
         expiresAt |-> request[q].now + LinkLifetime,
         resets |-> user.resets, spent |-> 0] \in LinkRows
    BY <2>2, AccountsAssumption DEF LinkRows, Stamp, Users, RequestStates
  <2> DEFINE old == Used(request[q].seen)
  <2>6. /\ old \in [Links -> LinkRows]
        /\ \A u \in Links : /\ old[u].spent = link[u].spent /\ old[u].resets = link[u].resets
                            /\ old[u].status \in {"LIVE", "ABSENT"}
                                 => old[u].status = link[u].status
    BY UsingLinks
  <2> HIDE DEF old
  <2>7. link' \in [Links -> LinkRows] BY <1>2, <2>5, <2>6 DEF old
  <2>8. AccountsTypeOK' BY <2>1, <2>4, <2>7 DEF AccountsTypeOK
  <2>9. ASSUME NEW u \in Links PROVE LinkOK(u)' /\ (Unused(u)' => link'[u].resets = user.resets)
    <3>1. LinkOK(u) /\ (Unused(u) => link[u].resets = user.resets)
      BY DEF NoLinkOutlivesReset
    <3>2. CASE u = t BY <1>2, <2>6, <3>2 DEF LinkOK, old
    <3>3. CASE u # t
      <4>1. link'[u] = old[u] BY <1>2, <2>6, <3>3 DEF old
      <4> QED BY <2>6, <3>1, <4>1 DEF LinkOK, Unused
    <3> QED BY <3>2, <3>3
  <2>10. NoLinkOutlivesReset' BY <2>1, <2>9 DEF NoLinkOutlivesReset
  <2>11. NoSessionOutlivesPassword' BY <2>1 DEF NoSessionOutlivesPassword
  <2> QED BY <2>1, <2>4, <2>8, <2>9, <2>10, <2>11
<1> QED BY <1>1, <1>2 DEF IssueLink

LEMMA WithdrawLinkKeeps ==
  ASSUME AccountInv, NEW q \in Requests, WithdrawLink(q) PROVE AccountInv'
<1> USE DEF AccountInv
<1> DEFINE t == request[q].link
<1>1. CASE UNCHANGED link BY <1>1, ReplyKeeps DEF WithdrawLink
<1>2. CASE link' = [link EXCEPT ![t].status = "DELETED"]
  <2>1. UNCHANGED <<user, session, clock>> /\ Reply(q) BY DEF WithdrawLink
  <2>2. request' \in [Requests -> RequestStates] /\ \A p \in Requests : RequestOK(p)'
    BY <2>1, ReplyKeepsRequests
  <2>3. t \in Links /\ link \in [Links -> LinkRows]
    BY DEF WithdrawLink, RequestOK, AccountsTypeOK
  <2>4. /\ link' \in [Links -> LinkRows]
        /\ \A u \in Links : /\ link'[u].spent = link[u].spent /\ link'[u].resets = link[u].resets
                            /\ link'[u].status = IF u = t THEN "DELETED" ELSE link[u].status
    BY <1>2, <2>3 DEF LinkRows
  <2>5. AccountsTypeOK' BY <2>1, <2>2, <2>4 DEF AccountsTypeOK
  <2>6. (\A u \in Links : LinkOK(u))' /\ NoLinkOutlivesReset'
    BY <2>1, <2>4 DEF LinkOK, NoLinkOutlivesReset, Unused
  <2>7. NoSessionOutlivesPassword' BY <2>1 DEF NoSessionOutlivesPassword
  <2> QED BY <2>1, <2>2, <2>5, <2>6, <2>7
<1> QED BY <1>1, <1>2 DEF WithdrawLink

(* The password is written, every link used and every session closed.      *)
LEMMA ResetPasswordKeeps ==
  ASSUME AccountInv, NEW q \in Requests, ResetPassword(q) PROVE AccountInv'
<1> USE DEF AccountInv
<1> DEFINE t == request[q].link
<1>1. CASE UNCHANGED <<user, session, link>> BY <1>1, ReplyKeeps DEF ResetPassword
<1>2. CASE /\ ClaimableLink(q) /\ link' = Spent(t)
           /\ user' = Written(request[q].password, user.resets + 1, Null)
           /\ session' = Revoked(Sessions)
  <2>1. UNCHANGED clock /\ Reply(q) BY DEF ResetPassword
  <2>2. request' \in [Requests -> RequestStates] /\ \A p \in Requests : RequestOK(p)'
    BY <2>1, ReplyKeepsRequests
  <2>3. t \in Links /\ request[q].password \in Passwords /\ user \in Users
    BY DEF ResetPassword, RequestOK, AccountsTypeOK
  <2>4. user' \in Users BY <1>2, <2>3 DEF Written, Users
  <2>5. link[t].spent = 0 BY <1>2, <2>3 DEF ClaimableLink, Unused, LinkOK
  <2> DEFINE old == Used(Links)
  <2>6. /\ old \in [Links -> LinkRows]
        /\ \A u \in Links : /\ old[u].spent = link[u].spent
                            /\ old[u].status \in {"LIVE", "ABSENT"}
                                 => old[u].status = link[u].status /\ ~Unused(u)
    BY UsingLinks
  <2> HIDE DEF old
  <2>7. link' = [old EXCEPT ![t].status = "USED", ![t].spent = @ + 1]
    BY <1>2 DEF Spent, old
  <2>8. link' \in [Links -> LinkRows] BY <2>3, <2>6, <2>7 DEF LinkRows
  <2>9. ASSUME NEW u \in Links PROVE LinkOK(u)' /\ ~Unused(u)'
    <3>1. CASE u = t
      <4>1. link'[u].status = "USED" /\ link'[u].spent = 1
        BY <2>3, <2>5, <2>6, <2>7, <3>1 DEF LinkRows
      <4> QED BY <4>1 DEF LinkOK, Unused
    <3>2. CASE u # t
      <4>1. link'[u] = old[u] BY <2>3, <2>6, <2>7, <3>2
      <4> QED BY <2>6, <4>1 DEF LinkOK, Unused
    <3> QED BY <3>1, <3>2
  <2>10. AccountsTypeOK' BY <1>2, <2>2, <2>4, <2>8, ClosingSessions DEF AccountsTypeOK
  <2>11. NoLinkOutlivesReset' BY <2>9 DEF NoLinkOutlivesReset
  <2>12. NoSessionOutlivesPassword' BY <1>2, ClosingSessions DEF NoSessionOutlivesPassword
  <2> QED BY <2>1, <2>2, <2>9, <2>10, <2>11, <2>12
<1> QED BY <1>1, <1>2 DEF ResetPassword

LEMMA AccountStep == AccountInv /\ [AccountsNext]_accountVars => AccountInv'
<1> SUFFICES ASSUME AccountInv, [AccountsNext]_accountVars PROVE AccountInv' OBVIOUS
<1>1. request \in [Requests -> RequestStates] /\ \A p \in Requests : RequestOK(p)
  BY DEF AccountInv, AccountsTypeOK
<1>2. CASE AccountsTick \/ UNCHANGED accountVars
  <2>1. UNCHANGED <<user, session, link, request>> /\ clock' \in Nat
    BY <1>2 DEF AccountsTick, ClockTick, accountVars, AccountInv
  <2>2. \A p \in Requests : RequestOK(p)' BY <1>1, <2>1 DEF RequestOK
  <2> QED BY <1>1, <2>1, <2>2, RowsKept
<1>3. ASSUME NEW q \in Requests, DropRequest(q) PROVE AccountInv'
  BY <1>3, ReplyKeeps DEF DropRequest
<1> QED BY <1>2, <1>3, BeginKeeps, ReadKeeps, OpenSessionKeeps, ActKeeps, ChangePasswordKeeps,
        IssueLinkKeeps, WithdrawLinkKeeps, ResetPasswordKeeps DEF AccountsNext

-----------------------------------------------------------------------------
(* Theorems.                                                               *)

(* What holds of an account, its sessions, links and requests throughout.  *)
THEOREM AccountInvariant == AccountsSpec => []AccountInv
BY AccountInvInit, AccountStep, PTL DEF AccountsSpec

(* Two requests that follow one link change the password once.             *)
THEOREM LinksAreSpentOnce == AccountsSpec => []LinkIsSpentOnce
<1>1. AccountInv => LinkIsSpentOnce BY DEF AccountInv, LinkOK, LinkIsSpentOnce
<1> QED BY <1>1, AccountInvariant, PTL

(* A reset uses up every link there is, those in the mail included.        *)
THEOREM ResetsEndLinks == AccountsSpec => []NoLinkOutlivesReset
<1>1. AccountInv => NoLinkOutlivesReset BY DEF AccountInv
<1> QED BY <1>1, AccountInvariant, PTL

(* Sessions of an old password are closed, but the one that changed it.    *)
THEOREM PasswordsEndSessions == AccountsSpec => []NoSessionOutlivesPassword
<1>1. AccountInv => NoSessionOutlivesPassword BY DEF AccountInv
<1> QED BY <1>1, AccountInvariant, PTL

-----------------------------------------------------------------------------
(* An invitation is answered once, by its own token.                        *)

(* The invariant of the team holds before anybody is invited.              *)
LEMMA TeamInvInit == TeamInit => TeamInv
<1> SUFFICES ASSUME TeamInit PROVE TeamInv OBVIOUS
<1>1. TeamTypeOK
  <2>1. NoMember \in Members /\ NoDialog \in DialogStates
    BY DEF Members, NoMember, DialogStates, NoDialog, Stamp
  <2>2. fate \in [Tokens -> Fates] /\ tokens \in 0 .. MaxTokens BY CollaborationAssumption DEF TeamInit, Fates
  <2> QED BY <2>1, <2>2 DEF TeamInit, TeamTypeOK
<1>2. (\A p \in People : MemberOK(p)) /\ \A d \in Dialogs : DialogOK(d)
  BY DEF TeamInit, MemberOK, DialogOK, NoMember, NoDialog, Inviting
<1>3. TokensDiffer BY DEF TeamInit, TokensDiffer, Inviting, NoDialog, Undecided
<1>4. TokenDecidesOnce /\ LastInvitationWorks
  BY DEF TeamInit, TokenDecidesOnce, LastInvitationWorks, NoMember
<1> QED BY <1>1, <1>2, <1>3, <1>4 DEF TeamInit, TeamInv

(* What was mailed last works, by what rows say of their tokens.           *)
LEMMA MembersOKSuffice ==
  ASSUME TeamTypeOK, \A p \in People : MemberOK(p)
  PROVE  LastInvitationWorks
BY DEF LastInvitationWorks, MemberOK, TeamTypeOK, Members

(* A request that ends, or begins without an invitation to write.          *)
LEMMA TeamQuietStep ==
  ASSUME TeamInv, NEW d \in Dialogs, NEW r \in DialogStates,
         dialog' = [dialog EXCEPT ![d] = r],
         r.pc \notin {"write", "mail", "withdraw"},
         r.pc # "idle" => r.person \in People, r.pc = "decide" => r.token # Null,
         UNCHANGED <<member, tokens, fate, clock>>, archived' \in BOOLEAN
  PROVE  TeamInv'
<1> USE DEF TeamInv
<1>1. dialog \in [Dialogs -> DialogStates] BY DEF TeamTypeOK
<1>2. TeamTypeOK' BY <1>1 DEF TeamTypeOK
<1>3. ASSUME NEW e \in Dialogs, Inviting(e)'
      PROVE  e # d /\ dialog'[e] = dialog[e] /\ Inviting(e)
  BY <1>1, <1>3 DEF Inviting
<1>4. \A p \in People : MemberOK(p)' BY <1>3 DEF MemberOK, Undecided
<1>5. ASSUME NEW e \in Dialogs PROVE DialogOK(e)'
  <2>1. CASE e = d BY <1>1, <2>1 DEF DialogOK, Inviting
  <2>2. CASE e # d BY <1>1, <2>2 DEF DialogOK, Inviting, Undecided
  <2> QED BY <2>1, <2>2
<1>6. TokensDiffer' BY <1>3 DEF TokensDiffer, Undecided
<1>7. TokenDecidesOnce' /\ LastInvitationWorks' BY DEF TokenDecidesOnce, LastInvitationWorks
<1> QED BY <1>2, <1>4, <1>5, <1>6, <1>7

(* What one step of request d may tell of a token: that it was mailed, when *)
(* the request ends, or that it decided, when the row of p loses it.       *)
FateStep(d, pc, p, token, k) ==
  /\ fate'[k].person = fate[k].person
  /\ \/ fate'[k].mailed = fate[k].mailed
     \/ Inviting(d) /\ k = dialog[d].token /\ pc = "idle"
  /\ \/ fate'[k].accepted = fate[k].accepted /\ fate'[k].declined = fate[k].declined
     \/ k = member[p].token /\ token = Null /\ fate'[k].accepted + fate'[k].declined <= 1

(* A step of a request that may write one row: it goes on with its         *)
(* invitation or ends; it tells that its token was mailed when it ends, or *)
(* decides the token that its row loses.                                   *)
LEMMA RowStep ==
  ASSUME TeamInv, NEW d \in Dialogs, NEW r \in DialogStates, NEW p \in People, NEW m \in Members,
         dialog' = [dialog EXCEPT ![d] = r],
         \/ r.pc = "idle"
         \/ /\ r.pc \in {"mail", "withdraw"} /\ Inviting(d)
            /\ r.token = dialog[d].token /\ r.person = dialog[d].person,
         member' = [member EXCEPT ![p] = m],
         m.last \in {member[p].last, Null} \/ (dialog[d].pc = "write" /\ m.last = dialog[d].token),
         m = member[p] \/ MemberOK(p)',
         fate' \in [Tokens -> Fates],
         \A k \in Tokens : FateStep(d, r.pc, p, m.token, k),
         UNCHANGED <<archived, tokens, clock>>
  PROVE  TeamInv'
<1> USE DEF TeamInv, FateStep
<1>1. /\ dialog \in [Dialogs -> DialogStates] /\ member \in [People -> Members]
      /\ fate \in [Tokens -> Fates] /\ tokens \in Nat
  BY DEF TeamTypeOK
<1>2. TeamTypeOK' BY <1>1 DEF TeamTypeOK
<1>3. ASSUME NEW e \in Dialogs PROVE (e = d => dialog'[e] = r) /\ (e # d => dialog'[e] = dialog[e])
  BY <1>1
<1>4. ASSUME NEW q \in People PROVE (q = p => member'[q] = m) /\ (q # p => member'[q] = member[q])
  BY <1>1
<1>5. ASSUME NEW e \in Dialogs, Inviting(e)'
      PROVE  Inviting(e) /\ dialog'[e].token = dialog[e].token /\ dialog'[e].person = dialog[e].person
  BY <1>3, <1>5 DEF Inviting
<1>6. ASSUME NEW q \in People, member'[q] = member[q] PROVE MemberOK(q)'
  <2>1. MemberOK(q) /\ member[q] \in Members BY <1>1
  <2>2. ASSUME member[q].token # Null PROVE Undecided(member[q].token)'
    <3>1. member[q].token \in Tokens /\ Undecided(member[q].token)
            /\ fate[member[q].token].person = q
      BY <2>1, <2>2 DEF Members, MemberOK
    <3>2. ~(member[q].token = member[p].token /\ m.token = Null)
      <4>1. CASE q = p BY <4>1, <1>4, <1>6, <2>2
      <4>2. CASE q # p
        <5>1. MemberOK(p) OBVIOUS
        <5>2. member[p].token # Null => fate[member[p].token].person = p BY <5>1 DEF MemberOK
        <5> QED BY <4>2, <5>2, <3>1, <2>2
      <4> QED BY <4>1, <4>2
    <3> QED BY <3>1, <3>2, <1>6 DEF Undecided
  <2>3. ASSUME member[q].last # Null
        PROVE  member[q].last <= tokens' /\ fate'[member[q].last].person = q
    BY <2>1, <2>3 DEF MemberOK, Members
  <2>4. ASSUME member[q].status = "PENDING", member[q].token = Null
        PROVE  /\ ~fate'[member[q].last].mailed
               /\ \A e \in Dialogs : Inviting(e)' => dialog'[e].token # member[q].last
    <3>1. /\ ~fate[member[q].last].mailed /\ member[q].last \in Tokens
          /\ \A e \in Dialogs : Inviting(e) => dialog[e].token # member[q].last
      BY <2>1, <2>4 DEF MemberOK, Members
    <3> QED BY <3>1, <1>5
  <2> QED BY <2>1, <2>2, <2>3, <2>4, <1>6 DEF MemberOK
<1>7. \A q \in People : MemberOK(q)' BY <1>4, <1>6
<1>8. ASSUME NEW e \in Dialogs PROVE DialogOK(e)'
  <2>1. DialogOK(e) /\ dialog[e] \in DialogStates BY <1>1
  <2>2. CASE e = d
    <3>1. CASE r.pc = "idle" BY <2>2, <3>1, <1>3 DEF DialogOK, Inviting
    <3>2. CASE r.pc # "idle"
      <4>1. r.token \in Tokens /\ r.token <= tokens /\ fate[r.token].person = r.person
              /\ ~fate[r.token].mailed /\ r.person \in People
        BY <2>1, <2>2, <3>2 DEF DialogOK, DialogStates, Inviting
      <4> QED BY <4>1, <2>2, <3>2, <1>3, EnvironmentAssumption DEF DialogOK, Inviting, Tokens
    <3> QED BY <3>1, <3>2
  <2>3. CASE e # d
    <3>1. dialog'[e] = dialog[e] BY <2>3, <1>3
    <3>2. ASSUME Inviting(e)
          PROVE  /\ dialog[e].token \in Tokens /\ fate'[dialog[e].token].person = dialog[e].person
                 /\ ~fate'[dialog[e].token].mailed
      <4>1. dialog[e].token \in Tokens BY <2>1, <3>2 DEF DialogOK, DialogStates
      <4>2. Inviting(d) => dialog[e].token # dialog[d].token BY <3>2, <2>3 DEF TokensDiffer
      <4> QED BY <4>1, <4>2, <2>1, <3>2 DEF DialogOK
    <3>3. ASSUME dialog[e].pc = "write"
          PROVE  Undecided(dialog[e].token)' /\ \A q \in People : member'[q].last # dialog[e].token
      <4>1. dialog[e].token \in Tokens /\ Inviting(e) BY <3>2, <3>3 DEF Inviting
      <4>2. Undecided(dialog[e].token) /\ \A q \in People : member[q].last # dialog[e].token
        BY <2>1, <3>3 DEF DialogOK
      <4>3. MemberOK(p) /\ member[p].token # dialog[e].token BY <4>1, <4>2, EnvironmentAssumption DEF MemberOK, Tokens
      <4>4. Undecided(dialog[e].token)' BY <4>1, <4>2, <4>3, <3>1 DEF Undecided
      <4>5. Inviting(d) => dialog[e].token # dialog[d].token BY <4>1, <2>3 DEF TokensDiffer
      <4>6. m.last # dialog[e].token BY <4>1, <4>2, <4>5, EnvironmentAssumption DEF Inviting, Tokens
      <4> QED BY <4>2, <4>4, <4>6, <1>4
    <3> QED BY <3>1, <3>2, <3>3, <2>1 DEF DialogOK, Inviting
  <2> QED BY <2>2, <2>3
<1>9. TokensDiffer'
  <2>1. ASSUME NEW k \in Tokens, k > tokens' PROVE Undecided(k)' /\ ~fate'[k].mailed
    <3>1. Undecided(k) /\ ~fate[k].mailed BY <2>1 DEF TokensDiffer
    <3>2. Inviting(d) => dialog[d].token <= tokens BY DEF DialogOK
    <3>3. member[p].token = k => k <= tokens
      <4>1. MemberOK(p) OBVIOUS
      <4> QED BY <4>1, EnvironmentAssumption DEF MemberOK, Tokens
    <3>4. k # member[p].token /\ ~(Inviting(d) /\ k = dialog[d].token)
      BY <3>2, <3>3, <2>1, <1>1 DEF Tokens
    <3> QED BY <3>1, <3>4 DEF Undecided
  <2>2. ASSUME NEW e \in Dialogs, NEW f \in Dialogs, Inviting(e)', Inviting(f)', e # f
        PROVE  dialog'[e].token # dialog'[f].token
    BY <2>2, <1>5 DEF TokensDiffer
  <2> QED BY <2>1, <2>2 DEF TokensDiffer
<1>10. TokenDecidesOnce' BY DEF TokenDecidesOnce
<1>11. LastInvitationWorks' BY <1>2, <1>7 DEF LastInvitationWorks, MemberOK, TeamTypeOK, Members
<1> QED BY <1>2, <1>7, <1>8, <1>9, <1>10, <1>11

LEMMA InviteStep ==
  ASSUME TeamInv, NEW d \in Dialogs, Invite(d)
  PROVE  TeamInv'
<1> USE DEF TeamInv
<1>1. PICK p \in People :
        /\ tokens' = tokens + 1
        /\ dialog' = [dialog EXCEPT ![d] = [NoDialog EXCEPT
             !.pc = "write", !.person = p, !.found = member[p].status # "ABSENT",
             !.id = member[p].id, !.token = tokens + 1, !.now = clock]]
        /\ fate' = [fate EXCEPT ![tokens + 1].person = p]
  BY DEF Invite
<1>2. tokens < MaxTokens /\ UNCHANGED <<member, archived, clock>> BY DEF Invite
<1>n. PICK n \in Tokens : n = tokens + 1 /\ tokens \in Nat /\ n # Null
  BY EnvironmentAssumption, CollaborationAssumption, <1>2 DEF TeamTypeOK, Tokens
<1> DEFINE r == [NoDialog EXCEPT !.pc = "write", !.person = p,
                   !.found = member[p].status # "ABSENT", !.id = member[p].id,
                   !.token = n, !.now = clock]
<1>3. n \in Tokens /\ tokens \in Nat /\ n # Null /\ n = tokens + 1 BY <1>n
<1>4. r \in DialogStates /\ r.pc = "write" /\ r.person = p /\ r.token = n
  BY <1>3 DEF TeamTypeOK, NoDialog, DialogStates, Members
<1>5. /\ dialog \in [Dialogs -> DialogStates] /\ fate \in [Tokens -> Fates]
      /\ member \in [People -> Members]
  BY DEF TeamTypeOK
<1> HIDE DEF r
<1>6. dialog' = [dialog EXCEPT ![d] = r] BY <1>1, <1>n DEF r
<1>7. fate' \in [Tokens -> Fates] BY <1>1, <1>3, <1>5 DEF Fates
<1>8. ASSUME NEW m \in Tokens
      PROVE  /\ fate'[m].accepted = fate[m].accepted /\ fate'[m].declined = fate[m].declined
             /\ fate'[m].mailed = fate[m].mailed
             /\ m # n => fate'[m].person = fate[m].person
             /\ m = n => fate'[m].person = p
  BY <1>1, <1>3, <1>5 DEF Fates
<1>9. n > tokens /\ tokens' = n BY <1>1, <1>3
<1>10. Undecided(n) /\ ~fate[n].mailed BY <1>3, <1>9 DEF TokensDiffer
<1>11. ASSUME NEW q \in People
       PROVE  member[q].last # n /\ member[q].token # n
  <2>1. MemberOK(q) OBVIOUS
  <2>2. member[q].last # Null => member[q].last <= tokens BY <2>1 DEF MemberOK
  <2>3. member[q].last # n BY <2>2, <1>3
  <2> QED BY <2>1, <2>3, <1>3 DEF MemberOK
<1>12. ASSUME NEW e \in Dialogs, Inviting(e) PROVE dialog[e].token # n
  <2>1. dialog[e].token <= tokens BY <1>12 DEF DialogOK
  <2> QED BY <2>1, <1>3
<1>13. TeamTypeOK' BY <1>2, <1>3, <1>4, <1>5, <1>6, <1>7, <1>9 DEF TeamTypeOK, Tokens
<1>14. ASSUME NEW e \in Dialogs
       PROVE  /\ e = d => dialog'[e] = r
              /\ e # d => dialog'[e] = dialog[e]
  BY <1>5, <1>6
<1>15. ASSUME NEW q \in People PROVE MemberOK(q)'
  <2>1. member[q] \in Members BY <1>5
  <2>2. member[q].token # Null => member[q].token \in Tokens BY <2>1 DEF Members
  <2>3. member[q].last # Null => member[q].last \in Tokens BY <2>1 DEF Members
  <2>4. MemberOK(q) OBVIOUS
  <2>5. member'[q] = member[q] BY <1>2
  <2>6. ASSUME NEW e \in Dialogs, Inviting(e)', dialog'[e].token # n PROVE Inviting(e) /\ dialog[e] = dialog'[e]
    BY <2>6, <1>14, <1>4 DEF Inviting
  <2>7. (member[q].token # Null => Undecided(member[q].token)')
    BY <2>2, <2>4, <2>5, <1>8 DEF MemberOK, Undecided
  <2>8. (member[q].last # Null => fate'[member[q].last].person = q /\ member[q].last <= tokens')
    BY <2>3, <2>4, <1>8, <1>11, <1>9, <1>3 DEF MemberOK, Tokens
  <2>9. member[q].status = "PENDING" /\ member[q].token = Null =>
          ~fate'[member[q].last].mailed /\ \A e \in Dialogs : Inviting(e)' => dialog'[e].token # member[q].last
    BY <2>3, <2>4, <2>6, <1>8, <1>11 DEF MemberOK
  <2> QED BY <2>4, <2>5, <2>7, <2>8, <2>9 DEF MemberOK
<1>16. ASSUME NEW e \in Dialogs PROVE DialogOK(e)'
  <2>1. CASE e = d
    <3>1. \A q \in People : member'[q].last # n BY <1>2, <1>11
    <3>2. Undecided(n)' BY <1>8, <1>10, <1>3 DEF Undecided
    <3>3. fate'[n].person = p /\ ~fate'[n].mailed BY <1>8, <1>10, <1>3
    <3>4. n <= tokens' BY <1>9, <1>3 DEF Tokens
    <3> QED BY <2>1, <1>14, <1>4, <3>1, <3>2, <3>3, <3>4, <1>3 DEF DialogOK, Inviting
  <2>2. CASE e # d
    <3>1. dialog'[e] = dialog[e] /\ DialogOK(e) /\ dialog[e] \in DialogStates BY <2>2, <1>14, <1>5
    <3>2. Inviting(e) => dialog[e].token \in Tokens /\ dialog[e].token # n
      BY <3>1, <1>12 DEF DialogOK, DialogStates
    <3> QED BY <3>1, <3>2, <1>2, <1>8, <1>9, <1>3 DEF DialogOK, Inviting, Undecided, Tokens
  <2> QED BY <2>1, <2>2
<1>17. TokensDiffer'
  <2>1. ASSUME NEW e \in Dialogs, NEW f \in Dialogs, Inviting(e)', Inviting(f)', e # f
        PROVE  dialog'[e].token # dialog'[f].token
    <3>1. e # d => Inviting(e) /\ dialog'[e] = dialog[e] BY <2>1, <1>14 DEF Inviting
    <3>2. f # d => Inviting(f) /\ dialog'[f] = dialog[f] BY <2>1, <1>14 DEF Inviting
    <3> QED BY <3>1, <3>2, <2>1, <1>14, <1>12, <1>4 DEF TokensDiffer
  <2>2. ASSUME NEW m \in Tokens, m > tokens' PROVE Undecided(m)' /\ ~fate'[m].mailed
    BY <2>2, <1>8, <1>9, <1>3 DEF TokensDiffer, Undecided, Tokens
  <2> QED BY <2>1, <2>2 DEF TokensDiffer
<1>18. TokenDecidesOnce' BY <1>8 DEF TokenDecidesOnce
<1>19. LastInvitationWorks' BY <1>13, <1>15, MembersOKSuffice DEF LastInvitationWorks, TeamTypeOK, MemberOK, Members
<1> QED BY <1>2, <1>13, <1>15, <1>16, <1>17, <1>18, <1>19

(* A request that ends without having written: nothing else has moved.     *)
LEMMA ClosingStep ==
  ASSUME TeamInv, NEW d \in Dialogs, Close(d), UNCHANGED <<member, archived, tokens, fate, clock>>
  PROVE  TeamInv'
<1> DEFINE r == NoDialog
<1>1. r \in DialogStates /\ r.pc = "idle" BY DEF NoDialog, DialogStates
<1>2. dialog' = [dialog EXCEPT ![d] = r] BY DEF Close
<1>3. archived' \in BOOLEAN BY DEF TeamInv, TeamTypeOK
<1> HIDE DEF r
<1> QED BY <1>1, <1>2, <1>3, TeamQuietStep

LEMMA WriteInvitationStep ==
  ASSUME TeamInv, NEW d \in Dialogs, WriteInvitation(d)
  PROVE  TeamInv'
<1>1. /\ dialog[d] \in DialogStates /\ dialog \in [Dialogs -> DialogStates]
      /\ member \in [People -> Members] /\ fate \in [Tokens -> Fates]
      /\ dialog[d].pc = "write" /\ DialogOK(d) /\ Inviting(d)
  BY DEF TeamInv, TeamTypeOK, WriteInvitation, Inviting
<1>p. PICK p \in People, n \in Tokens : p = dialog[d].person /\ n = dialog[d].token
  BY <1>1 DEF DialogOK, DialogStates
<1> DEFINE m == [status |-> "PENDING", token |-> n, expiresAt |-> dialog[d].now + InvitationExpiry,
                 id |-> IF dialog[d].found THEN member[p].id ELSE member[p].id + 1, last |-> n]
           r == [dialog[d] EXCEPT !.pc = "mail", !.id = m.id]
<1>2. n # Null /\ n <= tokens /\ fate[n].person = p /\ Undecided(n) /\ ~fate[n].mailed
  BY <1>1, <1>p DEF DialogOK
<1>3. member[p] \in Members BY <1>1
<1>4. m \in Members
  <2>1. m.id \in Nat BY <1>3 DEF Members
  <2>2. m.expiresAt \in Stamp BY CollaborationAssumption, <1>1 DEF DialogStates, Stamp
  <2> QED BY <2>1, <2>2, <1>2 DEF Members
<1>5. r \in DialogStates /\ r.pc = "mail" /\ r.token = n /\ r.person = p
  BY <1>1, <1>4, <1>p DEF DialogStates, Members
<1>6. CASE Close(d) /\ UNCHANGED member
  BY <1>6, ClosingStep DEF WriteInvitation
<1>7. CASE ~(Close(d) /\ UNCHANGED member)
  <2>1. member' = [member EXCEPT ![p] = m]
    BY <1>7, <1>1, <1>p DEF WriteInvitation
  <2>2. dialog' = [dialog EXCEPT ![d] = r]
    <3>1. dialog' = [dialog EXCEPT ![d].pc = "mail", ![d].id = member'[p].id]
      BY <1>7, <1>p DEF WriteInvitation
    <3>2. member'[p] = m BY <2>1, <1>1
    <3> QED BY <3>1, <3>2, <1>1
  <2>3. UNCHANGED <<archived, tokens, fate, clock>> BY DEF WriteInvitation
  <2>4. MemberOK(p)'
    <3>1. member'[p].status = "PENDING" /\ member'[p].token = n /\ member'[p].last = n
      BY <2>1, <1>1
    <3>2. Undecided(n)' BY <1>2, <2>3 DEF Undecided
    <3> HIDE DEF m, r
    <3> QED BY <3>1, <3>2, <1>2, <2>3 DEF MemberOK, Undecided
  <2>5. dialog[d].pc = "write" /\ m.last = dialog[d].token BY <1>1, <1>p
  <2>6. r.pc \in {"mail", "withdraw"} /\ r.token = dialog[d].token /\ r.person = dialog[d].person
    BY <1>5, <1>p
  <2> HIDE DEF m, r
  <2>7. ASSUME NEW k \in Tokens PROVE FateStep(d, r.pc, p, m.token, k) BY <2>3 DEF FateStep
  <2> QED BY <1>1, <1>2, <1>4, <1>5, <2>1, <2>2, <2>3, <2>4, <2>5, <2>6, <2>7, RowStep
<1> QED BY <1>6, <1>7

LEMMA MailInvitationStep ==
  ASSUME TeamInv, NEW d \in Dialogs, MailInvitation(d)
  PROVE  TeamInv'
<1>1. /\ dialog[d] \in DialogStates /\ dialog \in [Dialogs -> DialogStates]
      /\ member \in [People -> Members] /\ fate \in [Tokens -> Fates]
      /\ dialog[d].pc = "mail" /\ DialogOK(d) /\ Inviting(d)
  BY DEF TeamInv, TeamTypeOK, MailInvitation, Inviting
<1>2. PICK p \in People, n \in Tokens : p = dialog[d].person /\ n = dialog[d].token
  BY <1>1 DEF DialogOK, DialogStates
<1>3. PICK m \in Members : m = member[p] BY <1>1
<1>4. member' = [member EXCEPT ![p] = m] /\ UNCHANGED <<archived, tokens, clock>>
  BY <1>1, <1>3 DEF MailInvitation
<1>5. CASE fate' = [fate EXCEPT ![n].mailed = TRUE] /\ Close(d)
  <2> DEFINE r == NoDialog
  <2>1. r \in DialogStates /\ r.pc = "idle" /\ dialog' = [dialog EXCEPT ![d] = r]
    BY <1>5 DEF NoDialog, DialogStates, Close
  <2>2. fate' \in [Tokens -> Fates] BY <1>1, <1>5 DEF Fates
  <2>3. ASSUME NEW k \in Tokens
        PROVE  /\ fate'[k].person = fate[k].person
               /\ fate'[k].mailed = fate[k].mailed \/ k = n
               /\ fate'[k].accepted = fate[k].accepted /\ fate'[k].declined = fate[k].declined
    BY <1>1, <1>5 DEF Fates
  <2>4. ASSUME NEW k \in Tokens PROVE FateStep(d, r.pc, p, m.token, k)
    BY <1>1, <1>2, <2>1, <2>3 DEF FateStep
  <2> HIDE DEF r
  <2> QED BY <1>3, <1>4, <2>1, <2>2, <2>4, RowStep
<1>6. CASE UNCHANGED fate /\ dialog' = [dialog EXCEPT ![d].pc = "withdraw"]
  <2> DEFINE r == [dialog[d] EXCEPT !.pc = "withdraw"]
  <2>1. r \in DialogStates /\ r.pc = "withdraw" /\ r.token = n /\ r.person = p
          /\ dialog' = [dialog EXCEPT ![d] = r]
    BY <1>1, <1>2, <1>6 DEF DialogStates
  <2>2. r.token = dialog[d].token /\ r.person = dialog[d].person BY <1>2, <2>1
  <2>3. fate' \in [Tokens -> Fates] BY <1>1, <1>6
  <2> HIDE DEF r
  <2>4. ASSUME NEW k \in Tokens PROVE FateStep(d, r.pc, p, m.token, k) BY <1>6 DEF FateStep
  <2> QED BY <1>1, <1>3, <1>4, <1>6, <2>1, <2>2, <2>3, <2>4, RowStep
<1> QED BY <1>2, <1>5, <1>6 DEF MailInvitation

LEMMA WithdrawInvitationStep ==
  ASSUME TeamInv, NEW d \in Dialogs, WithdrawInvitation(d)
  PROVE  TeamInv'
<1>1. /\ dialog[d] \in DialogStates /\ dialog \in [Dialogs -> DialogStates]
      /\ member \in [People -> Members] /\ fate \in [Tokens -> Fates] /\ clock \in Nat
      /\ dialog[d].pc = "withdraw" /\ DialogOK(d) /\ Inviting(d)
  BY DEF TeamInv, TeamTypeOK, WithdrawInvitation, Inviting
<1>2. CASE UNCHANGED member BY <1>2, ClosingStep DEF WithdrawInvitation
<1>3. CASE ~UNCHANGED member
  <2>1. PICK p \in People, n \in Tokens : p = dialog[d].person /\ n = dialog[d].token
    BY <1>1 DEF DialogOK, DialogStates
  <2>2. member[p] \in Members /\ MemberOK(p) BY <1>1 DEF TeamInv
  <2>3. PICK m \in Members : m = [member[p] EXCEPT !.expiresAt = clock, !.token = Null]
    BY <1>1, <2>2 DEF Members, Stamp
  <2>4. member[p].token = n /\ member' = [member EXCEPT ![p] = m]
    BY <1>1, <1>3, <2>1, <2>3 DEF WithdrawInvitation, Withdrawable
  <2>5. /\ m.status = member[p].status /\ m.token = Null /\ m.last = member[p].last
        /\ member[p].last = n /\ member'[p] = m
    <3>1. member'[p] = m BY <1>1, <2>4
    <3>2. m.status = member[p].status /\ m.token = Null /\ m.last = member[p].last
      BY <2>2, <2>3 DEF Members
    <3>3. n # Null BY EnvironmentAssumption DEF Tokens
    <3> QED BY <3>1, <3>2, <3>3, <2>2, <2>4 DEF MemberOK
  <2>6. Close(d) /\ UNCHANGED <<archived, tokens, fate, clock>> BY DEF WithdrawInvitation
  <2>7. ASSUME NEW e \in Dialogs, Inviting(e)' PROVE Inviting(e) /\ e # d /\ dialog'[e] = dialog[e]
    BY <1>1, <2>6, <2>7 DEF Close, NoDialog, Inviting
  <2>8. MemberOK(p)'
    <3>1. ~fate[n].mailed /\ n <= tokens /\ fate[n].person = p BY <1>1, <2>1 DEF DialogOK
    <3>2. \A e \in Dialogs : Inviting(e)' => dialog'[e].token # n
      BY <1>1, <2>1, <2>7 DEF TeamInv, TokensDiffer
    <3> QED BY <3>1, <3>2, <2>5, <2>6, <2>1, EnvironmentAssumption DEF MemberOK, Tokens
  <2> DEFINE r == NoDialog
  <2>9. r \in DialogStates /\ r.pc = "idle" /\ dialog' = [dialog EXCEPT ![d] = r]
    BY <2>6 DEF NoDialog, DialogStates, Close
  <2> HIDE DEF r
  <2>10. ASSUME NEW k \in Tokens PROVE FateStep(d, r.pc, p, m.token, k) BY <2>6 DEF FateStep
  <2> QED BY <1>1, <2>4, <2>5, <2>6, <2>8, <2>9, <2>10, RowStep
<1> QED BY <1>2, <1>3

(* The row of a person is gone.                                            *)
LEMMA GoneIsOK ==
  ASSUME TeamTypeOK, NEW p \in People, NEW i \in Nat,
         member' = [member EXCEPT ![p] = [NoMember EXCEPT !.id = i]]
  PROVE  /\ [NoMember EXCEPT !.id = i] \in Members
         /\ MemberOK(p)'
<1>1. [NoMember EXCEPT !.id = i] \in Members BY DEF NoMember, Members, Stamp
<1>2. member'[p].status = "ABSENT" /\ member'[p].token = Null /\ member'[p].last = Null
  BY DEF NoMember, TeamTypeOK
<1> QED BY <1>1, <1>2 DEF MemberOK

LEMMA RemoveMemberStep ==
  ASSUME TeamInv, NEW d \in Dialogs, RemoveMember(d)
  PROVE  TeamInv'
<1>1. /\ dialog[d] \in DialogStates /\ dialog \in [Dialogs -> DialogStates]
      /\ fate \in [Tokens -> Fates]
      /\ dialog[d].pc = "remove" /\ DialogOK(d) /\ TeamTypeOK
  BY DEF TeamInv, TeamTypeOK, RemoveMember
<1>2. CASE UNCHANGED member BY <1>2, ClosingStep DEF RemoveMember
<1>3. CASE ~UNCHANGED member
  <2>1. PICK p \in People : p = dialog[d].person BY <1>1 DEF DialogOK
  <2>2. PICK i \in Nat : i = dialog[d].id BY <1>1 DEF DialogStates
  <2> DEFINE m == [NoMember EXCEPT !.id = i]
             r == NoDialog
  <2>3. member' = [member EXCEPT ![p] = m] BY <1>3, <2>1, <2>2 DEF RemoveMember
  <2>4. m \in Members /\ MemberOK(p)' BY <1>1, <2>3, GoneIsOK
  <2>5. m.last = Null BY DEF NoMember
  <2>6. Close(d) /\ UNCHANGED <<archived, tokens, fate, clock>> BY DEF RemoveMember
  <2>7. r \in DialogStates /\ r.pc = "idle" /\ dialog' = [dialog EXCEPT ![d] = r]
    BY <2>6 DEF NoDialog, DialogStates, Close
  <2> HIDE DEF r, m
  <2>8. ASSUME NEW k \in Tokens PROVE FateStep(d, r.pc, p, m.token, k) BY <2>6 DEF FateStep
  <2> QED BY <1>1, <2>3, <2>4, <2>5, <2>6, <2>7, <2>8, RowStep
<1> QED BY <1>2, <1>3

LEMMA DecideStep ==
  ASSUME TeamInv, NEW d \in Dialogs, Decide(d)
  PROVE  TeamInv'
<1>1. /\ dialog[d] \in DialogStates /\ dialog \in [Dialogs -> DialogStates]
      /\ member \in [People -> Members] /\ fate \in [Tokens -> Fates]
      /\ dialog[d].pc = "decide" /\ DialogOK(d) /\ TeamTypeOK
  BY DEF TeamInv, TeamTypeOK, Decide
<1>2. CASE UNCHANGED <<member, fate>> BY <1>2, ClosingStep DEF Decide
<1>3. CASE ~UNCHANGED <<member, fate>>
  <2>1. PICK p \in People, n \in Tokens, i \in Nat :
          p = dialog[d].person /\ n = dialog[d].token /\ i = dialog[d].id
    BY <1>1 DEF DialogOK, DialogStates
  <2>2. member[p] \in Members /\ MemberOK(p) BY <1>1 DEF TeamInv
  <2>3. Open(d) /\ Close(d) /\ UNCHANGED <<archived, tokens, clock>> BY <1>3 DEF Decide
  <2>4. member[p].token = n /\ Undecided(n)
    BY <2>1, <2>2, <2>3, EnvironmentAssumption DEF Open, MemberOK, Tokens
  <2> DEFINE r == NoDialog
  <2>5. r \in DialogStates /\ r.pc = "idle" /\ dialog' = [dialog EXCEPT ![d] = r]
    BY <2>3 DEF NoDialog, DialogStates, Close
  <2> HIDE DEF r
  <2>6. CASE dialog[d].accept
    <3>1. PICK m \in Members :
            m = [member[p] EXCEPT !.status = "ACTIVE", !.token = Null, !.expiresAt = Null]
      BY <2>2 DEF Members, Stamp
    <3>2. member' = [member EXCEPT ![p] = m] /\ fate' = [fate EXCEPT ![n].accepted = @ + 1]
      BY <1>1, <1>3, <2>1, <2>6, <3>1 DEF Decide
    <3>3. fate' \in [Tokens -> Fates] BY <1>1, <3>2 DEF Fates
    <3>4. ASSUME NEW k \in Tokens
          PROVE  /\ fate'[k].person = fate[k].person /\ fate'[k].mailed = fate[k].mailed
                 /\ k # n => fate'[k].accepted = fate[k].accepted /\ fate'[k].declined = fate[k].declined
                 /\ k = n => fate'[k].accepted + fate'[k].declined <= 1
      BY <1>1, <2>4, <3>2 DEF Fates, Undecided
    <3>5. m.status = "ACTIVE" /\ m.token = Null /\ m.last = member[p].last /\ member'[p] = m
      BY <1>1, <2>2, <3>1, <3>2 DEF Members
    <3>6. MemberOK(p)'
      <4>1. member[p].last # Null => member[p].last \in Tokens BY <2>2 DEF Members
      <4> QED BY <4>1, <2>2, <2>3, <3>4, <3>5 DEF MemberOK
    <3>7. ASSUME NEW k \in Tokens PROVE FateStep(d, r.pc, p, m.token, k)
      BY <2>4, <3>4, <3>5 DEF FateStep
    <3> QED BY <2>3, <2>5, <3>2, <3>3, <3>5, <3>6, <3>7, RowStep
  <2>7. CASE ~dialog[d].accept
    <3> DEFINE m == [NoMember EXCEPT !.id = i]
    <3>1. member' = [member EXCEPT ![p] = m] /\ fate' = [fate EXCEPT ![n].declined = @ + 1]
      BY <1>1, <1>3, <2>1, <2>7 DEF Decide
    <3>2. m \in Members /\ MemberOK(p)' BY <1>1, <3>1, GoneIsOK
    <3>3. m.last = Null /\ m.token = Null BY DEF NoMember
    <3>4. fate' \in [Tokens -> Fates] BY <1>1, <3>1 DEF Fates
    <3>5. ASSUME NEW k \in Tokens
          PROVE  /\ fate'[k].person = fate[k].person /\ fate'[k].mailed = fate[k].mailed
                 /\ k # n => fate'[k].accepted = fate[k].accepted /\ fate'[k].declined = fate[k].declined
                 /\ k = n => fate'[k].accepted + fate'[k].declined <= 1
      BY <1>1, <2>4, <3>1 DEF Fates, Undecided
    <3> HIDE DEF m
    <3>6. ASSUME NEW k \in Tokens PROVE FateStep(d, r.pc, p, m.token, k)
      BY <2>4, <3>3, <3>5 DEF FateStep
    <3> QED BY <2>3, <2>5, <3>1, <3>2, <3>3, <3>4, <3>6, RowStep
  <2> QED BY <2>6, <2>7
<1> QED BY <1>2, <1>3

LEMMA FindingStep ==
  ASSUME TeamInv, NEW d \in Dialogs, FindMember(d) \/ FindInvitation(d)
  PROVE  TeamInv'
<1>1. TeamTypeOK /\ clock \in Nat BY DEF TeamInv
<1>2. PICK r \in DialogStates :
        /\ dialog' = [dialog EXCEPT ![d] = r]
        /\ r.pc \in {"remove", "decide"} /\ r.person \in People
        /\ r.pc = "decide" => r.token # Null
  <2>1. CASE FindMember(d)
    <3>1. PICK p \in People :
            dialog' = [dialog EXCEPT ![d] = [NoDialog EXCEPT !.pc = "remove", !.person = p,
                                                             !.id = member[p].id]]
      BY <2>1 DEF FindMember
    <3> DEFINE r == [NoDialog EXCEPT !.pc = "remove", !.person = p, !.id = member[p].id]
    <3>2. r \in DialogStates BY <1>1 DEF TeamTypeOK, Members, NoDialog, DialogStates
    <3> QED BY <3>1, <3>2 DEF NoDialog
  <2>2. CASE FindInvitation(d)
    <3>1. PICK p \in People, accept \in BOOLEAN :
            /\ member[p].token # Null
            /\ dialog' = [dialog EXCEPT ![d] = [NoDialog EXCEPT
                 !.pc = "decide", !.person = p, !.id = member[p].id, !.token = member[p].token,
                 !.accept = accept, !.now = clock]]
      BY <2>2 DEF FindInvitation
    <3> DEFINE r == [NoDialog EXCEPT !.pc = "decide", !.person = p, !.id = member[p].id,
                       !.token = member[p].token, !.accept = accept, !.now = clock]
    <3>2. r \in DialogStates BY <1>1 DEF TeamTypeOK, Members, NoDialog, DialogStates
    <3> QED BY <3>1, <3>2 DEF NoDialog
  <2> QED BY <2>1, <2>2
<1>3. UNCHANGED <<member, archived, tokens, fate, clock>> /\ archived' \in BOOLEAN
  BY <1>1 DEF FindMember, FindInvitation, TeamTypeOK
<1> QED BY <1>2, <1>3, TeamQuietStep

(* Time passes, or the case is archived.                                   *)
LEMMA TeamSurroundings ==
  ASSUME TeamInv, UNCHANGED <<member, dialog, tokens, fate>>,
         archived' \in BOOLEAN, clock' \in Nat
  PROVE  TeamInv'
<1> USE DEF TeamInv
<1>1. TeamTypeOK' BY DEF TeamTypeOK
<1>2. \A p \in People : MemberOK(p)' BY DEF MemberOK, Inviting, Undecided
<1>3. \A d \in Dialogs : DialogOK(d)' BY DEF DialogOK, Inviting, Undecided
<1>4. TokensDiffer' BY DEF TokensDiffer, Inviting, Undecided
<1>5. TokenDecidesOnce' /\ LastInvitationWorks' BY DEF TokenDecidesOnce, LastInvitationWorks
<1> QED BY <1>1, <1>2, <1>3, <1>4, <1>5

LEMMA TeamInvNext == TeamInv /\ [TeamNext]_teamVars => TeamInv'
<1> SUFFICES ASSUME TeamInv, [TeamNext]_teamVars PROVE TeamInv' OBVIOUS
<1>1. archived \in BOOLEAN /\ clock \in Nat BY DEF TeamInv, TeamTypeOK
<1>2. CASE TeamTick BY <1>1, <1>2, TeamSurroundings DEF TeamTick, ClockTick
<1>3. CASE ArchiveCase BY <1>1, <1>3, TeamSurroundings DEF ArchiveCase
<1>4. ASSUME NEW d \in Dialogs, Invite(d) PROVE TeamInv' BY <1>4, InviteStep
<1>5. ASSUME NEW d \in Dialogs, WriteInvitation(d) PROVE TeamInv' BY <1>5, WriteInvitationStep
<1>6. ASSUME NEW d \in Dialogs, MailInvitation(d) PROVE TeamInv' BY <1>6, MailInvitationStep
<1>7. ASSUME NEW d \in Dialogs, WithdrawInvitation(d) PROVE TeamInv' BY <1>7, WithdrawInvitationStep
<1>8. ASSUME NEW d \in Dialogs, FindMember(d) \/ FindInvitation(d) PROVE TeamInv'
  BY <1>8, FindingStep
<1>9. ASSUME NEW d \in Dialogs, RemoveMember(d) PROVE TeamInv' BY <1>9, RemoveMemberStep
<1>10. ASSUME NEW d \in Dialogs, Decide(d) PROVE TeamInv' BY <1>10, DecideStep
<1>11. ASSUME NEW d \in Dialogs, DropDialog(d) PROVE TeamInv'
  BY <1>11, ClosingStep DEF DropDialog
<1>12. CASE UNCHANGED teamVars BY <1>1, <1>12, TeamSurroundings DEF teamVars
<1> QED BY <1>2, <1>3, <1>4, <1>5, <1>6, <1>7, <1>8, <1>9, <1>10, <1>11, <1>12 DEF TeamNext

(* However many requests hold a token it is accepted or declined once, and *)
(* the last invitation that was mailed to a person works, whatever mails   *)
(* of earlier ones fail late.                                              *)
THEOREM TeamCorrect == TeamSpec => []TeamInv
<1> QED BY TeamInvInit, TeamInvNext, PTL DEF TeamSpec

(* A request that read a token before it was replaced, withdrawn, decided  *)
(* or removed decides nothing with it.                                     *)
THEOREM DeadTokensDecideNothing == TeamSpec => DeadTokenDecidesNothing
<1> DEFINE A == \A n \in Tokens : (\A p \in People : member[p].token # n) =>
                  fate'[n].accepted = fate[n].accepted /\ fate'[n].declined = fate[n].declined
<1>1. TeamInv /\ [TeamNext]_teamVars => [A]_teamVars
  <2> SUFFICES ASSUME TeamInv, TeamNext, NEW n \in Tokens, \A p \in People : member[p].token # n
               PROVE  fate'[n].accepted = fate[n].accepted /\ fate'[n].declined = fate[n].declined
    OBVIOUS
  <2>1. fate \in [Tokens -> Fates] /\ dialog \in [Dialogs -> DialogStates] /\ tokens \in Nat
    BY DEF TeamInv, TeamTypeOK
  <2>2. CASE UNCHANGED fate BY <2>2
  <2>3. ASSUME NEW d \in Dialogs, Invite(d)
        PROVE  fate'[n].accepted = fate[n].accepted /\ fate'[n].declined = fate[n].declined
    BY <2>1, <2>3 DEF Invite, Fates
  <2>4. ASSUME NEW d \in Dialogs, MailInvitation(d)
        PROVE  fate'[n].accepted = fate[n].accepted /\ fate'[n].declined = fate[n].declined
    BY <2>1, <2>4 DEF MailInvitation, Fates
  <2>5. ASSUME NEW d \in Dialogs, Decide(d)
        PROVE  fate'[n].accepted = fate[n].accepted /\ fate'[n].declined = fate[n].declined
    <3>1. dialog[d].person \in People BY <2>5 DEF TeamInv, DialogOK, Decide
    <3>2. CASE UNCHANGED fate BY <3>2
    <3>3. CASE ~UNCHANGED fate
      <4>1. Open(d) BY <2>5, <3>3 DEF Decide
      <4>2. dialog[d].token # n BY <3>1, <4>1 DEF Open
      <4> QED BY <2>1, <2>5, <4>2 DEF Decide, Fates
    <3> QED BY <3>2, <3>3
  <2> QED BY <2>2, <2>3, <2>4, <2>5
        DEF TeamNext, TeamTick, ArchiveCase, WriteInvitation, WithdrawInvitation, FindMember,
            FindInvitation, RemoveMember, DropDialog
<1>2. TeamSpec => [][A]_teamVars BY <1>1, TeamCorrect, PTL DEF TeamSpec
<1> QED BY <1>2 DEF DeadTokenDecidesNothing
===============================================================================
