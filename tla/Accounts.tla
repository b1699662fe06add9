------------------------------- MODULE Accounts -------------------------------
(***************************************************************************)
(* One account of the API: its password, the sessions opened with it and   *)
(* the reset links mailed for it, under concurrent requests to sign in,    *)
(* sign out, revoke sessions, change the password and reset it.  Reading   *)
(* the row and comparing or hashing a password take time, so every request *)
(* acts on what it read before.                                            *)
(***************************************************************************)
EXTENDS Environment

CONSTANTS
  Requests, Sessions, Links, Passwords,
  SessionLifetime,  \* AUTH_SESSION_TTL_DAYS
  LinkLifetime,     \* PASSWORD_RESET_TOKEN_TTL_MINUTES
  LinkCooldown,     \* PASSWORD_RESET_REQUEST_COOLDOWN_SECONDS
  MaxEpoch          \* bound: passwords written

ASSUME AccountsAssumption ==
  /\ SessionLifetime \in Nat \ {0} /\ LinkLifetime \in Nat \ {0}
  /\ LinkCooldown \in Nat /\ MaxEpoch \in Nat

VARIABLES
  user,     \* the User's password, with history: how often it was written and reset,
            \* and the session whose change is in force
  session,  \* session[s]: AuthSession, with history: the password in force when its
            \* row was written
  link,     \* link[t]: PasswordResetToken, with history
  request   \* request[q]: next step and what it has read

accountVars == <<user, session, link, request, clock>>

Users == [password : Passwords, epoch : Nat, resets : Nat, keeper : Sessions \cup {Null}]

SessionRows ==
  [status : {"ABSENT", "LIVE", "REVOKED"}, expiresAt : Stamp, epoch : Nat]

LinkRows ==
  [status : {"ABSENT", "LIVE", "USED", "DELETED"}, createdAt : Stamp, expiresAt : Stamp,
   resets : Nat, spent : Nat]

Operations == {"login", "logout", "revoke", "revokeOthers", "change", "forgot", "reset"}

RequestStates ==
  [pc : {"idle", "open", "act", "compare", "change", "supersede", "issue", "mail",
         "withdraw", "reset"},
   op : Operations, session : Sessions \cup {Null}, link : Links \cup {Null},
   password : Passwords \cup {Null}, seen : SUBSET Links, now : Nat]

AccountsTypeOK ==
  /\ user \in Users
  /\ session \in [Sessions -> SessionRows]
  /\ link \in [Links -> LinkRows]
  /\ request \in [Requests -> RequestStates]

NoRequest == [pc |-> "idle", op |-> "login", session |-> Null, link |-> Null,
              password |-> Null, seen |-> {}, now |-> 0]

(* register has created the account.                                       *)
AccountsInit ==
  /\ user \in [password : Passwords, epoch : {0}, resets : {0}, keeper : {Null}]
  /\ session = [s \in Sessions |->
       [status |-> "ABSENT", expiresAt |-> Null, epoch |-> 0]]
  /\ link = [t \in Links |->
       [status |-> "ABSENT", createdAt |-> Null, expiresAt |-> Null, resets |-> 0, spent |-> 0]]
  /\ request = [q \in Requests |-> NoRequest]
  /\ clock = 0

Begin(q, first) == request' = [request EXCEPT ![q] = first]
Step(q, pc) == request' = [request EXCEPT ![q].pc = pc]
Reply(q) == request' = [request EXCEPT ![q] = NoRequest]

AccountsTick == ClockTick /\ UNCHANGED <<user, session, link, request>>

-----------------------------------------------------------------------------
(* Signing in.                                                             *)

(* login: the row is read, the password compared with what was read.       *)
Login(q) ==
  /\ request[q].pc = "idle"
  /\ Begin(q, [NoRequest EXCEPT !.pc = "open", !.op = "login"])
  /\ UNCHANGED <<user, session, link, clock>>

(* createAuthResponse, whenever that is.                                   *)
OpenSession(q) ==
  /\ request[q].pc = "open"
  /\ \/ \E s \in Sessions :
          /\ session[s].status = "ABSENT"
          /\ session' = [session EXCEPT ![s] =
               [status |-> "LIVE", expiresAt |-> clock + SessionLifetime,
                epoch |-> user.epoch]]
     \/ /\ Faulty("database") \/ \A s \in Sessions : session[s].status # "ABSENT"
        /\ UNCHANGED session
  /\ Reply(q)
  /\ UNCHANGED <<user, link, clock>>

-----------------------------------------------------------------------------
(* Requests with a session.                                                *)

Admitted(s) == session[s].status = "LIVE" /\ session[s].expiresAt > clock

(* JwtAuthGuard.canActivate; what it lets through acts later.              *)
Guard(q) ==
  /\ request[q].pc = "idle"
  /\ \E s \in Sessions, op \in {"logout", "revoke", "revokeOthers", "change"} :
       /\ Admitted(s)
       /\ Begin(q, [NoRequest EXCEPT !.pc = IF op = "change" THEN "compare" ELSE "act",
                                   !.op = op, !.session = s])
  /\ UNCHANGED <<user, session, link, clock>>

Revoked(targets) ==
  [s \in Sessions |-> IF s \in targets /\ session[s].status = "LIVE"
                        THEN [session[s] EXCEPT !.status = "REVOKED"] ELSE session[s]]

(* logout, revokeSession and revokeOtherSessions: one updateMany each.     *)
Act(q) ==
  /\ request[q].pc = "act"
  /\ LET own == request[q].session
         others == {s \in Sessions \ {own} : session[s].expiresAt # Null
                                              /\ session[s].expiresAt > clock} IN
       \/ request[q].op = "logout" /\ session' = Revoked({own})
       \/ request[q].op = "revoke" /\ \E s \in others : session' = Revoked({s})
       \/ request[q].op = "revokeOthers" /\ session' = Revoked(others)
       \/ (Faulty("database") \/ (request[q].op = "revoke" /\ others = {})) /\ UNCHANGED session
  /\ Reply(q)
  /\ UNCHANGED <<user, link, clock>>

(* changePassword: the current password is compared with the row as read.  *)
ComparePassword(q) ==
  /\ request[q].pc = "compare"
  /\ \/ \E p \in Passwords \ {user.password} :
          request' = [request EXCEPT ![q].pc = "change", ![q].password = p]
     \/ Reply(q)
  /\ UNCHANGED <<user, session, link, clock>>

Written(p, resets, keeper) ==
  [password |-> p, epoch |-> user.epoch + 1, resets |-> resets, keeper |-> keeper]

(* Mutation: the other sessions are left alone.                            *)
ChangePasswordOnly(q) ==
  /\ request[q].pc = "change" /\ user.epoch < MaxEpoch
  /\ user' = Written(request[q].password, user.resets, request[q].session)
  /\ UNCHANGED session
  /\ Reply(q)
  /\ UNCHANGED <<link, clock>>

(* One transaction by id: the password and every session but its own.      *)
ChangePassword(q) ==
  /\ request[q].pc = "change"
  /\ \/ /\ user.epoch < MaxEpoch
        /\ user' = Written(request[q].password, user.resets, request[q].session)
        /\ session' = Revoked(Sessions \ {request[q].session})
     \/ (user.epoch = MaxEpoch \/ Faulty("database")) /\ UNCHANGED <<user, session>>
  /\ Reply(q)
  /\ UNCHANGED <<link, clock>>

-----------------------------------------------------------------------------
(* Reset links.                                                            *)

Unused(t) == link[t].status = "LIVE"

RecentLink ==
  \E t \in Links : link[t].status \in {"LIVE", "USED"} /\ link[t].createdAt >= clock - LinkCooldown

(* requestPasswordReset: a recent request is acknowledged and nothing more.*)
Forgot(q) ==
  /\ request[q].pc = "idle" /\ ~RecentLink
  /\ Begin(q, [NoRequest EXCEPT !.pc = "supersede", !.op = "forgot", !.now = clock])
  /\ UNCHANGED <<user, session, link, clock>>

(* The transaction's updateMany sees the links committed by now ...        *)
SupersedeLinks(q) ==
  /\ request[q].pc = "supersede"
  /\ request' = [request EXCEPT ![q].pc = "issue", ![q].seen = {t \in Links : Unused(t)}]
  /\ UNCHANGED <<user, session, link, clock>>

Used(targets) ==
  [t \in Links |-> IF t \in targets /\ Unused(t) THEN [link[t] EXCEPT !.status = "USED"]
                                                ELSE link[t]]

(* ... and its end adds the new one.                                       *)
IssueLink(q) ==
  /\ request[q].pc = "issue"
  /\ \/ \E t \in Links :
          /\ link[t].status = "ABSENT"
          /\ link' = [Used(request[q].seen) EXCEPT ![t] =
               [status |-> "LIVE", createdAt |-> clock,
                expiresAt |-> request[q].now + LinkLifetime,
                resets |-> user.resets, spent |-> 0]]
          /\ request' = [request EXCEPT ![q].pc = "mail", ![q].link = t]
     \/ /\ Faulty("database") \/ \A t \in Links : link[t].status # "ABSENT"
        /\ Reply(q) /\ UNCHANGED link
  /\ UNCHANGED <<user, session, clock>>

(* A mail that is reported as failed may have been sent.                   *)
MailLink(q) ==
  /\ request[q].pc = "mail"
  /\ Reply(q) \/ ((Faulty("mail") \/ Faulty("database")) /\ Step(q, "withdraw"))
  /\ UNCHANGED <<user, session, link, clock>>

WithdrawLink(q) ==
  /\ request[q].pc = "withdraw"
  /\ \/ link' = [link EXCEPT ![request[q].link].status = "DELETED"]
     \/ Faulty("database") /\ UNCHANGED link
  /\ Reply(q)
  /\ UNCHANGED <<user, session, clock>>

(* resetPassword: the link is looked up, the new password compared, hashed.*)
FollowLink(q) ==
  /\ request[q].pc = "idle"
  /\ \E t \in Links, p \in Passwords \ {user.password} :
       /\ Unused(t) /\ link[t].expiresAt > clock
       /\ Begin(q, [NoRequest EXCEPT !.pc = "reset", !.op = "reset", !.link = t,
                                   !.password = p, !.now = clock])
  /\ UNCHANGED <<user, session, link, clock>>

(* Mutation: the claim compares the id alone.                              *)
ClaimableLinkById(q) == link[request[q].link].status \in {"LIVE", "USED"}

ClaimableLink(q) ==
  Unused(request[q].link) /\ link[request[q].link].expiresAt > request[q].now

(* Mutation: the other links are left alone.                               *)
SpentAlone(t) == [link EXCEPT ![t].status = "USED", ![t].spent = @ + 1]

Spent(t) == [Used(Links) EXCEPT ![t].status = "USED", ![t].spent = @ + 1]

(* One transaction: the link, the password, all links and all sessions.    *)
ResetPassword(q) ==
  /\ request[q].pc = "reset"
  /\ \/ /\ ClaimableLink(q) /\ user.epoch < MaxEpoch
        /\ link' = Spent(request[q].link)
        /\ user' = Written(request[q].password, user.resets + 1, Null)
        /\ session' = Revoked(Sessions)
     \/ /\ ~ClaimableLink(q) \/ user.epoch = MaxEpoch \/ Faulty("database")
        /\ UNCHANGED <<user, session, link>>
  /\ Reply(q)
  /\ UNCHANGED clock

(* The API process dies.                                                   *)
DropRequest(q) ==
  /\ request[q].pc # "idle" /\ Faulty("crash")
  /\ Reply(q)
  /\ UNCHANGED <<user, session, link, clock>>

AccountsNext ==
  \/ AccountsTick
  \/ \E q \in Requests :
       \/ Login(q) \/ OpenSession(q) \/ Guard(q) \/ Act(q)
       \/ ComparePassword(q) \/ ChangePassword(q)
       \/ Forgot(q) \/ SupersedeLinks(q) \/ IssueLink(q) \/ MailLink(q) \/ WithdrawLink(q)
       \/ FollowLink(q) \/ ResetPassword(q) \/ DropRequest(q)

AccountsSpec == AccountsInit /\ [][AccountsNext]_accountVars

-----------------------------------------------------------------------------
(* Properties.                                                             *)

(* A reset link changes the password once, however many requests follow it *)
(* and whatever they read before.                                          *)
LinkIsSpentOnce == \A t \in Links : link[t].spent <= 1

(* No link that was issued before a reset of the password survives it,     *)
(* although links are issued and spent concurrently.                       *)
NoLinkOutlivesReset == \A t \in Links : Unused(t) => link[t].resets = user.resets

(* After a password was written, the sessions that were open are closed:   *)
(* only the session that made the change outlives it.                      *)
NoSessionOutlivesPassword ==
  \A s \in Sessions :
    session[s].status = "LIVE" => session[s].epoch = user.epoch \/ s = user.keeper

(* A request that is about to write has what it writes, and a link that    *)
(* was not used has changed no password.                                   *)
RequestOK(q) ==
  /\ request[q].pc \in {"mail", "withdraw", "reset"} => request[q].link \in Links
  /\ request[q].pc \in {"change", "reset"} => request[q].password \in Passwords

LinkOK(t) ==
  /\ link[t].spent <= 1
  /\ link[t].status \in {"ABSENT", "LIVE"} => link[t].spent = 0

(* Between the steps of any requests: a link that was used, a link older    *)
(* than a reset and a session older than the password are dead.            *)
AccountInv ==
  /\ AccountsTypeOK /\ clock \in Nat
  /\ \A q \in Requests : RequestOK(q)
  /\ \A t \in Links : LinkOK(t)
  /\ NoLinkOutlivesReset
  /\ NoSessionOutlivesPassword
=============================================================================
