----------------------------- MODULE Collaboration ----------------------------
(***************************************************************************)
(* The collaborators of one case: its owner invites, renews and removes    *)
(* people while they accept or decline with the token that was mailed.     *)
(***************************************************************************)
EXTENDS Environment, FiniteSets

CONSTANTS
  People, Dialogs,   \* invited addresses; requests in flight
  Seats,             \* collaboratorSeatLimit - 1: the owner has the tenth
  InvitationExpiry,  \* sharingSettings.invitationExpiryDays
  MaxTokens          \* bound: tokens created

ASSUME CollaborationAssumption ==
  Seats \in Nat /\ InvitationExpiry \in Nat \ {0} /\ MaxTokens \in Nat

VARIABLES
  member,    \* member[p]: CaseCollaborator, unique per case and email, with history:
             \* how often the row was made and the token it was last given
  archived,  \* Case.archivedAt is set
  dialog,    \* dialog[d]: next step and what it has read
  tokens,    \* how many tokens were made; token n is the n-th
  fate       \* history: fate[n], whom token n was made for and what it decided

teamVars == <<member, archived, dialog, tokens, fate, clock>>

Tokens == 1 .. MaxTokens

Members ==
  [status : {"ABSENT", "PENDING", "ACTIVE"}, token : Tokens \cup {Null}, expiresAt : Stamp,
   id : Nat, last : Tokens \cup {Null}]

DialogStates ==
  [pc : {"idle", "write", "mail", "withdraw", "decide", "remove"},
   person : People \cup {Null}, found : BOOLEAN, id : Nat, token : Tokens \cup {Null},
   accept : BOOLEAN, now : Nat]

Fates == [person : People \cup {Null}, mailed : BOOLEAN, accepted : Nat, declined : Nat]

TeamTypeOK ==
  /\ member \in [People -> Members]
  /\ archived \in BOOLEAN
  /\ dialog \in [Dialogs -> DialogStates]
  /\ tokens \in 0 .. MaxTokens
  /\ fate \in [Tokens -> Fates]

NoMember == [status |-> "ABSENT", token |-> Null, expiresAt |-> Null, id |-> 0, last |-> Null]
NoDialog == [pc |-> "idle", person |-> Null, found |-> FALSE, id |-> 0, token |-> Null,
             accept |-> FALSE, now |-> 0]

TeamInit ==
  /\ member = [p \in People |-> NoMember]
  /\ archived = FALSE
  /\ dialog = [d \in Dialogs |-> NoDialog]
  /\ tokens = 0
  /\ fate = [n \in Tokens |-> [person |-> Null, mailed |-> FALSE, accepted |-> 0, declined |-> 0]]
  /\ clock = 0

TeamTick == ClockTick /\ UNCHANGED <<member, archived, dialog, tokens, fate>>

ArchiveCase == archived' = TRUE /\ UNCHANGED <<member, dialog, tokens, fate, clock>>

Close(d) == dialog' = [dialog EXCEPT ![d] = NoDialog]

-----------------------------------------------------------------------------
(* The owner.                                                              *)

(* isExpiredCollaborator                                                   *)
ExpiredMember(p) == member[p].status = "PENDING" /\ Passed(member[p].expiresAt)

Occupied == {p \in People : member[p].status # "ABSENT" /\ ~ExpiredMember(p)}

MayInvite(p) ==
  /\ member[p].status # "ACTIVE"
  /\ member[p].status = "ABSENT" \/ ExpiredMember(p) => Cardinality(Occupied) < Seats

(* invite: loadOwnedCase and the checks on what it returned.               *)
Invite(d) ==
  /\ dialog[d].pc = "idle" /\ ~archived /\ tokens < MaxTokens
  /\ \E p \in People :
       /\ MayInvite(p)
       /\ tokens' = tokens + 1
       /\ dialog' = [dialog EXCEPT ![d] = [NoDialog EXCEPT
            !.pc = "write", !.person = p, !.found = member[p].status # "ABSENT",
            !.id = member[p].id, !.token = tokens + 1, !.now = clock]]
       /\ fate' = [fate EXCEPT ![tokens + 1].person = p]
  /\ UNCHANGED <<member, archived, clock>>

Same(d) == member[dialog[d].person].id = dialog[d].id

Present(d) == member[dialog[d].person].status # "ABSENT"

(* The existing row is renewed by its id, whatever has become of it; a new *)
(* one must not meet another of the same email.                            *)
WriteInvitation(d) ==
  /\ dialog[d].pc = "write"
  /\ LET p == dialog[d].person
         possible == IF dialog[d].found THEN Present(d) /\ Same(d) ELSE ~Present(d)
     IN
       \/ /\ possible
          /\ member' = [member EXCEPT ![p] =
               [status |-> "PENDING", token |-> dialog[d].token,
                expiresAt |-> dialog[d].now + InvitationExpiry,
                id |-> IF dialog[d].found THEN @.id ELSE @.id + 1,
                last |-> dialog[d].token]]
          /\ dialog' = [dialog EXCEPT ![d].pc = "mail", ![d].id = member'[p].id]
       \/ (~possible \/ Faulty("database")) /\ Close(d) /\ UNCHANGED member
  /\ UNCHANGED <<archived, tokens, fate, clock>>

MailInvitation(d) ==
  /\ dialog[d].pc = "mail"
  /\ \/ /\ fate' = [fate EXCEPT ![dialog[d].token].mailed = TRUE]
        /\ Close(d)
     \/ /\ Faulty("mail") /\ UNCHANGED fate
        /\ dialog' = [dialog EXCEPT ![d].pc = "withdraw"]
  /\ UNCHANGED <<member, archived, tokens, clock>>

(* Mutation: the withdrawal compares the id alone.                         *)
WithdrawableById(d) == Present(d) /\ Same(d)

Withdrawable(d) == Present(d) /\ Same(d) /\ member[dialog[d].person].token = dialog[d].token

(* An undelivered token expires at once, so that it takes no seat.         *)
WithdrawInvitation(d) ==
  /\ dialog[d].pc = "withdraw"
  /\ \/ /\ Withdrawable(d)
        /\ member' = [member EXCEPT ![dialog[d].person].expiresAt = clock,
                                    ![dialog[d].person].token = Null]
     \/ (~Withdrawable(d) \/ Faulty("database")) /\ UNCHANGED member
  /\ Close(d)
  /\ UNCHANGED <<archived, tokens, fate, clock>>

FindMember(d) ==
  /\ dialog[d].pc = "idle" /\ ~archived
  /\ \E p \in People :
       /\ member[p].status # "ABSENT"
       /\ dialog' = [dialog EXCEPT ![d] = [NoDialog EXCEPT
            !.pc = "remove", !.person = p, !.id = member[p].id]]
  /\ UNCHANGED <<member, archived, tokens, fate, clock>>

RemoveMember(d) ==
  /\ dialog[d].pc = "remove"
  /\ \/ /\ Present(d) /\ Same(d)
        /\ member' = [member EXCEPT ![dialog[d].person] =
             [NoMember EXCEPT !.id = dialog[d].id]]
     \/ (~Present(d) \/ ~Same(d) \/ Faulty("database")) /\ UNCHANGED member
  /\ Close(d)
  /\ UNCHANGED <<archived, tokens, fate, clock>>

-----------------------------------------------------------------------------
(* The invited person, signed in with the address that was invited.        *)

FindInvitation(d) ==
  /\ dialog[d].pc = "idle" /\ ~archived
  /\ \E p \in People, accept \in BOOLEAN :
       /\ member[p].status = "PENDING" /\ member[p].token # Null
       /\ ~Passed(member[p].expiresAt)
       /\ dialog' = [dialog EXCEPT ![d] = [NoDialog EXCEPT
            !.pc = "decide", !.person = p, !.id = member[p].id, !.token = member[p].token,
            !.accept = accept, !.now = clock]]
  /\ UNCHANGED <<member, archived, tokens, fate, clock>>

(* Mutation: the transaction finds the row by its id alone.                *)
OpenById(d) == Same(d)

(* Mutation: the token is not compared again.                              *)
OpenInvitation(d) ==
  LET m == member[dialog[d].person] IN
  Same(d) /\ m.status = "PENDING" /\ m.expiresAt > dialog[d].now

Open(d) ==
  LET m == member[dialog[d].person] IN
  /\ Same(d) /\ m.token = dialog[d].token
  /\ m.status = "PENDING" /\ m.expiresAt > dialog[d].now

(* accept and decline: one transaction each, on the row as it is now.      *)
Decide(d) ==
  /\ dialog[d].pc = "decide"
  /\ LET p == dialog[d].person
         n == dialog[d].token IN
       \/ /\ Open(d) /\ dialog[d].accept
          /\ member' = [member EXCEPT ![p].status = "ACTIVE", ![p].token = Null,
                                      ![p].expiresAt = Null]
          /\ fate' = [fate EXCEPT ![n].accepted = @ + 1]
       \/ /\ Open(d) /\ ~dialog[d].accept
          /\ member' = [member EXCEPT ![p] = [NoMember EXCEPT !.id = dialog[d].id]]
          /\ fate' = [fate EXCEPT ![n].declined = @ + 1]
       \/ (~Open(d) \/ Faulty("database")) /\ UNCHANGED <<member, fate>>
  /\ Close(d)
  /\ UNCHANGED <<archived, tokens, clock>>

DropDialog(d) ==
  /\ dialog[d].pc # "idle" /\ Faulty("crash")
  /\ Close(d)
  /\ UNCHANGED <<member, archived, tokens, fate, clock>>

TeamNext ==
  \/ TeamTick \/ ArchiveCase
  \/ \E d \in Dialogs :
       \/ Invite(d) \/ WriteInvitation(d) \/ MailInvitation(d) \/ WithdrawInvitation(d)
       \/ FindMember(d) \/ RemoveMember(d) \/ FindInvitation(d) \/ Decide(d) \/ DropDialog(d)

TeamSpec == TeamInit /\ [][TeamNext]_teamVars

-----------------------------------------------------------------------------
(* Properties.                                                             *)

(* A token decides one thing once, however many requests hold it: it is    *)
(* accepted or declined, and what it was accepted for is its own person's. *)
TokenDecidesOnce == \A n \in Tokens : fate[n].accepted + fate[n].declined <= 1

(* A token that was replaced, withdrawn, decided or removed decides        *)
(* nothing, however long before a request had read it.                     *)
DeadTokenDecidesNothing ==
  [][\A n \in Tokens :
       (\A p \in People : member[p].token # n) =>
         fate'[n].accepted = fate[n].accepted /\ fate'[n].declined = fate[n].declined]_teamVars

(* The last invitation of a person, once it was mailed, works until it is  *)
(* decided, expires or the person is removed: the failure of an earlier    *)
(* mail that is still being handled does not withdraw it.                  *)
LastInvitationWorks ==
  \A p \in People :
    LET n == member[p].last IN
    member[p].status = "PENDING" /\ n # Null /\ fate[n].mailed => member[p].token = n

(* A request that still has an invitation to write, mail or withdraw.       *)
Inviting(d) == dialog[d].pc \in {"write", "mail", "withdraw"}

Undecided(n) == fate[n].accepted = 0 /\ fate[n].declined = 0

(* A token that is good for something is its row's last, and undecided; one *)
(* that was withdrawn will not be mailed any more.                          *)
MemberOK(p) ==
  LET m == member[p] IN
  /\ m.token # Null => m.status = "PENDING" /\ m.token = m.last /\ Undecided(m.token)
  /\ m.last # Null => m.last <= tokens /\ fate[m.last].person = p
  /\ m.status = "PENDING" => m.last # Null
  /\ m.status = "PENDING" /\ m.token = Null =>
       ~fate[m.last].mailed /\ \A d \in Dialogs : Inviting(d) => dialog[d].token # m.last

(* What a request carries; until it is written nobody has its token.        *)
DialogOK(d) ==
  LET n == dialog[d].token IN
  /\ dialog[d].pc # "idle" => dialog[d].person \in People
  /\ dialog[d].pc = "decide" => n # Null
  /\ Inviting(d) =>
       n # Null /\ n <= tokens /\ fate[n].person = dialog[d].person /\ ~fate[n].mailed
  /\ dialog[d].pc = "write" => Undecided(n) /\ \A p \in People : member[p].last # n

(* Every token is made for one request.                                     *)
TokensDiffer ==
  /\ \A d, e \in Dialogs : Inviting(d) /\ Inviting(e) /\ d # e => dialog[d].token # dialog[e].token
  /\ \A n \in Tokens : n > tokens => Undecided(n) /\ ~fate[n].mailed

(* Whatever requests and mails are in flight: a token has decided once at   *)
(* most, and the last invitation that was mailed works; with what rows and  *)
(* requests say of each other this is inductive.                            *)
TeamInv ==
  /\ TeamTypeOK /\ clock \in Nat
  /\ \A p \in People : MemberOK(p)
  /\ \A d \in Dialogs : DialogOK(d)
  /\ TokensDiffer /\ TokenDecidesOnce /\ LastInvitationWorks
=============================================================================
