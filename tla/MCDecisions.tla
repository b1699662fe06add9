----------------------------- MODULE MCDecisions -------------------------------
(* Instances for TLC of the decisions of an owner that requests in flight  *)
(* must respect: a share is closed, a password changed, an invitation      *)
(* replaced, an email not wanted.  They share nothing but the clock, so a  *)
(* behaviour is one of a single component, in Focus, while the others rest.*)
EXTENDS PacketShareAccess, Accounts, Collaboration, NotificationEmails, TLC

CONSTANTS Focus, q1, q2, m1, m2, c1, c2, p1, p2, r1

VARIABLE part  \* the component that runs

visits == <<share, code, visitor, accessTokens, granted, served>>
account == <<user, session, link, request>>
team == <<member, archived, dialog, tokens, fate>>
emails == <<delivery, batch, accepted, wanted, reader>>

MCDelays == <<1, 2>>

(* The components use the same model values: q for what is in flight, m    *)
(* for people and sessions, c for codes and links.                         *)
Symmetry ==
  Permutations(Requests) \cup Permutations(People) \cup Permutations(Codes)
    \cup Permutations(Passwords)

MCInit ==
  /\ part \in Focus
  /\ AccessInit /\ AccountsInit /\ TeamInit /\ Init
  /\ part # "visits" => share.expiresAt = Null /\ share.verified
  /\ part # "emails" => ~wanted.demo

MCNext ==
  /\ UNCHANGED part
  /\ \/ part = "visits" /\ AccessNext /\ UNCHANGED <<account, team, emails>>
     \/ part = "account" /\ AccountsNext /\ UNCHANGED <<visits, team, emails>>
     \/ part = "team" /\ TeamNext /\ UNCHANGED <<visits, account, emails>>
     \/ part = "emails" /\ Next /\ UNCHANGED <<visits, account, team>>

MCSpec == MCInit /\ [][MCNext]_<<part, visits, account, team, emails, clock>>
=============================================================================
