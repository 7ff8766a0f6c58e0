---------------------------- MODULE MCBackOffice ----------------------------
(***************************************************************************)
(* Small instance of BackOffice for TLC.                                   *)
(***************************************************************************)
EXTENDS BackOffice

CONSTANTS ann, bob, cy

Employees == {ann, bob}

\* Operations that share rows meet in one behaviour.
Mixes ==
  {[calls |-> 3, kinds |-> {"create", "setActive", "login", "refresh", "logout"}],
   [calls |-> 3, kinds |-> {"publish", "certify", "decertify"}],
   [calls |-> 3, kinds |-> {"open", "publish", "unpublish", "tick"}],
   [calls |-> 2, kinds |-> {"create", "update", "profile", "publish", "requestSwap"}],
   [calls |-> 2, kinds |-> {"accept", "claim", "assignManager", "unassignManager"}],
   [calls |-> 4, kinds |-> {"clockIn", "clockOut", "tick"}],
   [calls |-> 3, kinds |-> {"assign", "unassign", "clockIn", "clockOut"}],
   [calls |-> 3, kinds |-> {"grantSkill", "revokeSkill"}],
   [calls |-> 1, kinds |-> TellsParties],
   [calls |-> 2, kinds |-> {"decline", "expire", "markRead"}]}
=============================================================================
