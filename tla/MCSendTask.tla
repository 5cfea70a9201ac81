----------------------------- MODULE MCSendTask ------------------------------
(***************************************************************************)
(* Instances of SendTask for TLC: a group without a mobile number and two  *)
(* with two numbers each, templates with and without a message.            *)
(***************************************************************************)
EXTENDS SendTaskInv

CONSTANTS empty, pair, swapped, greeting, blank, alice, bob

MCTemplates == {greeting, blank}
MCEmptyMessage == {blank}
MCReceivers == {alice, bob}
Numbers(g) ==
  CASE g = empty   -> <<>>
    [] g = pair    -> <<alice, bob>>
    [] g = swapped -> <<bob, alice>>

MCGroups == {empty, pair}
MCMobiles == [g \in MCGroups |-> Numbers(g)]

SendableGroups == {pair, swapped}
SendableMobiles == [g \in SendableGroups |-> Numbers(g)]

TwoGroups == [contacts |-> 2, templates |-> 1]
TwoTemplates == [contacts |-> 1, templates |-> 2]
OneEach == [contacts |-> 1, templates |-> 1]
=============================================================================
